--------------------------- MODULE RequestProofs ---------------------------
(***************************************************************************)
(* Theorems about the comms of the plugin, for any number of               *)
(* processes, connections, descriptors, messages and faults: a send comm   *)
(* is only made over an established connection, and active_fds marks       *)
(* exactly the comms with a request under way, except for the marks that   *)
(* a comm closed too early has left behind.  Two more: the types of the    *)
(* whole program's state, and that the bytes between two comms are always  *)
(* read from where a message begins.                                       *)
(***************************************************************************)
EXTENDS DescriptorProofs, FiniteSetTheorems, SequenceTheorems

USE DEF initVars, connVars, reqVars

(* Two comms of a process never have the same descriptor. *)
LEMMA CommsDiffer ==
  ASSUME ConnInv, NEW c \in Conns, NEW d \in Conns, NEW s \in Sides, NEW t \in Sides,
         comm[c][s] # NoFd, comm[c][s] = comm[d][t], Proc(c, s) = Proc(d, t)
  PROVE  c = d /\ s = t
<1>1. s \in Kinds /\ t \in Kinds BY DEF Kinds
<1>2. FdTable[s][c] = comm[c][s] /\ FdTable[t][d] = comm[d][t] BY TableNow DEF TableIs, Sides
<1>3. ProcOf(s, c) = Proc(c, s) /\ ProcOf(t, d) = Proc(d, t) BY DEF ProcOf, Proc, Sides
<1> QED BY <1>1, <1>2, <1>3 DEF ConnInv, Own

(* Both ends of a connection are processes. *)
LEMMA ProcType == \A c \in Conns, s \in Sides : Proc(c, s) \in Procs
BY ConnectionAssumption DEF Proc

-----------------------------------------------------------------------------
(* A send comm and the connection under it.                                *)

EstablishedInv ==
  /\ tcp \in [Conns -> {"none", "syn", "up", "refused"}]
  /\ \A c \in Conns : comm[c]["send"] # NoFd => tcp[c] = "up" /\ "send" \notin closed[c]

(* No step makes a send comm too early or resets the connection under it. *)
LEMMA NextEstablishedInv ==
  ASSUME ConnInv, EstablishedInv, [Next]_vars
  PROVE  EstablishedInv'
<1> USE DEF EstablishedInv
<1>1. ASSUME NEW p \in Procs, Starting(p) PROVE EstablishedInv' BY <1>1 DEF Starting
<1>2. ASSUME NEW p \in Procs, Kill(p) PROVE EstablishedInv'
  BY <1>2 DEF Kill, SocketsOfKilled, Sides
<1>3. ASSUME NEW c \in Conns, Listening(c) PROVE EstablishedInv'
  BY <1>3 DEF Listening, Listen, CanListen, Sides, ConnInv, ConnTypes
<1>4. ASSUME NEW c \in Conns, Connecting(c) PROVE EstablishedInv'
  <2>1. CASE ConnectStart(c) BY <2>1 DEF ConnectStart, CanConnect
  <2>2. CASE Handshake(c) BY <2>2 DEF Handshake
  <2>3. CASE ConnectReady(c)
    BY <2>3 DEF ConnectReady, CanConnect, ConnInv, ConnTypes, Sides
  <2>4. CASE AcceptReady(c)
    BY <2>4 DEF AcceptReady, ConnInv, ConnTypes, Sides
  <2>5. CASE CloseListen(c)
    BY <2>5 DEF CloseListen, ConnInv, ConnTypes
  <2>6. CASE ConnectPoll(c) \/ ConnectFails(c) \/ AcceptConnection(c) \/ EstablishFails(c)
    BY <2>6 DEF ConnectPoll, ConnectFails, AcceptConnection, EstablishFails, ListenFails,
       ConnectStartFails
  <2> QED BY <1>4, <2>1, <2>2, <2>3, <2>4, <2>5, <2>6 DEF Connecting, Establish
<1>5. ASSUME NEW c \in Conns, Transferring(c) PROVE EstablishedInv'
  <2>1. CASE ISend(c) \/ IRecv(c) \/ RequestFails(c) \/ \E side \in Sides : Test(c, side)
    <3>1. UNCHANGED <<tcp, comm, closed>>
      BY <2>1 DEF ISend, ISendTake, DumpLock, DumpBytes, DumpSize, ISendProcess, IRecv,
         RequestFails, DumpFails, ISendFails, IRecvFails, Test
    <3> QED BY <3>1
  <2>2. ASSUME NEW side \in Sides, Close(c, side) PROVE EstablishedInv'
    BY <2>2 DEF Close, CloseComm, ConnInv, ConnTypes, Sides
  <2> QED BY <1>5, <2>1, <2>2 DEF Transferring
<1>6. CASE UNCHANGED vars BY <1>6 DEF vars
<1> QED BY <1>1, <1>2, <1>3, <1>4, <1>5, <1>6, NextCases DEF ConnStep

(* From the first connect to the last close.                               *)
LEMMA EstablishedInvariant == Spec => []EstablishedInv
<1>1. Init => EstablishedInv BY DEF Init, InitConnection, EstablishedInv, NoComm, Sides
<1>2. ConnInv /\ EstablishedInv /\ [Next]_vars => EstablishedInv' BY NextEstablishedInv
<1> QED BY <1>1, <1>2, ConnectionInvariant, PTL DEF Spec

(* A send comm is made only over a connection that both kernels have       *)
(* established, and the connection stays so as long as the comm is there,  *)
(* although connect takes SO_ERROR = 0 for success too early.              *)
THEOREM CommsAreEstablished == Spec => []CommOverEstablished
<1>1. EstablishedInv => CommOverEstablished BY DEF EstablishedInv, CommOverEstablished
<1> QED BY <1>1, EstablishedInvariant, PTL

-----------------------------------------------------------------------------
(* active_fds.                                                             *)

ActiveTypes ==
  /\ active_fds \in [Procs -> SUBSET Fds] /\ stale \in [Procs -> SUBSET Fds]
  /\ DOMAIN requests = Conns /\ \A c \in Conns : DOMAIN requests[c] = Sides

(* Comm (c, s) has a request under way. *)
Busy(c, s) == Outstanding(c, s) # {}

(* A mark comes from a comm with a request, or is stale. *)
MarkHasReason ==
  \A p \in Procs : \A fd \in active_fds[p] :
    \/ fd \in stale[p]
    \/ \E c \in Conns, s \in Sides : Proc(c, s) = p /\ comm[c][s] = fd /\ Busy(c, s)

(* A comm with a request has one, is marked, and not by a stale mark. *)
BusyIsMarked ==
  \A c \in Conns, s \in Sides : Busy(c, s) =>
    /\ comm[c][s] # NoFd
    /\ comm[c][s] \in active_fds[Proc(c, s)] /\ comm[c][s] \notin stale[Proc(c, s)]
    /\ \E slot : Outstanding(c, s) = {slot}

(* Between the test of active_fds and the mark, isend can rely on the      *)
(* test: no other thread marks the descriptor.                             *)
TestStillTrue ==
  \A c \in Conns : isend_pc[c] # "idle" => comm[c]["send"] \notin active_fds[Src[c]]

ActiveInv ==
  /\ ActiveTypes /\ MarkHasReason /\ BusyIsMarked /\ TestStillTrue
  /\ \A p \in Procs : stale[p] \subseteq active_fds[p]

(* Comms may be made, nothing else changes. *)
LEMMA CommsMadeActiveInv ==
  ASSUME ConnInv, ActiveInv, UNCHANGED <<active_fds, stale, requests, isend_pc>>,
         \A c \in Conns, s \in Sides : comm[c][s] # NoFd => comm'[c][s] = comm[c][s]
  PROVE  ActiveInv'
<1>1. \A c \in Conns, s \in Sides : Outstanding(c, s)' = Outstanding(c, s) BY DEF Outstanding
<1>2. ActiveTypes' BY DEF ActiveInv, ActiveTypes
<1>3. \A c \in Conns, s \in Sides : Busy(c, s)' = Busy(c, s) BY <1>1 DEF Busy
<1>4. \A c \in Conns, s \in Sides : Busy(c, s) => comm'[c][s] = comm[c][s]
  BY DEF ActiveInv, BusyIsMarked
<1>5. MarkHasReason' BY <1>3, <1>4 DEF ActiveInv, MarkHasReason
<1>6. BusyIsMarked'
  <2> SUFFICES ASSUME NEW c \in Conns, NEW s \in Sides, Busy(c, s)'
               PROVE  /\ comm'[c][s] # NoFd
                      /\ comm'[c][s] \in active_fds[Proc(c, s)] /\ comm'[c][s] \notin stale[Proc(c, s)]
                      /\ \E slot : Outstanding(c, s)' = {slot}
    BY DEF BusyIsMarked
  <2>1. /\ Busy(c, s) /\ comm'[c][s] = comm[c][s]
        /\ Outstanding(c, s)' = Outstanding(c, s)
    BY <1>1, <1>3, <1>4
  <2>2. /\ comm[c][s] # NoFd
        /\ comm[c][s] \in active_fds[Proc(c, s)] /\ comm[c][s] \notin stale[Proc(c, s)]
        /\ \E slot : Outstanding(c, s) = {slot}
    BY <2>1 DEF ActiveInv, BusyIsMarked
  <2> QED BY <2>1, <2>2
<1>7. TestStillTrue'
  <2>1. "send" \in Sides BY DEF Sides
  <2> QED BY <2>1 DEF ActiveInv, TestStillTrue, ConnInv, ConnLinks
<1> QED BY <1>2, <1>5, <1>6, <1>7 DEF ActiveInv

(* isend moves on, or fails, before it marks. *)
LEMMA ISendPcActiveInv ==
  ASSUME ActiveInv, UNCHANGED <<active_fds, stale, requests, comm>>,
         \A c \in Conns : isend_pc'[c] # "idle" =>
           isend_pc[c] # "idle" \/ comm[c]["send"] \notin active_fds[Src[c]]
  PROVE  ActiveInv'
<1>1. \A c \in Conns, s \in Sides : Outstanding(c, s)' = Outstanding(c, s) BY DEF Outstanding
<1>2. ActiveTypes' BY DEF ActiveInv, ActiveTypes
<1>3. \A c \in Conns, s \in Sides : Busy(c, s)' = Busy(c, s) BY <1>1 DEF Busy
<1>4. MarkHasReason' BY <1>3 DEF ActiveInv, MarkHasReason
<1>5. BusyIsMarked' BY <1>1, <1>3 DEF ActiveInv, BusyIsMarked
<1>6. TestStillTrue' BY DEF ActiveInv, TestStillTrue
<1> QED BY <1>2, <1>4, <1>5, <1>6 DEF ActiveInv

(* The request of comm (c, s) changes, those of the others do not. *)
LEMMA OneRequests ==
  ASSUME ActiveTypes, NEW c \in Conns, NEW s \in Sides, NEW r,
         requests' = [requests EXCEPT ![c][s] = r]
  PROVE  /\ DOMAIN requests' = Conns /\ \A d \in Conns : DOMAIN requests'[d] = Sides
         /\ Outstanding(c, s)' = DOMAIN r
         /\ \A d \in Conns, t \in Sides : d # c \/ t # s => Outstanding(d, t)' = Outstanding(d, t)
<1>1. DOMAIN requests' = Conns BY DEF ActiveTypes
<1>2. requests'[c] = [requests[c] EXCEPT ![s] = r] BY DEF ActiveTypes
<1>3. \A d \in Conns \ {c} : requests'[d] = requests[d] BY DEF ActiveTypes
<1>4. \A d \in Conns : DOMAIN requests'[d] = Sides BY <1>2, <1>3 DEF ActiveTypes
<1>5. requests'[c][s] = r BY <1>2 DEF ActiveTypes
<1>6. \A t \in Sides \ {s} : requests'[c][t] = requests[c][t] BY <1>2 DEF ActiveTypes
<1> QED BY <1>1, <1>3, <1>4, <1>5, <1>6 DEF Outstanding

(* isend and irecv mark the descriptor of a comm that has no request. *)
LEMMA MarkActiveInv ==
  ASSUME ConnInv, ActiveInv, NEW c \in Conns, NEW s \in Sides, NEW slot, NEW moved,
         UNCHANGED <<comm, stale>>,
         comm[c][s] # NoFd, comm[c][s] \notin active_fds[Proc(c, s)],
         SetRequest(c, s, slot, moved),
         active_fds' = [active_fds EXCEPT ![Proc(c, s)] = @ \cup {comm[c][s]}],
         \A d \in Conns : isend_pc'[d] # "idle" => isend_pc[d] # "idle" /\ ~ (d = c /\ s = "send")
  PROVE  ActiveInv'
<1> DEFINE p == Proc(c, s)
           fd == comm[c][s]
           r == [x \in Outstanding(c, s) \cup {slot} |->
                  IF x = slot THEN moved ELSE requests[c][s][x]]
<1>1. p \in Procs BY ProcType
<1>2. fd \in Fds BY DEF ConnInv, ConnTypes, MaybeFd
<1>3. Outstanding(c, s) = {} BY DEF ActiveInv, BusyIsMarked, Busy
<1>4. DOMAIN r = {slot} BY <1>3
<1>5. requests' = [requests EXCEPT ![c][s] = r]
  BY DEF SetRequest, Outstanding, ActiveInv, ActiveTypes
<1> HIDE DEF r
<1>6. /\ DOMAIN requests' = Conns /\ \A d \in Conns : DOMAIN requests'[d] = Sides
      /\ Outstanding(c, s)' = {slot}
      /\ \A d \in Conns, t \in Sides : d # c \/ t # s => Outstanding(d, t)' = Outstanding(d, t)
  BY <1>4, <1>5, OneRequests DEF ActiveInv
<1>7. /\ active_fds'[p] = active_fds[p] \cup {fd}
      /\ \A q \in Procs \ {p} : active_fds'[q] = active_fds[q]
  BY <1>1 DEF ActiveInv, ActiveTypes
<1>8. fd \notin stale[p] BY <1>1 DEF ActiveInv
<1> HIDE DEF p, fd
<1>9. /\ Busy(c, s)'
      /\ \A d \in Conns, t \in Sides : d # c \/ t # s => Busy(d, t)' = Busy(d, t)
  BY <1>6 DEF Busy
<1>10. ActiveTypes'
  <2>1. active_fds' \in [Procs -> SUBSET Fds]
    BY <1>1, <1>2 DEF ActiveInv, ActiveTypes, p, fd
  <2> QED BY <1>6, <2>1 DEF ActiveInv, ActiveTypes
<1>11. MarkHasReason'
  <2> SUFFICES ASSUME NEW q \in Procs, NEW x \in active_fds'[q], x \notin stale[q]
               PROVE  \E d \in Conns, t \in Sides : Proc(d, t) = q /\ comm[d][t] = x /\ Busy(d, t)'
    BY DEF MarkHasReason
  <2>1. CASE q = p /\ x = fd BY <1>9, <2>1 DEF p, fd
  <2>2. CASE x \in active_fds[q]
    <3>1. PICK d \in Conns, t \in Sides : Proc(d, t) = q /\ comm[d][t] = x /\ Busy(d, t)
      BY <2>2 DEF ActiveInv, MarkHasReason
    <3> QED BY <1>9, <3>1
  <2> QED BY <1>7, <2>1, <2>2
<1>12. BusyIsMarked'
  <2> SUFFICES ASSUME NEW d \in Conns, NEW t \in Sides, Busy(d, t)'
               PROVE  /\ comm[d][t] # NoFd
                      /\ comm[d][t] \in active_fds'[Proc(d, t)] /\ comm[d][t] \notin stale[Proc(d, t)]
                      /\ \E x : Outstanding(d, t)' = {x}
    BY DEF BusyIsMarked
  <2>1. CASE d = c /\ t = s BY <1>1, <1>6, <1>7, <1>8, <2>1 DEF p, fd
  <2>2. CASE d # c \/ t # s
    <3>1. Busy(d, t) /\ Outstanding(d, t)' = Outstanding(d, t) BY <1>6, <1>9, <2>2
    <3>2. Proc(d, t) \in Procs BY ProcType
    <3>3. /\ comm[d][t] # NoFd
          /\ comm[d][t] \in active_fds[Proc(d, t)] /\ comm[d][t] \notin stale[Proc(d, t)]
          /\ \E x : Outstanding(d, t) = {x}
      BY <3>1 DEF ActiveInv, BusyIsMarked
    <3>4. active_fds[Proc(d, t)] \subseteq active_fds'[Proc(d, t)] BY <1>7, <3>2
    <3> QED BY <3>1, <3>3, <3>4
  <2> QED BY <2>1, <2>2
<1>13. TestStillTrue'
  <2> SUFFICES ASSUME NEW d \in Conns, isend_pc'[d] # "idle"
               PROVE  comm[d]["send"] \notin active_fds'[Src[d]]
    BY DEF TestStillTrue
  <2>1. isend_pc[d] # "idle" /\ ~ (d = c /\ s = "send") OBVIOUS
  <2>2. comm[d]["send"] \notin active_fds[Src[d]] /\ comm[d]["send"] # NoFd
    BY <2>1 DEF ActiveInv, TestStillTrue, ConnInv, ConnLinks
  <2>3. Proc(d, "send") = Src[d] /\ "send" \in Sides /\ Src[d] \in Procs
    BY ConnectionAssumption DEF Proc, Sides
  <2>4. Src[d] = p => comm[d]["send"] # fd
    BY <2>1, <2>2, <2>3, CommsDiffer DEF p, fd
  <2> QED BY <1>7, <2>2, <2>3, <2>4
<1>14. \A q \in Procs : stale[q] \subseteq active_fds'[q] BY <1>7 DEF ActiveInv
<1> QED BY <1>10, <1>11, <1>12, <1>13, <1>14 DEF ActiveInv

(* test() moves a request on. *)
LEMMA ProgressActiveInv ==
  ASSUME ActiveInv, NEW c \in Conns, NEW s \in Sides, NEW slot \in Outstanding(c, s), NEW moved,
         UNCHANGED <<comm, stale, active_fds, isend_pc>>, SetRequest(c, s, slot, moved)
  PROVE  ActiveInv'
<1> DEFINE r == [x \in Outstanding(c, s) \cup {slot} |->
                  IF x = slot THEN moved ELSE requests[c][s][x]]
<1>1. requests' = [requests EXCEPT ![c][s] = r]
  BY DEF SetRequest, Outstanding, ActiveInv, ActiveTypes
<1>2. DOMAIN r = Outstanding(c, s) OBVIOUS
<1> HIDE DEF r
<1>3. /\ DOMAIN requests' = Conns /\ \A d \in Conns : DOMAIN requests'[d] = Sides
      /\ \A d \in Conns, t \in Sides : Outstanding(d, t)' = Outstanding(d, t)
  <2>1. /\ DOMAIN requests' = Conns /\ \A d \in Conns : DOMAIN requests'[d] = Sides
        /\ Outstanding(c, s)' = DOMAIN r
        /\ \A d \in Conns, t \in Sides : d # c \/ t # s => Outstanding(d, t)' = Outstanding(d, t)
    BY <1>1, OneRequests, ZenonT(30) DEF ActiveInv
  <2> QED BY <1>2, <2>1
<1>4. \A d \in Conns, t \in Sides : Busy(d, t)' = Busy(d, t) BY <1>3 DEF Busy
<1>5. ActiveTypes' BY <1>3 DEF ActiveInv, ActiveTypes
<1>6. MarkHasReason' BY <1>4 DEF ActiveInv, MarkHasReason
<1>7. BusyIsMarked'
  <2> SUFFICES ASSUME NEW d \in Conns, NEW t \in Sides, Busy(d, t)'
               PROVE  /\ comm[d][t] # NoFd
                      /\ comm[d][t] \in active_fds[Proc(d, t)] /\ comm[d][t] \notin stale[Proc(d, t)]
                      /\ \E x : Outstanding(d, t)' = {x}
    BY DEF BusyIsMarked
  <2>1. Busy(d, t) /\ Outstanding(d, t)' = Outstanding(d, t) BY <1>3, <1>4
  <2>2. /\ comm[d][t] # NoFd
        /\ comm[d][t] \in active_fds[Proc(d, t)] /\ comm[d][t] \notin stale[Proc(d, t)]
        /\ \E x : Outstanding(d, t) = {x}
    BY <2>1 DEF ActiveInv, BusyIsMarked
  <2> QED BY <2>1, <2>2
<1>8. TestStillTrue' BY DEF ActiveInv, TestStillTrue
<1> QED BY <1>5, <1>6, <1>7, <1>8 DEF ActiveInv

(* test() removes a complete request and unmarks its descriptor. *)
LEMMA CompleteActiveInv ==
  ASSUME ConnInv, ActiveInv, NEW c \in Conns, NEW s \in Sides, NEW slot \in Outstanding(c, s),
         NEW r, DOMAIN r = Outstanding(c, s) \ {slot},
         UNCHANGED <<comm, stale, isend_pc>>,
         requests' = [requests EXCEPT ![c][s] = r],
         active_fds' = [active_fds EXCEPT ![Proc(c, s)] = @ \ {comm[c][s]}]
  PROVE  ActiveInv'
<1> DEFINE p == Proc(c, s)
           fd == comm[c][s]
<1>1. p \in Procs BY ProcType
<1>2. /\ fd # NoFd /\ fd \in active_fds[p] /\ fd \notin stale[p]
      /\ \E x : Outstanding(c, s) = {x}
  BY DEF ActiveInv, BusyIsMarked, Busy
<1>3. DOMAIN r = {} BY <1>2
<1>5. /\ DOMAIN requests' = Conns /\ \A d \in Conns : DOMAIN requests'[d] = Sides
      /\ Outstanding(c, s)' = {}
      /\ \A d \in Conns, t \in Sides : d # c \/ t # s => Outstanding(d, t)' = Outstanding(d, t)
  <2>1. /\ DOMAIN requests' = Conns /\ \A d \in Conns : DOMAIN requests'[d] = Sides
        /\ Outstanding(c, s)' = DOMAIN r
        /\ \A d \in Conns, t \in Sides : d # c \/ t # s => Outstanding(d, t)' = Outstanding(d, t)
    BY OneRequests, Zenon DEF ActiveInv
  <2> QED BY <1>3, <2>1
<1>6. /\ active_fds'[p] = active_fds[p] \ {fd}
      /\ \A q \in Procs \ {p} : active_fds'[q] = active_fds[q]
  BY <1>1 DEF ActiveInv, ActiveTypes
<1>7. ActiveTypes'
  <2>1. active_fds' \in [Procs -> SUBSET Fds] BY <1>1 DEF ActiveInv, ActiveTypes
  <2> QED BY <1>5, <2>1 DEF ActiveInv, ActiveTypes
<1> HIDE DEF p, fd
<1>8. /\ ~ Busy(c, s)'
      /\ \A d \in Conns, t \in Sides : d # c \/ t # s => Busy(d, t)' = Busy(d, t)
  BY <1>5 DEF Busy
<1>9. MarkHasReason'
  <2> SUFFICES ASSUME NEW q \in Procs, NEW x \in active_fds'[q], x \notin stale[q]
               PROVE  \E d \in Conns, t \in Sides : Proc(d, t) = q /\ comm[d][t] = x /\ Busy(d, t)'
    BY DEF MarkHasReason
  <2>1. x \in active_fds[q] /\ ~ (q = p /\ x = fd) BY <1>6
  <2>2. PICK d \in Conns, t \in Sides : Proc(d, t) = q /\ comm[d][t] = x /\ Busy(d, t)
    BY <2>1 DEF ActiveInv, MarkHasReason
  <2>3. d # c \/ t # s BY <2>1, <2>2 DEF p, fd
  <2> QED BY <1>8, <2>2, <2>3
<1>10. BusyIsMarked'
  <2> SUFFICES ASSUME NEW d \in Conns, NEW t \in Sides, Busy(d, t)'
               PROVE  /\ comm[d][t] # NoFd
                      /\ comm[d][t] \in active_fds'[Proc(d, t)] /\ comm[d][t] \notin stale[Proc(d, t)]
                      /\ \E x : Outstanding(d, t)' = {x}
    BY DEF BusyIsMarked
  <2>1. d # c \/ t # s BY <1>8
  <2>2. Busy(d, t) /\ Outstanding(d, t)' = Outstanding(d, t) BY <1>5, <1>8, <2>1
  <2>3. /\ comm[d][t] # NoFd
        /\ comm[d][t] \in active_fds[Proc(d, t)] /\ comm[d][t] \notin stale[Proc(d, t)]
        /\ \E x : Outstanding(d, t) = {x}
    BY <2>2 DEF ActiveInv, BusyIsMarked
  <2>4. Proc(d, t) = p => comm[d][t] # fd BY <2>1, <2>3, CommsDiffer DEF p, fd
  <2>5. Proc(d, t) \in Procs BY ProcType
  <2>6. comm[d][t] \in active_fds'[Proc(d, t)] BY <1>6, <2>3, <2>4, <2>5
  <2> QED BY <2>2, <2>3, <2>6
<1>11. TestStillTrue'
  <2>1. \A q \in Procs : active_fds'[q] \subseteq active_fds[q] BY <1>6
  <2>2. \A d \in Conns : Src[d] \in Procs BY ConnectionAssumption
  <2> QED BY <2>1, <2>2 DEF ActiveInv, TestStillTrue
<1>12. \A q \in Procs : stale[q] \subseteq active_fds'[q] BY <1>2, <1>6 DEF ActiveInv
<1> QED BY <1>7, <1>9, <1>10, <1>11, <1>12 DEF ActiveInv

(* A closed comm leaves its mark behind, if it had one. *)
LEMMA CloseActiveInv ==
  ASSUME ConnInv, ActiveInv, NEW c \in Conns, NEW s \in Sides, Close(c, s)
  PROVE  ActiveInv'
<1> DEFINE p == Proc(c, s)
           fd == comm[c][s]
<1>1. /\ requests' = [requests EXCEPT ![c][s] = NoRequests]
      /\ comm' = [comm EXCEPT ![c][s] = NoFd]
      /\ stale' = [stale EXCEPT ![p] = @ \cup ({fd} \cap active_fds[p])]
      /\ UNCHANGED <<active_fds, isend_pc>>
      /\ fd # NoFd /\ (s = "send" => isend_pc[c] = "idle")
  BY DEF Close, CloseComm, Fd
<1>2. p \in Procs BY ProcType
<1>3. DOMAIN NoRequests = {} BY DEF NoRequests
<1>4. /\ DOMAIN requests' = Conns /\ \A d \in Conns : DOMAIN requests'[d] = Sides
      /\ Outstanding(c, s)' = {}
      /\ \A d \in Conns, t \in Sides : d # c \/ t # s => Outstanding(d, t)' = Outstanding(d, t)
  BY <1>1, <1>3, OneRequests DEF ActiveInv
<1>5. \A d \in Conns, t \in Sides : d # c \/ t # s => comm'[d][t] = comm[d][t]
  BY <1>1 DEF ConnInv, ConnTypes
<1>6. /\ stale'[p] = stale[p] \cup ({fd} \cap active_fds[p])
      /\ \A q \in Procs \ {p} : stale'[q] = stale[q]
  BY <1>1, <1>2 DEF ActiveInv, ActiveTypes
<1>7. ActiveTypes'
  <2>1. active_fds[p] \in SUBSET Fds BY <1>2 DEF ActiveInv, ActiveTypes
  <2>2. stale' \in [Procs -> SUBSET Fds] BY <1>1, <1>2, <2>1 DEF ActiveInv, ActiveTypes
  <2> QED BY <1>1, <1>4, <2>2 DEF ActiveInv, ActiveTypes
<1> HIDE DEF p, fd
<1>8. /\ ~ Busy(c, s)'
      /\ \A d \in Conns, t \in Sides : d # c \/ t # s => Busy(d, t)' = Busy(d, t)
  BY <1>4 DEF Busy
<1>9. MarkHasReason'
  <2> SUFFICES ASSUME NEW q \in Procs, NEW x \in active_fds[q], x \notin stale'[q]
               PROVE  \E d \in Conns, t \in Sides : Proc(d, t) = q /\ comm'[d][t] = x /\ Busy(d, t)'
    BY <1>1 DEF MarkHasReason
  <2>1. x \notin stale[q] /\ ~ (q = p /\ x = fd) BY <1>6
  <2>2. PICK d \in Conns, t \in Sides : Proc(d, t) = q /\ comm[d][t] = x /\ Busy(d, t)
    BY <2>1 DEF ActiveInv, MarkHasReason
  <2>3. d # c \/ t # s BY <2>1, <2>2 DEF p, fd
  <2> QED BY <1>5, <1>8, <2>2, <2>3
<1>10. BusyIsMarked'
  <2> SUFFICES ASSUME NEW d \in Conns, NEW t \in Sides, Busy(d, t)'
               PROVE  /\ comm'[d][t] # NoFd
                      /\ comm'[d][t] \in active_fds[Proc(d, t)] /\ comm'[d][t] \notin stale'[Proc(d, t)]
                      /\ \E x : Outstanding(d, t)' = {x}
    BY <1>1 DEF BusyIsMarked
  <2>1. d # c \/ t # s BY <1>8
  <2>2. /\ Busy(d, t) /\ Outstanding(d, t)' = Outstanding(d, t)
        /\ comm'[d][t] = comm[d][t]
    BY <1>4, <1>5, <1>8, <2>1
  <2>3. /\ comm[d][t] # NoFd
        /\ comm[d][t] \in active_fds[Proc(d, t)] /\ comm[d][t] \notin stale[Proc(d, t)]
        /\ \E x : Outstanding(d, t) = {x}
    BY <2>2 DEF ActiveInv, BusyIsMarked
  <2>4. Proc(d, t) = p => comm[d][t] # fd BY <2>1, <2>3, CommsDiffer DEF p, fd
  <2>5. Proc(d, t) \in Procs BY ProcType
  <2>6. comm[d][t] \notin stale'[Proc(d, t)] BY <1>6, <2>3, <2>4, <2>5
  <2> QED BY <2>2, <2>3, <2>6
<1>11. TestStillTrue'
  <2> SUFFICES ASSUME NEW d \in Conns, isend_pc[d] # "idle"
               PROVE  comm'[d]["send"] \notin active_fds[Src[d]]
    BY <1>1 DEF TestStillTrue
  <2>1. d # c \/ s # "send" BY <1>1
  <2>2. comm'[d]["send"] = comm[d]["send"] BY <1>5, <2>1 DEF Sides
  <2> QED BY <2>2 DEF ActiveInv, TestStillTrue
<1>12. \A q \in Procs : stale'[q] \subseteq active_fds'[q] BY <1>1, <1>6 DEF ActiveInv
<1> QED BY <1>7, <1>9, <1>10, <1>11, <1>12 DEF ActiveInv

(* A killed process has no marks. *)
LEMMA KillActiveInv ==
  ASSUME ConnInv, ActiveInv, NEW p \in Procs, Kill(p)
  PROVE  ActiveInv'
<1>1. /\ active_fds' = [active_fds EXCEPT ![p] = {}] /\ stale' = [stale EXCEPT ![p] = {}]
      /\ requests' = [c \in Conns |-> [side \in Sides |->
                       IF Proc(c, side) = p THEN NoRequests ELSE requests[c][side]]]
      /\ isend_pc' = [c \in Conns |-> IF Src[c] = p THEN "idle" ELSE isend_pc[c]]
      /\ comm' = [c \in Conns |-> [side \in Sides |->
                   IF Proc(c, side) = p THEN NoFd ELSE comm[c][side]]]
  <2>1. SocketsOfKilled(p) /\ RequestsOfKilled(p) BY DEF Kill
  <2>2. \A c \in Conns, side \in Sides :
          side \in {s \in Sides : Proc(c, s) = p} <=> Proc(c, side) = p
    OBVIOUS
  <2> QED BY <2>1, <2>2 DEF SocketsOfKilled, RequestsOfKilled
<1>2. /\ active_fds'[p] = {} /\ stale'[p] = {}
      /\ \A q \in Procs \ {p} : active_fds'[q] = active_fds[q] /\ stale'[q] = stale[q]
  BY <1>1 DEF ActiveInv, ActiveTypes
<1>3. ActiveTypes' BY <1>1 DEF ActiveInv, ActiveTypes
<1>4. ASSUME NEW c \in Conns, NEW s \in Sides
      PROVE  IF Proc(c, s) = p THEN ~ Busy(c, s)'
             ELSE /\ Outstanding(c, s)' = Outstanding(c, s) /\ Busy(c, s)' = Busy(c, s)
                  /\ comm'[c][s] = comm[c][s]
  <2>1. CASE Proc(c, s) = p
    <3>1. requests'[c][s] = NoRequests BY <1>1, <2>1
    <3> QED BY <2>1, <3>1 DEF Busy, Outstanding, NoRequests
  <2>2. CASE Proc(c, s) # p
    <3>1. requests'[c][s] = requests[c][s] /\ comm'[c][s] = comm[c][s] BY <1>1, <2>2
    <3> QED BY <2>2, <3>1 DEF Busy, Outstanding
  <2> QED BY <2>1, <2>2
<1>5. MarkHasReason'
  <2> SUFFICES ASSUME NEW q \in Procs, NEW x \in active_fds'[q], x \notin stale'[q]
               PROVE  \E d \in Conns, t \in Sides : Proc(d, t) = q /\ comm'[d][t] = x /\ Busy(d, t)'
    BY DEF MarkHasReason
  <2>1. q # p /\ x \in active_fds[q] /\ x \notin stale[q] BY <1>2
  <2>2. PICK d \in Conns, t \in Sides : Proc(d, t) = q /\ comm[d][t] = x /\ Busy(d, t)
    BY <2>1 DEF ActiveInv, MarkHasReason
  <2>3. comm'[d][t] = x /\ Busy(d, t)' BY <1>4, <2>1, <2>2
  <2> QED BY <2>2, <2>3
<1>6. BusyIsMarked'
  <2> SUFFICES ASSUME NEW d \in Conns, NEW t \in Sides, Busy(d, t)'
               PROVE  /\ comm'[d][t] # NoFd
                      /\ comm'[d][t] \in active_fds'[Proc(d, t)] /\ comm'[d][t] \notin stale'[Proc(d, t)]
                      /\ \E x : Outstanding(d, t)' = {x}
    BY DEF BusyIsMarked
  <2>1. /\ Proc(d, t) # p /\ Busy(d, t) /\ Outstanding(d, t)' = Outstanding(d, t)
        /\ comm'[d][t] = comm[d][t]
    BY <1>4
  <2>2. /\ comm[d][t] # NoFd
        /\ comm[d][t] \in active_fds[Proc(d, t)] /\ comm[d][t] \notin stale[Proc(d, t)]
        /\ \E x : Outstanding(d, t) = {x}
    BY <2>1 DEF ActiveInv, BusyIsMarked
  <2>3. Proc(d, t) \in Procs BY ProcType
  <2> QED BY <1>2, <2>1, <2>2, <2>3
<1>7. TestStillTrue'
  <2> SUFFICES ASSUME NEW d \in Conns, isend_pc'[d] # "idle"
               PROVE  comm'[d]["send"] \notin active_fds'[Src[d]]
    BY DEF TestStillTrue
  <2>1. Src[d] # p /\ isend_pc[d] # "idle" BY <1>1
  <2>2. Proc(d, "send") = Src[d] /\ "send" \in Sides /\ Src[d] \in Procs
    BY ConnectionAssumption DEF Proc, Sides
  <2>3. comm'[d]["send"] = comm[d]["send"] /\ active_fds'[Src[d]] = active_fds[Src[d]]
    BY <1>2, <1>4, <2>1, <2>2
  <2> QED BY <2>1, <2>3 DEF ActiveInv, TestStillTrue
<1>8. \A q \in Procs : stale'[q] \subseteq active_fds'[q] BY <1>2 DEF ActiveInv
<1> QED BY <1>3, <1>5, <1>6, <1>7, <1>8 DEF ActiveInv

(* isend, irecv, test and the close calls keep the marks right. *)
LEMMA TransferringActiveInv ==
  ASSUME ConnInv, ActiveInv, NEW c \in Conns, Transferring(c)
  PROVE  ActiveInv'
<1>1. isend_pc \in [Conns -> {"idle", "dump", "bytes", "size", "process"}]
  BY DEF ConnInv, ConnTypes
<1>2. "send" \in Sides /\ "recv" \in Sides /\ Proc(c, "send") = Src[c] /\ Proc(c, "recv") = Dst[c]
  BY DEF Sides, Proc
<1>3. CASE ISendTake(c)
  <2>1. /\ UNCHANGED <<active_fds, stale, requests, comm>>
        /\ isend_pc' = [isend_pc EXCEPT ![c] = "dump"]
        /\ comm[c]["send"] \notin active_fds[Src[c]]
    BY <1>2, <1>3 DEF ISendTake, NotActive, Fd
  <2> QED BY <1>1, <2>1, ISendPcActiveInv
<1>4. CASE DumpLock(c) \/ DumpBytes(c) \/ DumpSize(c) \/ DumpFails(c) \/ ISendFails(c)
  <2>1. /\ UNCHANGED <<active_fds, stale, requests, comm>>
        /\ \E x : isend_pc' = [isend_pc EXCEPT ![c] = x]
        /\ isend_pc[c] # "idle"
    BY <1>4 DEF DumpLock, DumpBytes, DumpSize, DumpFails, ISendFails
  <2> QED BY <1>1, <2>1, ISendPcActiveInv
<1>5. CASE ISendProcess(c)
  <2>1. PICK n \in Moves : SetRequest(c, "send", TakenSlot(c, "send"), n)
    BY <1>5 DEF ISendProcess
  <2>2. /\ active_fds' = [active_fds EXCEPT ![Proc(c, "send")] = @ \cup {comm[c]["send"]}]
        /\ isend_pc' = [isend_pc EXCEPT ![c] = "idle"]
        /\ UNCHANGED <<comm, stale>> /\ isend_pc[c] # "idle"
    BY <1>2, <1>5 DEF ISendProcess, Fd
  <2>3. comm[c]["send"] # NoFd /\ comm[c]["send"] \notin active_fds[Proc(c, "send")]
    BY <1>2, <2>2 DEF ConnInv, ConnLinks, ActiveInv, TestStillTrue
  <2>4. \A d \in Conns : isend_pc'[d] # "idle" => isend_pc[d] # "idle" /\ d # c
    BY <1>1, <2>2
  <2> QED BY <1>2, <2>1, <2>2, <2>3, <2>4, MarkActiveInv
<1>6. CASE IRecv(c)
  <2>1. PICK n \in Moves : SetRequest(c, "recv", take_req_ind[c]["recv"], n)
    BY <1>6 DEF IRecv
  <2>2. /\ active_fds' = [active_fds EXCEPT ![Proc(c, "recv")] = @ \cup {comm[c]["recv"]}]
        /\ UNCHANGED <<comm, stale, isend_pc>>
        /\ comm[c]["recv"] # NoFd /\ comm[c]["recv"] \notin active_fds[Proc(c, "recv")]
    BY <1>2, <1>6 DEF IRecv, Fd, CanPost, NotActive
  <2> QED BY <1>2, <2>1, <2>2, MarkActiveInv
<1>7. CASE IRecvFails(c)
  BY <1>7, ISendPcActiveInv DEF IRecvFails
<1>8. ASSUME NEW s \in Sides, Test(c, s) PROVE ActiveInv'
  <2>1. UNCHANGED <<comm, stale, isend_pc>> BY <1>8 DEF Test
  <2>2. PICK slot \in Outstanding(c, s), n \in Moves :
          IF requests[c][s][slot] + n = MsgParts
          THEN /\ requests' = [requests EXCEPT ![c][s] = [x \in DOMAIN @ \ {slot} |-> @[x]]]
               /\ active_fds' = [active_fds EXCEPT ![Proc(c, s)] = @ \ {comm[c][s]}]
          ELSE SetRequest(c, s, slot, requests[c][s][slot] + n) /\ UNCHANGED active_fds
    BY <1>8, Zenon DEF Test, Fd
  <2>3. CASE requests[c][s][slot] + n = MsgParts
    <3> DEFINE r == [x \in Outstanding(c, s) \ {slot} |-> requests[c][s][x]]
    <3>1. DOMAIN r = Outstanding(c, s) \ {slot} OBVIOUS
    <3>2. requests' = [requests EXCEPT ![c][s] = r]
      BY <2>2, <2>3 DEF Outstanding, ActiveInv, ActiveTypes
    <3>3. active_fds' = [active_fds EXCEPT ![Proc(c, s)] = @ \ {comm[c][s]}] BY <2>2, <2>3
    <3> HIDE DEF r
    <3> QED BY <2>1, <3>1, <3>2, <3>3, CompleteActiveInv
  <2>4. CASE requests[c][s][slot] + n # MsgParts
    BY <2>1, <2>2, <2>4, ProgressActiveInv
  <2> QED BY <2>3, <2>4
<1>9. ASSUME NEW s \in Sides, Close(c, s) PROVE ActiveInv' BY <1>9, CloseActiveInv
<1> QED BY <1>3, <1>4, <1>5, <1>6, <1>7, <1>8, <1>9 DEF Transferring, ISend, RequestFails

(* Every step of the plugin keeps the marks right. *)
LEMMA NextActiveInv == ASSUME ConnInv, ActiveInv, [Next]_vars PROVE ActiveInv'
<1>1. ASSUME NEW p \in Procs, Starting(p) PROVE ActiveInv'
  BY <1>1, CommsMadeActiveInv DEF Starting
<1>2. ASSUME NEW p \in Procs, Kill(p) PROVE ActiveInv' BY <1>2, KillActiveInv
<1>3. ASSUME NEW c \in Conns, Listening(c) PROVE ActiveInv'
  <2>1. UNCHANGED <<active_fds, stale, requests, isend_pc, comm>>
    BY <1>3 DEF Listening, Listen, RequestsAtListen
  <2> QED BY <2>1, CommsMadeActiveInv
<1>4. ASSUME NEW c \in Conns, Connecting(c) PROVE ActiveInv'
  <2>1. UNCHANGED <<active_fds, stale, requests, isend_pc>> BY <1>4 DEF Connecting
  <2>2. \/ UNCHANGED comm
        \/ \E s \in Sides : \E x : /\ comm[c][s] = NoFd
                                   /\ comm' = [comm EXCEPT ![c][s] = x]
    <3>1. CASE ConnectReady(c) BY <3>1 DEF ConnectReady, CanConnect, Sides
    <3>2. CASE AcceptReady(c) BY <3>2 DEF AcceptReady, CanAccept, Sides
    <3> QED BY <1>4, <3>1, <3>2 DEF Connecting, Establish, EstablishFails, ConnectStart, Handshake,
         ConnectPoll, AcceptConnection, CloseListen, ConnectFails, ListenFails, ConnectStartFails
  <2>3. \A d \in Conns, t \in Sides : comm[d][t] # NoFd => comm'[d][t] = comm[d][t]
    <3>1. CASE UNCHANGED comm BY <3>1
    <3>2. ASSUME NEW s \in Sides, NEW x, comm[c][s] = NoFd, comm' = [comm EXCEPT ![c][s] = x]
          PROVE  \A d \in Conns, t \in Sides : comm[d][t] # NoFd => comm'[d][t] = comm[d][t]
      BY <3>2 DEF ConnInv, ConnTypes
    <3> QED BY <2>2, <3>1, <3>2
  <2> QED BY <2>1, <2>3, CommsMadeActiveInv
<1>5. ASSUME NEW c \in Conns, Transferring(c) PROVE ActiveInv' BY <1>5, TransferringActiveInv
<1>6. CASE UNCHANGED vars
  <2>1. UNCHANGED <<active_fds, stale, requests, isend_pc, comm>> BY <1>6 DEF vars
  <2> QED BY <2>1, CommsMadeActiveInv
<1> QED BY <1>1, <1>2, <1>3, <1>4, <1>5, <1>6, NextCases DEF ConnStep

(* The marks in active_fds have their reasons in every reachable state.    *)
LEMMA ActiveInvariant == Spec => []ActiveInv
<1>1. Init => ActiveInv
  <2> SUFFICES ASSUME Init PROVE ActiveInv OBVIOUS
  <2> USE DEF Init, InitRequests
  <2>1. \A c \in Conns, s \in Sides : requests[c][s] = NoRequests BY DEF PerSide
  <2>2. \A c \in Conns, s \in Sides : Outstanding(c, s) = {} BY <2>1 DEF Outstanding, NoRequests
  <2>3. ActiveTypes BY DEF ActiveTypes, PerSide
  <2> QED BY <2>2, <2>3 DEF ActiveInv, MarkHasReason, BusyIsMarked, TestStillTrue, Busy
<1>2. ConnInv /\ ActiveInv /\ [Next]_vars => ActiveInv' BY NextActiveInv
<1> QED BY <1>1, <1>2, ConnectionInvariant, PTL DEF Spec

(* active_fds marks a descriptor exactly when the comm that has it has a   *)
(* request under way, and then only one, although isend tests the mark     *)
(* long before it sets it and the table is shared by all threads; the only *)
(* wrong marks are those of comms closed with a request under way.         *)
THEOREM MarksAreExact == Spec => []ActiveExact
<1>1. ConnInv /\ ActiveInv => ActiveExact
  <2> SUFFICES ASSUME ConnInv, ActiveInv, NEW c \in Conns, NEW s \in Sides,
                      comm[c][s] # NoFd, comm[c][s] \notin stale[Proc(c, s)]
               PROVE  /\ comm[c][s] \in active_fds[Proc(c, s)] <=> Busy(c, s)
                      /\ Cardinality(Outstanding(c, s)) <= 1
    BY DEF ActiveExact, Busy
  <2>1. Busy(c, s) => comm[c][s] \in active_fds[Proc(c, s)] BY DEF ActiveInv, BusyIsMarked
  <2>2. ASSUME comm[c][s] \in active_fds[Proc(c, s)] PROVE Busy(c, s)
    <3>1. PICK d \in Conns, t \in Sides :
            Proc(d, t) = Proc(c, s) /\ comm[d][t] = comm[c][s] /\ Busy(d, t)
      BY <2>2, ProcType DEF ActiveInv, MarkHasReason
    <3>2. d = c /\ t = s BY <3>1, CommsDiffer
    <3> QED BY <3>1, <3>2
  <2>3. Cardinality(Outstanding(c, s)) <= 1
    <3>1. CASE Outstanding(c, s) = {} BY <3>1, FS_EmptySet
    <3>2. CASE Outstanding(c, s) # {}
      <4>1. PICK x : Outstanding(c, s) = {x} BY <3>2 DEF ActiveInv, BusyIsMarked, Busy
      <4>2. Cardinality({x}) = 1 BY FS_Singleton
      <4> QED BY <4>1, <4>2
    <3> QED BY <3>1, <3>2
  <2> QED BY <2>1, <2>2, <2>3
<1> QED BY <1>1, ActiveInvariant, ConnectionInvariant, PTL


-----------------------------------------------------------------------------
(* Types.                                                                  *)

(* Slots of requests are in the ring, and no request has moved more parts  *)
(* than there are.                                                         *)
RingTypes ==
  /\ DOMAIN requests = Conns /\ \A c \in Conns : DOMAIN requests[c] = Sides
  /\ \A c \in Conns, s \in Sides :
       /\ DOMAIN requests[c][s] \subseteq Slots
       /\ \A slot \in DOMAIN requests[c][s] : requests[c][s][slot] \in Moves
  /\ take_req_ind \in [Conns -> [Sides -> Slots]]
  /\ posted \in [Conns -> [Sides -> 0 .. MaxMsgs]]

(* The index of the ring stays in it. *)
LEMMA SlotFacts ==
  /\ 0 \in Slots
  /\ \A k \in Slots : (k + 1) % MaxRequests \in Slots
                      /\ (k + MaxRequests - 1) % MaxRequests \in Slots
<1>1. MaxRequests \in Nat \ {0} BY RequestsAssumption
<1>2. \A a \in Nat : a % MaxRequests \in 0 .. MaxRequests - 1 BY <1>1, SMT
<1>3. ASSUME NEW k \in Slots
      PROVE  k + 1 \in Nat /\ k + MaxRequests - 1 \in Nat
  BY <1>1 DEF Slots
<1> QED BY <1>1, <1>2, <1>3 DEF Slots

(* The requests of one comm are replaced. *)
LEMMA OneRing ==
  ASSUME RingTypes, NEW c \in Conns, NEW s \in Sides, NEW r,
         DOMAIN r \subseteq Slots, \A slot \in DOMAIN r : r[slot] \in Moves,
         requests' = [requests EXCEPT ![c][s] = r]
  PROVE  /\ DOMAIN requests' = Conns /\ \A d \in Conns : DOMAIN requests'[d] = Sides
         /\ \A d \in Conns, t \in Sides :
              /\ DOMAIN requests'[d][t] \subseteq Slots
              /\ \A slot \in DOMAIN requests'[d][t] : requests'[d][t][slot] \in Moves
<1>1. DOMAIN requests' = Conns BY DEF RingTypes
<1>2. requests'[c] = [requests[c] EXCEPT ![s] = r] BY DEF RingTypes
<1>3. \A d \in Conns \ {c} : requests'[d] = requests[d] BY DEF RingTypes
<1>4. \A d \in Conns : DOMAIN requests'[d] = Sides BY <1>2, <1>3 DEF RingTypes
<1>5. requests'[c][s] = r BY <1>2 DEF RingTypes
<1>6. \A t \in Sides \ {s} : requests'[c][t] = requests[c][t] BY <1>2 DEF RingTypes
<1>7. \A d \in Conns, t \in Sides : requests'[d][t] = r \/ requests'[d][t] = requests[d][t]
  BY <1>3, <1>5, <1>6
<1>8. ASSUME NEW d \in Conns, NEW t \in Sides
      PROVE  /\ DOMAIN requests'[d][t] \subseteq Slots
             /\ \A slot \in DOMAIN requests'[d][t] : requests'[d][t][slot] \in Moves
  <2>1. CASE requests'[d][t] = r BY <2>1
  <2>2. CASE requests'[d][t] = requests[d][t] BY <2>2 DEF RingTypes
  <2> QED BY <1>7, <2>1, <2>2
<1> QED BY <1>1, <1>4, <1>8

(* A slot of a ring is filled or emptied, and the others stay.             *)
LEMMA SetRequestRing ==
  ASSUME RingTypes, NEW c \in Conns, NEW s \in Sides, NEW slot \in Slots, NEW moved \in Moves,
         SetRequest(c, s, slot, moved)
  PROVE  /\ DOMAIN requests' = Conns /\ \A d \in Conns : DOMAIN requests'[d] = Sides
         /\ \A d \in Conns, t \in Sides :
              /\ DOMAIN requests'[d][t] \subseteq Slots
              /\ \A x \in DOMAIN requests'[d][t] : requests'[d][t][x] \in Moves
<1> DEFINE r == [x \in DOMAIN requests[c][s] \cup {slot} |->
                  IF x = slot THEN moved ELSE requests[c][s][x]]
<1>1. requests' = [requests EXCEPT ![c][s] = r] BY DEF SetRequest, RingTypes
<1>2. DOMAIN r \subseteq Slots /\ \A x \in DOMAIN r : r[x] \in Moves BY DEF RingTypes
<1> HIDE DEF r
<1> QED BY <1>1, <1>2, OneRing

(* A request is taken from the ring. *)
LEMMA TakeSlotRing ==
  ASSUME RingTypes, NEW c \in Conns, NEW s \in Sides, CanPost(c, s), TakeSlot(c, s)
  PROVE  /\ take_req_ind' \in [Conns -> [Sides -> Slots]]
         /\ posted' \in [Conns -> [Sides -> 0 .. MaxMsgs]]
<1>1. take_req_ind[c][s] \in Slots /\ posted[c][s] \in 0 .. MaxMsgs /\ posted[c][s] < MaxMsgs
  BY DEF RingTypes, CanPost
<1>2. (take_req_ind[c][s] + 1) % MaxRequests \in Slots BY <1>1, SlotFacts
<1>3. posted[c][s] + 1 \in 0 .. MaxMsgs BY <1>1, RequestsAssumption
<1>4. /\ posted' = [posted EXCEPT ![c][s] = posted[c][s] + 1]
      /\ take_req_ind' = [take_req_ind EXCEPT ![c][s] = (take_req_ind[c][s] + 1) % MaxRequests]
  BY DEF TakeSlot, RingTypes
<1>5. PICK n \in 0 .. MaxMsgs : n = posted[c][s] + 1 BY <1>3
<1>6. PICK k \in Slots : k = (take_req_ind[c][s] + 1) % MaxRequests BY <1>2
<1>7. /\ posted' = [posted EXCEPT ![c][s] = n]
      /\ take_req_ind' = [take_req_ind EXCEPT ![c][s] = k]
  BY <1>4, <1>5, <1>6
<1> QED BY <1>7 DEF RingTypes

(* isend, irecv, test and close keep the rings of requests well typed.     *)
LEMMA TransferringRing ==
  ASSUME RingTypes, NEW c \in Conns, Transferring(c)
  PROVE  RingTypes'
<1>1. "send" \in Sides /\ "recv" \in Sides BY DEF Sides
<1>2. CASE ISendTake(c)
  <2>1. CanPost(c, "send") /\ TakeSlot(c, "send") /\ requests' = requests
    BY <1>2 DEF ISendTake
  <2>2. take_req_ind' \in [Conns -> [Sides -> Slots]]
        /\ posted' \in [Conns -> [Sides -> 0 .. MaxMsgs]]
    BY <1>1, <2>1, TakeSlotRing
  <2> QED BY <2>1, <2>2 DEF RingTypes
<1>3. CASE DumpLock(c) \/ DumpBytes(c) \/ DumpSize(c) \/ DumpFails(c) \/ ISendFails(c)
  <2>1. UNCHANGED <<requests, take_req_ind, posted>>
    BY <1>3 DEF DumpLock, DumpBytes, DumpSize, DumpFails, ISendFails
  <2> QED BY <2>1 DEF RingTypes
<1>4. CASE ISendProcess(c)
  <2>1. PICK n \in Moves : SetRequest(c, "send", TakenSlot(c, "send"), n)
    BY <1>4 DEF ISendProcess
  <2>2. TakenSlot(c, "send") \in Slots
    <3>1. take_req_ind[c]["send"] \in Slots BY <1>1 DEF RingTypes
    <3> QED BY <3>1, SlotFacts DEF TakenSlot
  <2>3. UNCHANGED <<take_req_ind, posted>> BY <1>4 DEF ISendProcess
  <2> QED BY <1>1, <2>1, <2>2, <2>3, SetRequestRing DEF RingTypes
<1>5. CASE IRecv(c)
  <2>1. PICK n \in Moves : SetRequest(c, "recv", take_req_ind[c]["recv"], n)
    BY <1>5 DEF IRecv
  <2>2. CanPost(c, "recv") /\ TakeSlot(c, "recv") BY <1>5 DEF IRecv
  <2>3. take_req_ind[c]["recv"] \in Slots BY <1>1 DEF RingTypes
  <2>4. take_req_ind' \in [Conns -> [Sides -> Slots]]
        /\ posted' \in [Conns -> [Sides -> 0 .. MaxMsgs]]
    BY <1>1, <2>2, TakeSlotRing
  <2> QED BY <1>1, <2>1, <2>3, <2>4, SetRequestRing DEF RingTypes
<1>6. CASE IRecvFails(c)
  <2>1. CanPost(c, "recv") /\ TakeSlot(c, "recv") /\ requests' = requests
    BY <1>6 DEF IRecvFails
  <2>2. take_req_ind' \in [Conns -> [Sides -> Slots]]
        /\ posted' \in [Conns -> [Sides -> 0 .. MaxMsgs]]
    BY <1>1, <2>1, TakeSlotRing
  <2> QED BY <2>1, <2>2 DEF RingTypes
<1>7. ASSUME NEW s \in Sides, Test(c, s) PROVE RingTypes'
  <2>1. UNCHANGED <<take_req_ind, posted>> BY <1>7 DEF Test
  <2>2. PICK slot \in Outstanding(c, s), n \in Moves :
          /\ requests[c][s][slot] + n <= MsgParts
          /\ IF requests[c][s][slot] + n = MsgParts
             THEN requests' = [requests EXCEPT ![c][s] = [x \in DOMAIN @ \ {slot} |-> @[x]]]
             ELSE SetRequest(c, s, slot, requests[c][s][slot] + n)
    BY <1>7, Zenon DEF Test
  <2>3. slot \in Slots /\ requests[c][s][slot] \in Moves /\ slot \in DOMAIN requests[c][s]
    BY DEF Outstanding, RingTypes
  <2>4. CASE requests[c][s][slot] + n = MsgParts
    <3> DEFINE r == [x \in DOMAIN requests[c][s] \ {slot} |-> requests[c][s][x]]
    <3>1. DOMAIN r \subseteq Slots /\ \A x \in DOMAIN r : r[x] \in Moves BY DEF RingTypes
    <3>2. requests' = [requests EXCEPT ![c][s] = r] BY <2>2, <2>4 DEF RingTypes
    <3> HIDE DEF r
    <3> QED BY <2>1, <3>1, <3>2, OneRing DEF RingTypes
  <2>5. CASE requests[c][s][slot] + n # MsgParts
    <3>1. requests[c][s][slot] + n \in Moves BY <2>2, <2>3, RequestsAssumption DEF Moves
    <3>2. SetRequest(c, s, slot, requests[c][s][slot] + n) BY <2>2, <2>5
    <3>3. PICK moved \in Moves : moved = requests[c][s][slot] + n BY <3>1
    <3>4. SetRequest(c, s, slot, moved) BY <3>2, <3>3
    <3> QED BY <2>1, <2>3, <3>4, SetRequestRing DEF RingTypes
  <2> QED BY <2>4, <2>5
<1>8. ASSUME NEW s \in Sides, Close(c, s) PROVE RingTypes'
  <2>1. /\ requests' = [requests EXCEPT ![c][s] = NoRequests]
        /\ take_req_ind' = [take_req_ind EXCEPT ![c][s] = 0]
        /\ posted' = [posted EXCEPT ![c][s] = 0]
    BY <1>8 DEF Close
  <2>2. DOMAIN NoRequests \subseteq Slots
        /\ \A x \in DOMAIN NoRequests : NoRequests[x] \in Moves
    BY DEF NoRequests
  <2>3. take_req_ind' \in [Conns -> [Sides -> Slots]]
    <3>1. 0 \in Slots BY SlotFacts
    <3> QED BY <2>1, <3>1 DEF RingTypes
  <2>4. posted' \in [Conns -> [Sides -> 0 .. MaxMsgs]]
    <3>1. 0 \in 0 .. MaxMsgs BY RequestsAssumption
    <3> QED BY <2>1, <3>1 DEF RingTypes
  <2> QED BY <2>1, <2>2, <2>3, <2>4, OneRing DEF RingTypes
<1> QED BY <1>2, <1>3, <1>4, <1>5, <1>6, <1>7, <1>8 DEF Transferring, ISend, RequestFails

(* So does every step: the rings of a killed process are emptied, the      *)
(* others stay.                                                            *)
LEMMA NextRing == ASSUME RingTypes, [Next]_vars PROVE RingTypes'
<1>1. ASSUME NEW p \in Procs, Kill(p) PROVE RingTypes'
  <2>1. RequestsOfKilled(p) BY <1>1 DEF Kill
  <2>2. /\ requests' = [c \in Conns |-> [s \in Sides |->
                          IF Proc(c, s) = p THEN NoRequests ELSE requests[c][s]]]
        /\ take_req_ind' = [c \in Conns |-> [s \in Sides |->
                              IF Proc(c, s) = p THEN 0 ELSE take_req_ind[c][s]]]
        /\ posted' = [c \in Conns |-> [s \in Sides |->
                        IF Proc(c, s) = p THEN 0 ELSE posted[c][s]]]
    BY <2>1 DEF RequestsOfKilled
  <2>3. DOMAIN NoRequests = {} BY DEF NoRequests
  <2>4. 0 \in Slots /\ 0 \in 0 .. MaxMsgs BY SlotFacts, RequestsAssumption
  <2> QED BY <2>2, <2>3, <2>4 DEF RingTypes
<1>2. ASSUME UNCHANGED <<requests, take_req_ind, posted>> PROVE RingTypes' BY <1>2 DEF RingTypes
<1>3. ASSUME NEW p \in Procs, Starting(p) PROVE RingTypes' BY <1>2, <1>3 DEF Starting
<1>4. ASSUME NEW c \in Conns, Listening(c) \/ Connecting(c) PROVE RingTypes'
  BY <1>2, <1>4 DEF Listening, Connecting, RequestsAtListen
<1>5. CASE UNCHANGED vars BY <1>2, <1>5 DEF vars
<1> QED BY <1>1, <1>3, <1>4, <1>5, TransferringRing, NextCases DEF ConnStep

(* The rings of requests keep their types.                                 *)
LEMMA RingInvariant == Spec => []RingTypes
<1>1. Init => RingTypes
  <2>1. DOMAIN NoRequests = {} BY DEF NoRequests
  <2>2. 0 \in Slots /\ 0 \in 0 .. MaxMsgs BY SlotFacts, RequestsAssumption
  <2> QED BY <2>1, <2>2 DEF Init, InitRequests, PerSide, RingTypes
<1>2. RingTypes /\ [Next]_vars => RingTypes' BY NextRing
<1> QED BY <1>1, <1>2, PTL DEF Spec

(* netDedup_init stores what the type says, in every process.              *)
LEMMA NextInitTypes == ASSUME InitTypeOK, [Next]_vars PROVE InitTypeOK'
<1> USE DEF InitTypeOK
<1>1. ASSUME faults' = faults \/ Fault PROVE faults' \in 0 .. MaxFaults
  BY <1>1, InitAssumption DEF Fault
<1>2. ASSUME NEW p \in Procs, Starting(p) PROVE InitTypeOK'
  <2>1. PICK stage \in InitStages : Become(p, stage)
    BY <1>2 DEF Starting, InitNext, InitStep, KilledDuringInit, InitNetSocketDevs, ShmCreate,
       ShmExists, ShmAttach, ShmSize, InitFingerprintCache, ReadEnvironment, Creating, InitStages
  <2>2. init_pc' \in [Procs -> InitStages] BY <2>1 DEF Become
  <2>3. interfaces' = interfaces /\ (faults' = faults \/ Fault)
    BY <1>2, Zenon DEF Starting, InitNext, InitStep, KilledDuringInit, InitNetSocketDevs, ShmCreate,
       ShmExists, ShmAttach, ShmSize, InitFingerprintCache, ReadEnvironment
  <2>4. shm' \in {"absent", "empty", "sized"}
    BY <1>2 DEF Starting, InitNext, InitStep, KilledDuringInit, InitNetSocketDevs, ShmCreate,
       ShmExists, ShmAttach, ShmSize, InitFingerprintCache, ReadEnvironment
  <2>5. cache_parts' \subseteq Parts
    BY <1>2, Zenon DEF Starting, InitNext, InitStep, KilledDuringInit, InitNetSocketDevs, ShmCreate,
       ShmExists, ShmAttach, ShmSize, InitFingerprintCache, ReadEnvironment
  <2> QED BY <1>1, <2>2, <2>3, <2>4, <2>5
<1>3. ASSUME NEW p \in Procs, Kill(p) PROVE InitTypeOK'
  <2>1. init_pc' \in [Procs -> InitStages] BY <1>3 DEF Kill, Become, InitStages
  <2> QED BY <1>1, <1>3, <2>1 DEF Kill
<1>4. ASSUME UNCHANGED initVars, faults' = faults \/ Fault PROVE InitTypeOK' BY <1>1, <1>4
<1>5. ASSUME NEW c \in Conns, ConnStep(c) PROVE UNCHANGED initVars /\ (faults' = faults \/ Fault)
  <2>1. UNCHANGED initVars BY <1>5 DEF ConnStep, Listening, Connecting, Transferring
  <2>2. CASE Listening(c) \/ Connecting(c)
    BY <2>1, <2>2, Zenon DEF Listening, Connecting, Establish, EstablishFails, Listen, ListenFails,
       ConnectStart, ConnectStartFails, Handshake, ConnectPoll, ConnectReady, ConnectFails,
       AcceptConnection, AcceptReady, CloseListen
  <2>3. CASE Transferring(c)
    BY <2>1, <2>3, Zenon DEF Transferring, ISend, IRecv, RequestFails, Test, Close, ISendTake,
       DumpLock, DumpBytes, DumpSize, ISendProcess, DumpFails, ISendFails, IRecvFails
  <2> QED BY <1>5, <2>2, <2>3 DEF ConnStep
<1>6. CASE UNCHANGED vars BY <1>4, <1>6 DEF vars
<1> QED BY <1>2, <1>3, <1>4, <1>5, <1>6, NextCases

(* The data of every process, connection and request stay in their ranges: *)
(* descriptors below the limit, slots within the ring of                   *)
(* NCCL_NET_MAX_REQUESTS, no more parts moved than a message has.          *)
THEOREM TypeCorrect == Spec => []TypeOK
<1>1. Init => InitTypeOK
  BY InitAssumption DEF Init, InitInit, InitTypeOK, InitStages
<1>2. InitTypeOK /\ [Next]_vars => InitTypeOK' BY NextInitTypes
<1>3. InitTypeOK /\ ConnInv /\ EstablishedInv /\ ActiveInv /\ RingTypes /\ DumpInv => TypeOK
  <2> SUFFICES ASSUME InitTypeOK, ConnInv, EstablishedInv, ActiveInv, RingTypes, DumpInv
               PROVE  TypeOK
    OBVIOUS
  <2>1. ConnTypeOK
    BY DEF ConnInv, ConnTypes, MaybeFd, EstablishedInv, ConnTypeOK
  <2>2. \A c \in Conns, side \in Sides :
          /\ Outstanding(c, side) \subseteq Slots
          /\ \A slot \in Outstanding(c, side) : requests[c][side][slot] \in Moves
    BY DEF RingTypes, Outstanding
  <2>3. ReqTypeOK
    BY <2>2 DEF ConnInv, ConnTypes, ActiveInv, ActiveTypes, RingTypes, DumpInv, ReqTypeOK
  <2> QED BY <2>1, <2>3 DEF TypeOK
<1> QED BY <1>1, <1>2, <1>3, ConnectionInvariant, EstablishedInvariant, ActiveInvariant,
           RingInvariant, DumpInvariant, PTL DEF Spec

-----------------------------------------------------------------------------
(* The stream.                                                             *)

(* What follows a part of a message, or the ready byte. *)
LEMMA PartFacts ==
  /\ \A k \in Moves : PartAfter(k) \in Moves
  /\ \A k \in Moves : k < MsgParts => PartAfter(k) = k + 1
  /\ PartAfter(0) = 1 /\ PartAfter(MsgParts) = 1
  /\ 0 \in Moves /\ MsgParts \in Moves
<1>1. MsgParts \in Nat \ {0} BY RequestsAssumption
<1>2. \A a \in Nat : a % MsgParts \in 0 .. MsgParts - 1 BY <1>1, SMT
<1>3. \A a \in Nat : a < MsgParts => a % MsgParts = a BY <1>1, SMT
<1>4. MsgParts % MsgParts = 0 BY <1>1, SMT
<1>5. 0 % MsgParts = 0 BY <1>1, <1>3
<1> QED BY <1>1, <1>2, <1>3, <1>4, <1>5 DEF PartAfter, Moves

(* w is a stream that begins with x and goes on with y. *)
TokenAt(w, y, k) == IF k \in 1 .. Len(w) THEN w[k] ELSE y

Chain(w, x, y) ==
  /\ w \in Seq(Moves) /\ x \in Moves /\ y \in Moves
  /\ TokenAt(w, y, 1) = x
  /\ \A k \in 1 .. Len(w) : TokenAt(w, y, k + 1) = PartAfter(w[k])

(* Nothing under way: the receiver expects what the sender sends next.     *)
LEMMA ChainEmpty == ASSUME NEW x \in Moves PROVE Chain(<<>>, x, x)
BY DEF Chain, TokenAt

(* The sender goes on by one. *)
LEMMA ChainAppend ==
  ASSUME NEW w, NEW x, NEW y, Chain(w, x, y)
  PROVE  Chain(Append(w, y), x, PartAfter(y))
<1> DEFINE v == Append(w, y)
<1>1. w \in Seq(Moves) /\ x \in Moves /\ y \in Moves /\ Len(w) \in Nat BY DEF Chain
<1>2. PartAfter(y) \in Moves BY <1>1, PartFacts
<1>3. /\ v \in Seq(Moves) /\ Len(v) = Len(w) + 1 /\ v[Len(w) + 1] = y
      /\ \A k \in 1 .. Len(w) : v[k] = w[k]
  BY <1>1, AppendProperties
<1> HIDE DEF v
<1>4. \A k \in 1 .. Len(w) + 1 : v[k] = TokenAt(w, y, k) BY <1>1, <1>3 DEF TokenAt
<1>5. TokenAt(v, PartAfter(y), 1) = x
  <2>1. 1 \in 1 .. Len(w) + 1 BY <1>1
  <2> QED BY <1>3, <1>4, <2>1 DEF Chain, TokenAt
<1>6. ASSUME NEW k \in 1 .. Len(v) PROVE TokenAt(v, PartAfter(y), k + 1) = PartAfter(v[k])
  <2>1. CASE k = Len(w) + 1
    <3>1. k + 1 \notin 1 .. Len(v) BY <1>1, <1>3, <2>1
    <3> QED BY <1>3, <2>1, <3>1 DEF TokenAt
  <2>2. CASE k # Len(w) + 1
    <3>1. k \in 1 .. Len(w) /\ k + 1 \in 1 .. Len(w) + 1 BY <1>1, <1>3, <2>2
    <3>2. TokenAt(v, PartAfter(y), k + 1) = v[k + 1] BY <1>3, <3>1 DEF TokenAt
    <3>3. v[k + 1] = TokenAt(w, y, k + 1) BY <1>4, <3>1
    <3> QED BY <1>3, <3>1, <3>2, <3>3 DEF Chain
  <2> QED BY <2>1, <2>2
<1>7. Chain(v, x, PartAfter(y)) BY <1>1, <1>2, <1>3, <1>5, <1>6 DEF Chain
<1> QED BY <1>7 DEF v

(* The sender goes on by some parts of one message. *)
LEMMA ChainSend ==
  ASSUME NEW w, NEW x, NEW y, Chain(w, x, y), NEW done \in Moves, NEW n \in Moves,
         done + n <= MsgParts, y = PartAfter(done)
  PROVE  Chain(w \o [k \in 1 .. n |-> done + k], x, PartAfter(done + n))
<1> DEFINE s == [k \in 1 .. n |-> done + k]
           v == w \o s
           z == PartAfter(done + n)
<1>1. w \in Seq(Moves) /\ x \in Moves /\ y \in Moves /\ Len(w) \in Nat BY DEF Chain
<1>2. n \in Nat /\ done \in Nat /\ MsgParts \in Nat /\ done + n \in Moves
  BY RequestsAssumption DEF Moves
<1>3. s \in Seq(Moves) /\ Len(s) = n /\ \A k \in 1 .. n : s[k] = done + k
  BY <1>2 DEF Moves
<1> HIDE DEF s
<1>4. /\ v \in Seq(Moves) /\ Len(v) = Len(w) + n
      /\ \A k \in 1 .. Len(w) : v[k] = w[k]
      /\ \A k \in 1 .. n : v[Len(w) + k] = done + k
  BY <1>1, <1>3
<1> HIDE DEF v
<1>5. n # 0 => y = done + 1
  <2> SUFFICES ASSUME n # 0 PROVE y = done + 1 OBVIOUS
  <2>1. done < MsgParts BY <1>2
  <2> QED BY <2>1, PartFacts
<1>6. z \in Moves BY <1>2, PartFacts
<1>7. n = 0 => z = y BY <1>2
<1>8. \A k \in 1 .. n : PartAfter(done + k) = IF k = n THEN z ELSE done + (k + 1)
  <2> SUFFICES ASSUME NEW k \in 1 .. n, k # n PROVE PartAfter(done + k) = done + (k + 1)
    OBVIOUS
  <2>1. PICK j \in Moves : j = done + k BY <1>2 DEF Moves
  <2>2. j < MsgParts /\ j + 1 = done + (k + 1) BY <1>2, <2>1
  <2> QED BY <2>1, <2>2, PartFacts
<1> HIDE DEF z
<1>9. TokenAt(v, z, Len(w) + 1) = y
  <2>1. CASE n = 0
    <3>1. Len(w) + 1 \notin 1 .. Len(v) BY <1>1, <1>4, <2>1
    <3> QED BY <1>7, <2>1, <3>1 DEF TokenAt
  <2>2. CASE n # 0
    <3>1. Len(w) + 1 \in 1 .. Len(v) /\ 1 \in 1 .. n BY <1>1, <1>2, <1>4, <2>2
    <3>2. v[Len(w) + 1] = done + 1 BY <1>4, <3>1
    <3> QED BY <1>5, <2>2, <3>1, <3>2 DEF TokenAt
  <2> QED BY <2>1, <2>2
<1>10. \A k \in 1 .. Len(w) + 1 : TokenAt(v, z, k) = TokenAt(w, y, k)
  <2> SUFFICES ASSUME NEW k \in 1 .. Len(w) + 1 PROVE TokenAt(v, z, k) = TokenAt(w, y, k)
    OBVIOUS
  <2>1. CASE k = Len(w) + 1 BY <1>1, <1>9, <2>1 DEF TokenAt
  <2>2. CASE k # Len(w) + 1
    <3>1. k \in 1 .. Len(w) /\ k \in 1 .. Len(v) BY <1>1, <1>2, <1>4, <2>2
    <3> QED BY <1>4, <3>1 DEF TokenAt
  <2> QED BY <2>1, <2>2
<1>11. TokenAt(v, z, 1) = x
  <2>1. 1 \in 1 .. Len(w) + 1 BY <1>1
  <2> QED BY <1>10, <2>1 DEF Chain
<1>12. ASSUME NEW k \in 1 .. Len(v) PROVE TokenAt(v, z, k + 1) = PartAfter(v[k])
  <2>1. CASE k \in 1 .. Len(w)
    <3>1. k + 1 \in 1 .. Len(w) + 1 BY <1>1, <2>1
    <3> QED BY <1>4, <1>10, <2>1, <3>1 DEF Chain
  <2>2. CASE k \notin 1 .. Len(w)
    <3>1. PICK j \in 1 .. n : k = Len(w) + j
      <4>1. k - Len(w) \in 1 .. n BY <1>1, <1>2, <1>4, <2>2
      <4> QED BY <1>1, <4>1
    <3>2. v[k] = done + j BY <1>4, <3>1
    <3>3. CASE j = n
      <4>1. k + 1 \notin 1 .. Len(v) BY <1>1, <1>2, <1>4, <3>1, <3>3
      <4> QED BY <1>8, <3>2, <3>3, <4>1 DEF TokenAt
    <3>4. CASE j # n
      <4>1. j + 1 \in 1 .. n /\ k + 1 = Len(w) + (j + 1) /\ k + 1 \in 1 .. Len(v)
        BY <1>1, <1>2, <1>4, <3>1, <3>4
      <4>2. v[k + 1] = done + (j + 1) BY <1>4, <4>1
      <4> QED BY <1>8, <3>2, <3>4, <4>1, <4>2 DEF TokenAt
    <3> QED BY <3>3, <3>4
  <2> QED BY <2>1, <2>2
<1>13. Chain(v, x, z) BY <1>1, <1>4, <1>6, <1>11, <1>12 DEF Chain
<1> QED BY <1>13 DEF v, s, z

(* The receiver takes some parts of one message. *)
LEMMA ChainReceive ==
  ASSUME NEW w, NEW x, NEW y, Chain(w, x, y), NEW done \in Moves, NEW n \in Moves,
         done + n <= MsgParts, x = PartAfter(done), n <= Len(w)
  PROVE  Chain(SubSeq(w, n + 1, Len(w)), PartAfter(done + n), y)
<1> DEFINE v == SubSeq(w, n + 1, Len(w))
<1>1. w \in Seq(Moves) /\ x \in Moves /\ y \in Moves /\ Len(w) \in Nat BY DEF Chain
<1>2. n \in Nat /\ done \in Nat /\ MsgParts \in Nat /\ done + n \in Moves
  BY RequestsAssumption DEF Moves
<1>3. /\ v \in Seq(Moves) /\ Len(v) = Len(w) - n
      /\ \A k \in 1 .. Len(w) - n : v[k] = w[n + k]
  BY <1>1, <1>2
<1> HIDE DEF v
<1>4. \A k \in 1 .. n : w[k] = done + k
  <2> DEFINE T == {k \in Nat : k \in 1 .. n /\ w[k] # done + k}
  <2>1. SUFFICES ASSUME T # {} PROVE FALSE OBVIOUS
  <2>2. PICK k \in T : \A j \in T : k <= j BY <2>1, LeastNumber
  <2>3. CASE k = 1
    <3>1. 1 \in 1 .. Len(w) BY <1>1, <1>2, <2>2, <2>3
    <3>2. w[1] = x BY <3>1 DEF Chain, TokenAt
    <3>3. done < MsgParts BY <1>2, <2>2, <2>3
    <3> QED BY <2>2, <2>3, <3>2, <3>3, PartFacts
  <2>4. CASE k # 1
    <3>1. PICK j \in 1 .. n : k = j + 1 /\ j < k
      <4>1. k - 1 \in 1 .. n /\ k = (k - 1) + 1 BY <1>2, <2>2, <2>4
      <4> QED BY <4>1
    <3>2. w[j] = done + j BY <2>2, <3>1
    <3>3. j \in 1 .. Len(w) /\ j + 1 \in 1 .. Len(w) BY <1>1, <1>2, <2>2, <3>1
    <3>4. w[j + 1] = PartAfter(w[j]) BY <3>3 DEF Chain, TokenAt
    <3>5. done + j \in Moves /\ done + j < MsgParts BY <1>2, <2>2, <3>1 DEF Moves
    <3>6. w[j + 1] = (done + j) + 1 BY <3>2, <3>4, <3>5, PartFacts
    <3> QED BY <1>2, <2>2, <3>1, <3>6
  <2> QED BY <2>3, <2>4
<1>5. PartAfter(done + n) \in Moves BY <1>2, PartFacts
<1>6. TokenAt(w, y, n + 1) = PartAfter(done + n)
  <2>1. CASE n = 0
    <3>1. done + n = done /\ n + 1 = 1 BY <1>2, <2>1
    <3> QED BY <3>1 DEF Chain
  <2>2. CASE n # 0
    <3>1. n \in 1 .. Len(w) /\ n \in 1 .. n BY <1>1, <1>2, <2>2
    <3> QED BY <1>4, <3>1 DEF Chain
  <2> QED BY <2>1, <2>2
<1>7. \A k \in 1 .. Len(v) + 1 : TokenAt(v, y, k) = TokenAt(w, y, n + k)
  <2> SUFFICES ASSUME NEW k \in 1 .. Len(v) + 1 PROVE TokenAt(v, y, k) = TokenAt(w, y, n + k)
    OBVIOUS
  <2>1. k \in 1 .. Len(v) <=> n + k \in 1 .. Len(w) BY <1>1, <1>2, <1>3
  <2>2. k \in 1 .. Len(v) => v[k] = w[n + k] BY <1>3
  <2> QED BY <2>1, <2>2 DEF TokenAt
<1>8. TokenAt(v, y, 1) = PartAfter(done + n)
  <2>1. 1 \in 1 .. Len(v) + 1 BY <1>1, <1>2, <1>3
  <2> QED BY <1>6, <1>7, <2>1
<1>9. ASSUME NEW k \in 1 .. Len(v) PROVE TokenAt(v, y, k + 1) = PartAfter(v[k])
  <2>1. k + 1 \in 1 .. Len(v) + 1 /\ n + k \in 1 .. Len(w) /\ n + (k + 1) = (n + k) + 1
    BY <1>1, <1>2, <1>3, SMTT(30)
  <2>2. TokenAt(w, y, (n + k) + 1) = PartAfter(w[n + k]) BY <2>1 DEF Chain
  <2>3. v[k] = w[n + k] BY <1>3
  <2> QED BY <1>7, <2>1, <2>2, <2>3
<1>10. Chain(v, PartAfter(done + n), y) BY <1>1, <1>3, <1>5, <1>8, <1>9 DEF Chain
<1> QED BY <1>10 DEF v

(* The receiver takes the ready byte. *)
LEMMA ChainTail ==
  ASSUME NEW w, NEW x, NEW y, Chain(w, x, y), w # <<>>
  PROVE  Chain(Tail(w), PartAfter(x), y)
<1> DEFINE v == Tail(w)
<1>1. w \in Seq(Moves) /\ x \in Moves /\ y \in Moves /\ Len(w) \in Nat /\ Len(w) # 0
  BY EmptySeq DEF Chain
<1>2. /\ v \in Seq(Moves) /\ Len(v) = Len(w) - 1
      /\ \A k \in 1 .. Len(w) - 1 : v[k] = w[k + 1]
  BY <1>1
<1> HIDE DEF v
<1>3. \A k \in 1 .. Len(v) + 1 : TokenAt(v, y, k) = TokenAt(w, y, k + 1)
  <2> SUFFICES ASSUME NEW k \in 1 .. Len(v) + 1 PROVE TokenAt(v, y, k) = TokenAt(w, y, k + 1)
    OBVIOUS
  <2>1. k \in 1 .. Len(v) <=> k + 1 \in 1 .. Len(w) BY <1>1, <1>2
  <2>2. k \in 1 .. Len(v) => v[k] = w[k + 1] BY <1>2
  <2> QED BY <2>1, <2>2 DEF TokenAt
<1>4. w[1] = x /\ 1 \in 1 .. Len(w) BY <1>1 DEF Chain, TokenAt
<1>5. TokenAt(v, y, 1) = PartAfter(x)
  <2>1. 1 \in 1 .. Len(v) + 1 BY <1>1, <1>2
  <2> QED BY <1>3, <1>4, <2>1 DEF Chain
<1>6. ASSUME NEW k \in 1 .. Len(v) PROVE TokenAt(v, y, k + 1) = PartAfter(v[k])
  <2>1. k + 1 \in 1 .. Len(v) + 1 /\ k + 1 \in 1 .. Len(w) BY <1>1, <1>2
  <2> QED BY <1>2, <1>3, <2>1 DEF Chain
<1>7. PartAfter(x) \in Moves BY <1>1, PartFacts
<1>8. Chain(v, PartAfter(x), y) BY <1>1, <1>2, <1>5, <1>6, <1>7 DEF Chain
<1> QED BY <1>8 DEF v

(* x is the next thing that end s of the connection sends or expects: the  *)
(* ready byte, a new message, or the rest of the message under way.        *)
IsNext(c, s, x) ==
  /\ comm[c][s] = NoFd => x = Ready
  /\ comm[c][s] # NoFd /\ Outstanding(c, s) = {} => x = 1
  /\ \A slot \in Outstanding(c, s) : x = PartAfter(requests[c][s][slot])

StreamOf(c) ==
  "recv" \notin closed[c] =>
    \E x, y \in Moves :
      /\ IsNext(c, "recv", x)
      /\ "send" \notin closed[c] => IsNext(c, "send", y)
      /\ Chain(wire[c], x, y)

ClosedRecv ==
  \A c \in Conns : "recv" \in closed[c] => comm[c]["recv"] = NoFd /\ listenComm[c] = NoListen

StreamInv ==
  /\ DOMAIN wire = Conns
  /\ ClosedRecv
  /\ \A c \in Conns : StreamOf(c)

(* What the proofs of the steps rely on. *)
PluginInv == ConnInv /\ EstablishedInv /\ ActiveInv /\ RingTypes

(* Nothing happens on the stream of c, but an end may be closed. *)
LEMMA StreamFrame ==
  ASSUME NEW c \in Conns, StreamOf(c), wire'[c] = wire[c],
         \A s \in Sides : s \notin closed'[c] =>
           s \notin closed[c] /\ comm'[c][s] = comm[c][s] /\ requests'[c][s] = requests[c][s]
  PROVE  StreamOf(c)'
<1>1. ASSUME NEW s \in Sides, s \notin closed'[c], NEW x, IsNext(c, s, x) PROVE IsNext(c, s, x)'
  <2>1. comm'[c][s] = comm[c][s] /\ requests'[c][s] = requests[c][s] BY <1>1
  <2> QED BY <1>1, <2>1 DEF IsNext, Outstanding
<1> SUFFICES ASSUME "recv" \notin closed'[c]
             PROVE  \E x, y \in Moves :
                      /\ IsNext(c, "recv", x)'
                      /\ "send" \notin closed'[c] => IsNext(c, "send", y)'
                      /\ Chain(wire'[c], x, y)
  BY DEF StreamOf
<1>2. "send" \in Sides /\ "recv" \in Sides BY DEF Sides
<1>3. PICK x \in Moves, y \in Moves :
        /\ IsNext(c, "recv", x)
        /\ "send" \notin closed[c] => IsNext(c, "send", y)
        /\ Chain(wire[c], x, y)
  BY <1>2 DEF StreamOf
<1>4. IsNext(c, "recv", x)' BY <1>1, <1>2, <1>3
<1>5. "send" \notin closed'[c] => IsNext(c, "send", y)' BY <1>1, <1>2, <1>3
<1> QED BY <1>3, <1>4, <1>5

(* A step of one connection. *)
LEMMA OneStream ==
  ASSUME StreamInv, NEW c \in Conns, DOMAIN wire' = Conns, ClosedRecv', StreamOf(c)',
         \A d \in Conns \ {c} : /\ wire'[d] = wire[d] /\ closed'[d] = closed[d]
                                /\ comm'[d] = comm[d] /\ requests'[d] = requests[d]
  PROVE  StreamInv'
<1>1. ASSUME NEW d \in Conns, d # c PROVE StreamOf(d)'
  <2>1. StreamOf(d) BY DEF StreamInv
  <2> QED BY <1>1, <2>1, StreamFrame
<1> QED BY <1>1 DEF StreamInv

(* End s moves n parts of a message of which it has moved done. *)
LEMMA MoveStream ==
  ASSUME StreamInv, NEW c \in Conns, NEW s \in Sides, NEW done \in Moves, NEW n \in Moves,
         done + n <= MsgParts, comm[c][s] # NoFd,
         MoveParts(c, s, done, n), UNCHANGED <<comm, closed, listenComm>>,
         \A x : IsNext(c, s, x) => x = PartAfter(done),
         IsNext(c, s, PartAfter(done + n))',
         \A d \in Conns, t \in Sides : d # c \/ t # s => requests'[d][t] = requests[d][t],
         DOMAIN requests' = Conns, \A d \in Conns : DOMAIN requests'[d] = Sides,
         "send" \in closed[c] => s = "recv", ActiveTypes
  PROVE  StreamInv'
<1>1. done + n \in Moves BY RequestsAssumption DEF Moves
<1>2. PartAfter(done + n) \in Moves BY <1>1, PartFacts
<1>3. PICK k \in Moves : k = PartAfter(done + n) BY <1>2
<1>4. IsNext(c, s, k)' BY <1>3
<1>5. "send" \in Sides /\ "recv" \in Sides BY DEF Sides
<1>6. ASSUME NEW t \in Sides, t # s, NEW x, IsNext(c, t, x) PROVE IsNext(c, t, x)'
  <2>1. requests'[c][t] = requests[c][t] /\ comm'[c][t] = comm[c][t] BY <1>6
  <2> QED BY <1>6, <2>1 DEF IsNext, Outstanding
<1>7. StreamOf(c)'
  <2> SUFFICES ASSUME "recv" \notin closed[c]
               PROVE  \E x, y \in Moves :
                        /\ IsNext(c, "recv", x)'
                        /\ "send" \notin closed[c] => IsNext(c, "send", y)'
                        /\ Chain(wire'[c], x, y)
    BY DEF StreamOf
  <2>1. PICK x \in Moves, y \in Moves :
          /\ IsNext(c, "recv", x)
          /\ "send" \notin closed[c] => IsNext(c, "send", y)
          /\ Chain(wire[c], x, y)
    BY DEF StreamInv, StreamOf
  <2>2. CASE s = "send"
    <3>1. wire'[c] = wire[c] \o [i \in 1 .. n |-> done + i]
      BY <2>2 DEF MoveParts, SendParts, StreamInv
    <3>2. y = PartAfter(done) BY <2>1, <2>2
    <3>3. Chain(wire'[c], x, k) BY <1>3, <2>1, <3>1, <3>2, ChainSend
    <3>4. IsNext(c, "recv", x)' BY <1>5, <1>6, <2>1, <2>2
    <3> QED BY <1>4, <2>2, <3>3, <3>4
  <2>3. CASE s = "recv"
    <3>1. n <= Len(wire[c]) /\ wire'[c] = SubSeq(wire[c], n + 1, Len(wire[c]))
      BY <2>3 DEF MoveParts, RecvParts, StreamInv
    <3>2. x = PartAfter(done) BY <2>1, <2>3
    <3>3. Chain(wire'[c], k, y) BY <1>3, <2>1, <3>1, <3>2, ChainReceive
    <3>4. "send" \notin closed[c] => IsNext(c, "send", y)' BY <1>5, <1>6, <2>1, <2>3
    <3> QED BY <1>4, <2>3, <3>3, <3>4
  <2> QED BY <2>2, <2>3 DEF Sides
<1>8. DOMAIN wire' = Conns /\ \A d \in Conns \ {c} : wire'[d] = wire[d]
  BY DEF MoveParts, SendParts, RecvParts, StreamInv
<1>9. ASSUME NEW d \in Conns, d # c
      PROVE  StreamOf(d)'
  <2>1. StreamOf(d) /\ wire'[d] = wire[d] BY <1>8, <1>9 DEF StreamInv
  <2> QED BY <1>9, <2>1, StreamFrame
<1>10. ClosedRecv' BY DEF StreamInv, ClosedRecv
<1> QED BY <1>7, <1>8, <1>9, <1>10 DEF StreamInv

(* An end without a comm has no request, and a comm has at most one. *)
LEMMA IdleNext ==
  ASSUME PluginInv, NEW c \in Conns, NEW s \in Sides
  PROVE  /\ comm[c][s] = NoFd => Outstanding(c, s) = {} /\ (\A x : IsNext(c, s, x) <=> x = 0)
         /\ \A slot \in Outstanding(c, s) : Outstanding(c, s) = {slot} /\ comm[c][s] # NoFd
<1>1. comm[c][s] = NoFd => Outstanding(c, s) = {}
  BY DEF PluginInv, ActiveInv, BusyIsMarked, Busy
<1>2. \A slot \in Outstanding(c, s) : Outstanding(c, s) = {slot} /\ comm[c][s] # NoFd
  <2> SUFFICES ASSUME NEW slot \in Outstanding(c, s)
               PROVE  Outstanding(c, s) = {slot} /\ comm[c][s] # NoFd
    OBVIOUS
  <2>1. Busy(c, s) BY DEF Busy
  <2>2. comm[c][s] # NoFd /\ \E x : Outstanding(c, s) = {x}
    BY <2>1 DEF PluginInv, ActiveInv, BusyIsMarked
  <2> QED BY <2>2
<1> QED BY <1>1, <1>2 DEF IsNext, Ready

(* Setting a connection up: the ready byte goes through the stream first. *)
LEMMA ConnectingStream ==
  ASSUME PluginInv, StreamInv, NEW c \in Conns, Connecting(c)
  PROVE  StreamInv'
<1> USE DEF PluginInv
<1>1. "send" \in Sides /\ "recv" \in Sides /\ "send" # "recv" BY DEF Sides
<1>2. requests' = requests BY DEF Connecting
<1>3. ASSUME UNCHANGED <<wire, comm, closed>>, \A d \in Conns : listenComm[d] = NoListen =>
               listenComm'[d] = NoListen
      PROVE  StreamInv'
  <2>1. \A d \in Conns : StreamOf(d)' BY <1>2, <1>3, StreamFrame DEF StreamInv
  <2>2. ClosedRecv' BY <1>3 DEF StreamInv, ClosedRecv
  <2> QED BY <1>3, <2>1, <2>2 DEF StreamInv
<1>4. CASE UNCHANGED <<wire, comm, closed, listenComm>> BY <1>3, <1>4
<1>5. CASE AcceptConnection(c)
  <2>1. listenComm[c] # NoListen /\ UNCHANGED <<wire, comm, closed>>
        /\ \A d \in Conns \ {c} : listenComm'[d] = listenComm[d]
    BY <1>5 DEF AcceptConnection, CanAccept, ConnInv, ConnTypes
  <2> QED BY <1>3, <2>1
<1>6. CASE ConnectReady(c)
  <2>1. /\ wire'[c] = Append(wire[c], Ready) /\ DOMAIN wire' = Conns
        /\ comm'[c]["send"] = handle[c].connectingFd
        /\ comm'[c]["recv"] = comm[c]["recv"]
        /\ \A d \in Conns \ {c} : wire'[d] = wire[d] /\ comm'[d] = comm[d]
        /\ UNCHANGED <<closed, listenComm>>
        /\ comm[c]["send"] = NoFd /\ "send" \notin closed[c] /\ handle[c].is_connected
    BY <1>1, <1>6 DEF ConnectReady, CanConnect, StreamInv, ConnInv, ConnTypes
  <2>2. comm'[c]["send"] # NoFd
    BY <2>1 DEF ConnInv, ConnLinks, NewHandle
  <2>3. Outstanding(c, "send")' = {} /\ \A x : IsNext(c, "send", x) => x = 0
    <3>1. Outstanding(c, "send") = {} /\ \A x : IsNext(c, "send", x) => x = 0
      BY <1>1, <2>1, IdleNext
    <3> QED BY <1>2, <3>1 DEF Outstanding
  <2>4. IsNext(c, "send", 1)' BY <2>2, <2>3 DEF IsNext
  <2>5. StreamOf(c)'
    <3> SUFFICES ASSUME "recv" \notin closed[c]
                 PROVE  \E x, y \in Moves :
                          /\ IsNext(c, "recv", x)'
                          /\ IsNext(c, "send", y)'
                          /\ Chain(wire'[c], x, y)
      BY <2>1 DEF StreamOf
    <3>1. PICK x \in Moves, y \in Moves :
            IsNext(c, "recv", x) /\ IsNext(c, "send", y) /\ Chain(wire[c], x, y)
      BY <2>1 DEF StreamInv, StreamOf
    <3>2. IsNext(c, "recv", x)' BY <1>2, <2>1, <3>1 DEF IsNext, Outstanding
    <3>3. y = 0 BY <2>3, <3>1
    <3>4. PartAfter(y) = 1 /\ PartAfter(y) \in Moves BY <3>3, PartFacts
    <3>5. Chain(wire'[c], x, PartAfter(y)) BY <2>1, <3>1, <3>3, ChainAppend DEF Ready
    <3> QED BY <2>4, <3>2, <3>4, <3>5
  <2>6. ClosedRecv' BY <2>1 DEF StreamInv, ClosedRecv
  <2> QED BY <1>2, <2>1, <2>5, <2>6, OneStream
<1>7. CASE AcceptReady(c)
  <2>1. /\ wire'[c] = IF wire[c] # <<>> THEN Tail(wire[c]) ELSE wire[c]
        /\ DOMAIN wire' = Conns
        /\ comm'[c]["recv"] # NoFd /\ comm[c]["recv"] = NoFd
        /\ comm'[c]["send"] = comm[c]["send"]
        /\ \A d \in Conns \ {c} : wire'[d] = wire[d] /\ comm'[d] = comm[d]
        /\ UNCHANGED <<closed, listenComm>>
        /\ wire[c] # <<>> \/ "send" \in closed[c]
        /\ listenComm[c] # NoListen
    BY <1>1, <1>7 DEF AcceptReady, CanAccept, StreamInv, ConnInv, ConnTypes
  <2>2. Outstanding(c, "recv")' = {} /\ \A x : IsNext(c, "recv", x) => x = 0
    <3>1. Outstanding(c, "recv") = {} /\ \A x : IsNext(c, "recv", x) => x = 0
      BY <1>1, <2>1, IdleNext
    <3> QED BY <1>2, <3>1 DEF Outstanding
  <2>3. IsNext(c, "recv", 1)' BY <2>1, <2>2 DEF IsNext
  <2>4. \A y : IsNext(c, "send", y) => IsNext(c, "send", y)'
    BY <1>2, <2>1 DEF IsNext, Outstanding
  <2>5. StreamOf(c)'
    <3> SUFFICES ASSUME "recv" \notin closed[c]
                 PROVE  \E x, y \in Moves :
                          /\ IsNext(c, "recv", x)'
                          /\ "send" \notin closed[c] => IsNext(c, "send", y)'
                          /\ Chain(wire'[c], x, y)
      BY <2>1 DEF StreamOf
    <3>1. PICK x \in Moves, y \in Moves :
            /\ IsNext(c, "recv", x) /\ Chain(wire[c], x, y)
            /\ "send" \notin closed[c] => IsNext(c, "send", y)
      BY DEF StreamInv, StreamOf
    <3>2. x = 0 BY <2>2, <3>1
    <3>3. PartAfter(x) = 1 /\ PartAfter(x) \in Moves BY <3>2, PartFacts
    <3>4. CASE wire[c] # <<>>
      <4>1. Chain(wire'[c], PartAfter(x), y) BY <2>1, <3>1, <3>4, ChainTail
      <4> QED BY <2>3, <2>4, <3>1, <3>3, <4>1
    <3>5. CASE wire[c] = <<>>
      <4>1. Chain(wire'[c], PartAfter(x), PartAfter(x)) BY <2>1, <3>3, <3>5, ChainEmpty
      <4> QED BY <2>1, <2>3, <3>3, <3>5, <4>1
    <3> QED BY <3>4, <3>5
  <2>6. ClosedRecv' BY <2>1 DEF StreamInv, ClosedRecv
  <2> QED BY <1>2, <2>1, <2>5, <2>6, OneStream
<1>8. CASE CloseListen(c)
  <2>1. /\ UNCHANGED <<wire, comm>>
        /\ listenComm'[c] = NoListen
        /\ \A d \in Conns \ {c} : closed'[d] = closed[d] /\ listenComm'[d] = listenComm[d]
        /\ closed'[c] = IF comm[c]["recv"] = NoFd THEN closed[c] \cup {"recv"} ELSE closed[c]
    BY <1>8 DEF CloseListen, ConnInv, ConnTypes
  <2>2. StreamOf(c)
    BY DEF StreamInv
  <2>3. StreamOf(c)' BY <1>2, <2>1, <2>2, StreamFrame
  <2>4. ClosedRecv' BY <2>1 DEF StreamInv, ClosedRecv
  <2>5. DOMAIN wire' = Conns BY <2>1 DEF StreamInv
  <2> QED BY <1>2, <2>1, <2>3, <2>4, <2>5, OneStream
<1>9. Connecting(c) => \/ UNCHANGED <<wire, comm, closed, listenComm>>
                       \/ AcceptConnection(c) \/ ConnectReady(c) \/ AcceptReady(c) \/ CloseListen(c)
  BY DEF Connecting, Establish, EstablishFails, ConnectStart, Handshake, ConnectPoll, ConnectFails,
     ListenFails, ConnectStartFails
<1> QED BY <1>4, <1>5, <1>6, <1>7, <1>8, <1>9

(* A call that starts or continues a request of comm (c, s). *)
LEMMA SetRequestNext ==
  ASSUME ActiveTypes, NEW c \in Conns, NEW s \in Sides, NEW slot, NEW moved,
         SetRequest(c, s, slot, moved), Outstanding(c, s) \subseteq {slot},
         comm'[c][s] # NoFd
  PROVE  /\ IsNext(c, s, PartAfter(moved))'
         /\ DOMAIN requests' = Conns /\ \A d \in Conns : DOMAIN requests'[d] = Sides
         /\ \A d \in Conns, t \in Sides : d # c \/ t # s => requests'[d][t] = requests[d][t]
<1> DEFINE r == [x \in DOMAIN requests[c][s] \cup {slot} |->
                  IF x = slot THEN moved ELSE requests[c][s][x]]
<1>1. requests' = [requests EXCEPT ![c][s] = r] BY DEF SetRequest, ActiveTypes
<1>2. DOMAIN r = {slot} /\ r[slot] = moved BY DEF Outstanding
<1> HIDE DEF r
<1>3. requests'[c] = [requests[c] EXCEPT ![s] = r] /\ DOMAIN requests' = Conns
  BY <1>1 DEF ActiveTypes
<1>4. requests'[c][s] = r /\ DOMAIN requests'[c] = Sides
      /\ \A t \in Sides : t # s => requests'[c][t] = requests[c][t]
  BY <1>3 DEF ActiveTypes
<1>5. \A d \in Conns : d # c => requests'[d] = requests[d] BY <1>1 DEF ActiveTypes
<1>6. DOMAIN requests'[c][s] = {slot} /\ requests'[c][s][slot] = moved BY <1>2, <1>4
<1>7. IsNext(c, s, PartAfter(moved))'
  <2>1. Outstanding(c, s)' = {slot} BY <1>6 DEF Outstanding
  <2> QED BY <1>6, <2>1 DEF IsNext
<1> QED BY <1>3, <1>4, <1>5, <1>7 DEF ActiveTypes

(* A request that is complete is removed. *)
LEMMA RemoveRequestNext ==
  ASSUME ActiveTypes, NEW c \in Conns, NEW s \in Sides, NEW slot,
         requests' = [requests EXCEPT ![c][s] = [x \in DOMAIN @ \ {slot} |-> @[x]]],
         Outstanding(c, s) = {slot}
  PROVE  /\ IsNext(c, s, 1)' \/ comm'[c][s] = NoFd
         /\ DOMAIN requests' = Conns /\ \A d \in Conns : DOMAIN requests'[d] = Sides
         /\ \A d \in Conns, t \in Sides : d # c \/ t # s => requests'[d][t] = requests[d][t]
<1> DEFINE r == [x \in DOMAIN requests[c][s] \ {slot} |-> requests[c][s][x]]
<1>1. requests' = [requests EXCEPT ![c][s] = r] BY DEF ActiveTypes
<1>2. DOMAIN r = {} BY DEF Outstanding
<1> HIDE DEF r
<1>3. requests'[c] = [requests[c] EXCEPT ![s] = r] /\ DOMAIN requests' = Conns
  BY <1>1 DEF ActiveTypes
<1>4. requests'[c][s] = r /\ DOMAIN requests'[c] = Sides
      /\ \A t \in Sides : t # s => requests'[c][t] = requests[c][t]
  BY <1>3 DEF ActiveTypes
<1>5. \A d \in Conns : d # c => requests'[d] = requests[d] BY <1>1 DEF ActiveTypes
<1>6. Outstanding(c, s)' = {} BY <1>2, <1>4 DEF Outstanding
<1>7. IsNext(c, s, 1)' \/ comm'[c][s] = NoFd BY <1>6 DEF IsNext
<1> QED BY <1>3, <1>4, <1>5, <1>7 DEF ActiveTypes

(* isend, irecv and test move whole messages, part by part. *)
LEMMA TransferringStream ==
  ASSUME PluginInv, StreamInv, NEW c \in Conns, Transferring(c)
  PROVE  StreamInv'
<1> USE DEF PluginInv
<1>1. "send" \in Sides /\ "recv" \in Sides /\ Proc(c, "send") = Src[c] /\ Proc(c, "recv") = Dst[c]
  BY DEF Sides, Proc
<1>2. 0 \in Moves /\ PartAfter(0) = 1 /\ MsgParts \in Nat BY PartFacts, RequestsAssumption
<1>3. \A s \in Sides : comm[c][s] # NoFd => s \notin closed[c]
  BY DEF EstablishedInv, StreamInv, ClosedRecv, Sides
<1>4. ASSUME UNCHANGED <<wire, comm, closed, listenComm, requests>> PROVE StreamInv'
  <2>1. \A d \in Conns : StreamOf(d)' BY <1>4, StreamFrame DEF StreamInv
  <2>2. ClosedRecv' BY <1>4 DEF StreamInv, ClosedRecv
  <2> QED BY <1>4, <2>1, <2>2 DEF StreamInv
<1>5. CASE ISendProcess(c)
  <2>1. PICK n \in Moves : SendParts(c, 0, n) /\ SetRequest(c, "send", TakenSlot(c, "send"), n)
    BY <1>5 DEF ISendProcess
  <2>2. isend_pc[c] # "idle" /\ UNCHANGED <<comm, closed, listenComm>>
    BY <1>5 DEF ISendProcess
  <2>3. comm[c]["send"] # NoFd BY <2>2 DEF ConnInv, ConnLinks
  <2>4. Outstanding(c, "send") = {}
    BY <1>1, <2>2 DEF ActiveInv, TestStillTrue, BusyIsMarked, Busy
  <2>5. \A x : IsNext(c, "send", x) => x = PartAfter(0) BY <1>2, <2>3, <2>4 DEF IsNext
  <2>6. 0 + n = n /\ n <= MsgParts BY <1>2 DEF Moves
  <2>7. /\ IsNext(c, "send", PartAfter(n))'
        /\ DOMAIN requests' = Conns /\ \A d \in Conns : DOMAIN requests'[d] = Sides
        /\ \A d \in Conns, t \in Sides : d # c \/ t # "send" => requests'[d][t] = requests[d][t]
    BY <1>1, <2>1, <2>2, <2>3, <2>4, SetRequestNext DEF ActiveInv
  <2>8. MoveParts(c, "send", 0, n) BY <2>1 DEF MoveParts
  <2> QED BY <1>1, <1>2, <1>3, <2>2, <2>3, <2>5, <2>6, <2>7, <2>8, MoveStream DEF ActiveInv
<1>6. CASE IRecv(c)
  <2>1. PICK n \in Moves : RecvParts(c, n) /\ SetRequest(c, "recv", take_req_ind[c]["recv"], n)
    BY <1>6 DEF IRecv
  <2>2. /\ comm[c]["recv"] # NoFd /\ comm[c]["recv"] \notin active_fds[Dst[c]]
        /\ UNCHANGED <<comm, closed, listenComm>>
    BY <1>1, <1>6 DEF IRecv, CanPost, NotActive, Fd
  <2>3. Outstanding(c, "recv") = {} BY <1>1, <2>2 DEF ActiveInv, BusyIsMarked, Busy
  <2>4. \A x : IsNext(c, "recv", x) => x = PartAfter(0) BY <1>2, <2>2, <2>3 DEF IsNext
  <2>5. 0 + n = n /\ n <= MsgParts BY <1>2 DEF Moves
  <2>6. /\ IsNext(c, "recv", PartAfter(n))'
        /\ DOMAIN requests' = Conns /\ \A d \in Conns : DOMAIN requests'[d] = Sides
        /\ \A d \in Conns, t \in Sides : d # c \/ t # "recv" => requests'[d][t] = requests[d][t]
    BY <1>1, <2>1, <2>2, <2>3, SetRequestNext DEF ActiveInv
  <2>7. MoveParts(c, "recv", 0, n) BY <2>1 DEF MoveParts
  <2> QED BY <1>1, <1>2, <2>2, <2>4, <2>5, <2>6, <2>7, MoveStream DEF ActiveInv
<1>7. ASSUME NEW s \in Sides, Test(c, s) PROVE StreamInv'
  <2>1. UNCHANGED <<comm, closed, listenComm>> BY <1>7 DEF Test
  <2>2. PICK slot \in Outstanding(c, s), n \in Moves :
          /\ requests[c][s][slot] + n <= MsgParts
          /\ MoveParts(c, s, requests[c][s][slot], n)
          /\ IF requests[c][s][slot] + n = MsgParts
             THEN requests' = [requests EXCEPT ![c][s] = [x \in DOMAIN @ \ {slot} |-> @[x]]]
             ELSE SetRequest(c, s, slot, requests[c][s][slot] + n)
    BY <1>7, Zenon DEF Test
  <2>3. Outstanding(c, s) = {slot} /\ comm[c][s] # NoFd BY IdleNext
  <2>4. requests[c][s][slot] \in Moves BY DEF RingTypes, Outstanding
  <2>5. PICK done \in Moves : done = requests[c][s][slot] BY <2>4
  <2>6. \A x : IsNext(c, s, x) => x = PartAfter(done) BY <2>5 DEF IsNext
  <2>7. done + n <= MsgParts /\ MoveParts(c, s, done, n) BY <2>2, <2>5
  <2>8. comm'[c][s] # NoFd BY <2>1, <2>3
  <2>9. /\ IsNext(c, s, PartAfter(done + n))'
        /\ DOMAIN requests' = Conns /\ \A d \in Conns : DOMAIN requests'[d] = Sides
        /\ \A d \in Conns, t \in Sides : d # c \/ t # s => requests'[d][t] = requests[d][t]
    <3>1. CASE done + n = MsgParts
      <4>1. requests' = [requests EXCEPT ![c][s] = [x \in DOMAIN @ \ {slot} |-> @[x]]]
        BY <2>2, <2>5, <3>1
      <4>2. PartAfter(done + n) = 1 BY <3>1, PartFacts
      <4>3. /\ IsNext(c, s, 1)' \/ comm'[c][s] = NoFd
            /\ DOMAIN requests' = Conns /\ \A d \in Conns : DOMAIN requests'[d] = Sides
            /\ \A d \in Conns, t \in Sides : d # c \/ t # s => requests'[d][t] = requests[d][t]
        BY <2>3, <4>1, RemoveRequestNext, ZenonT(30) DEF ActiveInv
      <4> QED BY <2>8, <4>2, <4>3
    <3>2. CASE done + n # MsgParts
      <4>1. SetRequest(c, s, slot, done + n) BY <2>2, <2>5, <3>2
      <4> QED BY <2>3, <2>8, <4>1, SetRequestNext DEF ActiveInv
    <3> QED BY <3>1, <3>2
  <2>10. "send" \in closed[c] => s = "recv" BY <1>1, <1>3, <2>3 DEF Sides
  <2> QED BY <2>1, <2>3, <2>6, <2>7, <2>9, <2>10, MoveStream DEF ActiveInv
<1>8. ASSUME NEW s \in Sides, Close(c, s) PROVE StreamInv'
  <2>1. /\ closed'[c] = closed[c] \cup {s} /\ comm'[c][s] = NoFd
        /\ \A t \in Sides : t # s => comm'[c][t] = comm[c][t]
        /\ \A d \in Conns \ {c} : closed'[d] = closed[d] /\ comm'[d] = comm[d]
        /\ UNCHANGED <<wire, listenComm>>
        /\ s = "recv" => listenComm[c] = NoListen
    BY <1>8 DEF Close, CloseComm, ConnInv, ConnTypes
  <2>2. /\ \A t \in Sides : t # s => requests'[c][t] = requests[c][t]
        /\ \A d \in Conns \ {c} : requests'[d] = requests[d]
    BY <1>8 DEF Close, ActiveInv, ActiveTypes
  <2>3. StreamOf(c) BY DEF StreamInv
  <2>4. StreamOf(c)' BY <2>1, <2>2, <2>3, StreamFrame
  <2>5. ClosedRecv' BY <1>1, <2>1 DEF StreamInv, ClosedRecv
  <2>6. DOMAIN wire' = Conns BY <2>1 DEF StreamInv
  <2> QED BY <2>1, <2>2, <2>4, <2>5, <2>6, OneStream
<1>9. Transferring(c) => \/ UNCHANGED <<wire, comm, closed, listenComm, requests>>
                         \/ ISendProcess(c) \/ IRecv(c)
                         \/ \E s \in Sides : Test(c, s) \/ Close(c, s)
  BY DEF Transferring, ISend, RequestFails, ISendTake, DumpLock, DumpBytes, DumpSize, DumpFails,
     ISendFails, IRecvFails
<1> QED BY <1>4, <1>5, <1>6, <1>7, <1>8, <1>9

(* Every step of the plugin keeps the streams in order. *)
LEMMA NextStream == ASSUME PluginInv, StreamInv, [Next]_vars PROVE StreamInv'
<1> USE DEF PluginInv
<1>1. ASSUME UNCHANGED <<wire, comm, closed, listenComm, requests>> PROVE StreamInv'
  <2>1. \A d \in Conns : StreamOf(d)' BY <1>1, StreamFrame DEF StreamInv
  <2>2. ClosedRecv' BY <1>1 DEF StreamInv, ClosedRecv
  <2> QED BY <1>1, <2>1, <2>2 DEF StreamInv
<1>2. ASSUME NEW p \in Procs, Starting(p) PROVE StreamInv' BY <1>1, <1>2 DEF Starting
<1>3. ASSUME NEW p \in Procs, Kill(p) PROVE StreamInv'
  <2>1. SocketsOfKilled(p) /\ RequestsOfKilled(p) BY <1>3 DEF Kill
  <2>2. /\ wire' = wire
        /\ comm' = [c \in Conns |-> [s \in Sides |->
                     IF s \in {t \in Sides : Proc(c, t) = p} THEN NoFd ELSE comm[c][s]]]
        /\ closed' = [c \in Conns |-> closed[c] \cup {t \in Sides : Proc(c, t) = p}]
        /\ listenComm' = [c \in Conns |-> IF Dst[c] = p THEN NoListen ELSE listenComm[c]]
        /\ requests' = [c \in Conns |-> [s \in Sides |->
                         IF Proc(c, s) = p THEN NoRequests ELSE requests[c][s]]]
    BY <2>1 DEF SocketsOfKilled, RequestsOfKilled
  <2>3. ASSUME NEW c \in Conns PROVE StreamOf(c)'
    <3>1. ASSUME NEW s \in Sides, s \notin closed'[c]
          PROVE  s \notin closed[c] /\ comm'[c][s] = comm[c][s] /\ requests'[c][s] = requests[c][s]
      <4>1. s \notin closed[c] /\ Proc(c, s) # p BY <2>2, <3>1
      <4> QED BY <2>2, <4>1
    <3>2. StreamOf(c) /\ wire'[c] = wire[c] BY <2>2 DEF StreamInv
    <3> QED BY <3>1, <3>2, StreamFrame
  <2>4. ASSUME NEW c \in Conns, "recv" \in closed'[c]
        PROVE  comm'[c]["recv"] = NoFd /\ listenComm'[c] = NoListen
    <3>1. "recv" \in Sides /\ Proc(c, "recv") = Dst[c] BY DEF Sides, Proc
    <3>2. CASE Dst[c] = p BY <2>2, <3>1, <3>2
    <3>3. CASE Dst[c] # p
      <4>1. "recv" \in closed[c] BY <2>2, <2>4, <3>1, <3>3
      <4>2. comm[c]["recv"] = NoFd /\ listenComm[c] = NoListen BY <4>1 DEF StreamInv, ClosedRecv
      <4> QED BY <2>2, <3>1, <3>3, <4>2
    <3> QED BY <3>2, <3>3
  <2> QED BY <2>2, <2>3, <2>4 DEF StreamInv, ClosedRecv
<1>4. ASSUME NEW c \in Conns, Listening(c) PROVE StreamInv'
  <2>1. /\ closed[c] = Sides /\ closed'[c] = {} /\ wire'[c] = <<>>
        /\ DOMAIN wire' = Conns /\ UNCHANGED <<comm, requests>>
        /\ \A d \in Conns \ {c} : /\ closed'[d] = closed[d] /\ wire'[d] = wire[d]
                                  /\ listenComm'[d] = listenComm[d]
    BY <1>4 DEF Listening, Listen, CanListen, RequestsAtListen, StreamInv, ConnInv, ConnTypes
  <2>2. comm[c]["send"] = NoFd /\ comm[c]["recv"] = NoFd
    BY <2>1 DEF EstablishedInv, StreamInv, ClosedRecv, Sides
  <2>3. "send" \in Sides /\ "recv" \in Sides BY DEF Sides
  <2>4. ASSUME NEW s \in Sides PROVE IsNext(c, s, 0)'
    <3>1. IsNext(c, s, 0) BY <2>2, IdleNext DEF Sides
    <3> QED BY <2>1, <3>1 DEF IsNext, Outstanding
  <2>5. Chain(wire'[c], 0, 0) /\ 0 \in Moves BY <2>1, ChainEmpty, PartFacts
  <2>6. StreamOf(c)' BY <2>3, <2>4, <2>5 DEF StreamOf
  <2>7. ClosedRecv' BY <2>1 DEF StreamInv, ClosedRecv
  <2> QED BY <2>1, <2>6, <2>7, OneStream
<1>5. ASSUME NEW c \in Conns, Connecting(c) PROVE StreamInv' BY <1>5, ConnectingStream
<1>6. ASSUME NEW c \in Conns, Transferring(c) PROVE StreamInv' BY <1>6, TransferringStream
<1>7. CASE UNCHANGED vars BY <1>1, <1>7 DEF vars
<1> QED BY <1>2, <1>3, <1>4, <1>5, <1>6, <1>7, NextCases DEF ConnStep

(* What is on the wire fits what the receiver waits for. *)
LEMMA StreamIsAligned == ASSUME PluginInv, StreamInv PROVE StreamAligned
<1> SUFFICES ASSUME NEW c \in Conns, wire[c] # <<>>, "recv" \notin closed[c]
             PROVE  /\ Expected(c) = {wire[c][1]}
                    /\ \A i \in 1 .. Len(wire[c]) - 1 : wire[c][i + 1] = PartAfter(wire[c][i])
  BY DEF StreamAligned
<1>1. PICK x \in Moves, y \in Moves : IsNext(c, "recv", x) /\ Chain(wire[c], x, y)
  BY DEF StreamInv, StreamOf
<1>2. wire[c] \in Seq(Moves) /\ Len(wire[c]) \in Nat /\ Len(wire[c]) # 0
  BY <1>1, EmptySeq DEF Chain
<1>3. wire[c][1] = x BY <1>1, <1>2 DEF Chain, TokenAt
<1>4. Expected(c) = {x}
  <2>1. "recv" \in Sides BY DEF Sides
  <2>2. CASE comm[c]["recv"] = NoFd BY <1>1, <2>2 DEF IsNext, Expected
  <2>3. CASE comm[c]["recv"] # NoFd /\ Outstanding(c, "recv") = {}
    BY <1>1, <2>3 DEF IsNext, Expected
  <2>4. ASSUME NEW slot \in Outstanding(c, "recv") PROVE Expected(c) = {x}
    <3>1. Outstanding(c, "recv") = {slot} /\ comm[c]["recv"] # NoFd BY <2>1, IdleNext
    <3>2. x = PartAfter(requests[c]["recv"][slot]) BY <1>1 DEF IsNext
    <3> QED BY <3>1, <3>2 DEF Expected
  <2> QED BY <2>2, <2>3, <2>4
<1>5. ASSUME NEW i \in 1 .. Len(wire[c]) - 1 PROVE wire[c][i + 1] = PartAfter(wire[c][i])
  <2>1. i \in 1 .. Len(wire[c]) /\ i + 1 \in 1 .. Len(wire[c]) BY <1>2
  <2> QED BY <1>1, <2>1 DEF Chain, TokenAt
<1> QED BY <1>3, <1>4, <1>5

(* The stream of a connection is the ready byte and then whole messages,   *)
(* and the receiver always reads it where one of them begins or where it   *)
(* has stopped in one: accept takes the ready byte and no more, also when  *)
(* connect is through long before, every irecv starts at the first part of *)
(* a message, and every test goes on at the next one.                      *)
THEOREM StreamsStayAligned == Spec => []StreamAligned
<1>1. Init => StreamInv
  <2> SUFFICES ASSUME Init PROVE StreamInv OBVIOUS
  <2>1. /\ DOMAIN wire = Conns /\ \A c \in Conns : closed[c] = Sides
        /\ \A c \in Conns : comm[c]["recv"] = NoFd /\ listenComm[c] = NoListen
    BY DEF Init, InitConnection, NoComm, Sides
  <2> QED BY <2>1 DEF StreamInv, ClosedRecv, StreamOf, Sides
<1>2. ConnInv /\ EstablishedInv /\ ActiveInv /\ RingTypes /\ StreamInv /\ [Next]_vars => StreamInv'
  BY NextStream DEF PluginInv
<1>3. ConnInv /\ EstablishedInv /\ ActiveInv /\ RingTypes /\ StreamInv => StreamAligned
  BY StreamIsAligned DEF PluginInv
<1> QED BY <1>1, <1>2, <1>3, ConnectionInvariant, EstablishedInvariant, ActiveInvariant,
           RingInvariant, PTL DEF Spec
=============================================================================
