----------------------------- MODULE Connection -----------------------------
(***************************************************************************)
(* Connections of the plugin (net_dedup.c): listen, connect, accept and    *)
(* the three close calls, over a model of the sockets they use.  None of   *)
(* the calls blocks: NCCL calls connect and accept again until they give   *)
(* a comm, and the state between two calls is in the connect handle and    *)
(* in the listen comm.  A call returns a success that changes nothing      *)
(* (EAGAIN) as a stuttering step.                                          *)
(*                                                                         *)
(* A file descriptor is a small number that the process uses again after   *)
(* it was closed; the table active_fds of module Requests is indexed by    *)
(* it, which is why descriptors are modelled.                              *)
(***************************************************************************)
EXTENDS PluginInit, Integers, Sequences, FiniteSetsExt

CONSTANTS
  Conns,        \* connections
  Src, Dst,     \* the process that sends, the process that receives
  Lives,        \* how often each connection is set up
  NumFds        \* file descriptors a process can have open

ASSUME ConnectionAssumption ==
  /\ Src \in [Conns -> Procs] /\ Dst \in [Conns -> Procs]
  /\ Lives \in [Conns -> Nat] /\ NumFds \in Nat

VARIABLES
  open,         \* open file descriptors of each process
  leaked,       \* those among them that no comm and no handle names
  listenComm,   \* Dedup_Listen_Comm of each connection
  handle,       \* Dedup_Connect_Handle, in the sender's copy
  tcp,          \* the kernel's view: "none", "syn", "up" or "refused"
  wire,         \* bytes sent and not yet received
  comm,         \* the fd of the send comm and of the recv comm
  closed,       \* the ends that were closed
  failed,       \* the ends where a call returned ncclSystemError
  lives         \* how often a connection has been set up

connVars == <<open, leaked, listenComm, handle, tcp, wire, comm, closed,
              failed, lives>>

Fds == 0 .. NumFds - 1
NoFd == -1
Sides == {"send", "recv"}
Ready == 0           \* the ready byte
Proc(c, side) == IF side = "send" THEN Src[c] ELSE Dst[c]
Running(p) == init_pc[p] = "ready"

NoListen == [listenFd |-> NoFd, acceptedFd |-> NoFd]
NewHandle == [connectingFd |-> NoFd, in_progress |-> FALSE, is_connected |-> FALSE]
NoComm == [side \in Sides |-> NoFd]

InitConnection ==
  /\ open = [p \in Procs |-> {}]
  /\ leaked = [p \in Procs |-> {}]
  /\ listenComm = [c \in Conns |-> NoListen]
  /\ handle = [c \in Conns |-> NewHandle]
  /\ tcp = [c \in Conns |-> "none"]
  /\ wire = [c \in Conns |-> <<>>]
  /\ comm = [c \in Conns |-> NoComm]
  /\ closed = [c \in Conns |-> Sides]
  /\ failed = [c \in Conns |-> {}]
  /\ lives = [c \in Conns |-> 0]

(* socket and accept4 give the lowest descriptor that is not in use. *)
FreeFds(p) == Fds \ open[p]
NewFd(p) == Min(FreeFds(p))

(* The call returns ncclSystemError; NCCL does not call it again. *)
Fails(c, side) == failed' = [failed EXCEPT ![c] = @ \cup {side}]

(* NCCL gives the connection up: a call failed or the other end is gone. *)
GivenUp(c) == failed[c] # {} \/ \E side \in Sides : ~Running(Proc(c, side))

CanListen(c) ==
  /\ Running(Dst[c]) /\ Running(Src[c])
  /\ net_devices[Dst[c]] # <<>> /\ net_devices[Src[c]] # <<>>
  /\ lives[c] < Lives[c] /\ failed[c] = {} /\ closed[c] = Sides
  /\ listenComm[c] = NoListen

(* netDedup_listen: a new listen comm and a new handle, which NCCL carries *)
(* to the sender.                                                          *)
Listen(c) ==
  /\ CanListen(c) /\ FreeFds(Dst[c]) # {}
  /\ open' = [open EXCEPT ![Dst[c]] = @ \cup {NewFd(Dst[c])}]
  /\ listenComm' = [listenComm EXCEPT ![c] = [NoListen EXCEPT !.listenFd = NewFd(Dst[c])]]
  /\ handle' = [handle EXCEPT ![c] = NewHandle]
  /\ tcp' = [tcp EXCEPT ![c] = "none"]
  /\ wire' = [wire EXCEPT ![c] = <<>>]
  /\ closed' = [closed EXCEPT ![c] = {}]
  /\ lives' = [lives EXCEPT ![c] = @ + 1]
  /\ UNCHANGED <<leaked, comm, failed, faults>>

(* socket() fails, or a later call does and nobody closes the socket. *)
ListenFails(c) ==
  /\ CanListen(c)
  /\ Fails(c, "recv")
  /\ \/ FreeFds(Dst[c]) = {} /\ UNCHANGED <<open, leaked, faults>>
     \/ /\ FreeFds(Dst[c]) # {} /\ Fault
        /\ open' = [open EXCEPT ![Dst[c]] = @ \cup {NewFd(Dst[c])}]
        /\ leaked' = [leaked EXCEPT ![Dst[c]] = @ \cup {NewFd(Dst[c])}]
  /\ UNCHANGED <<listenComm, handle, tcp, wire, comm, closed, lives>>

CanConnect(c) ==
  /\ Running(Src[c]) /\ "send" \notin failed[c] \cup closed[c]
  /\ comm[c]["send"] = NoFd

(* netDedup_connect, first call: connect() is under way or already done. *)
ConnectStart(c) ==
  /\ CanConnect(c) /\ handle[c] = NewHandle /\ FreeFds(Src[c]) # {}
  /\ open' = [open EXCEPT ![Src[c]] = @ \cup {NewFd(Src[c])}]
  /\ \E now \in {TRUE, FALSE} :
       /\ now => listenComm[c] # NoListen
       /\ tcp' = [tcp EXCEPT ![c] = IF now THEN "up" ELSE "syn"]
       /\ handle' = [handle EXCEPT ![c] =
            [connectingFd |-> NewFd(Src[c]), in_progress |-> ~now, is_connected |-> now]]
  /\ UNCHANGED <<leaked, listenComm, wire, comm, closed, failed, lives, faults>>

(* socket(), setsockopt() or connect() fails; only the handle, which NCCL  *)
(* does not use again, names the socket then.                              *)
ConnectStartFails(c) ==
  /\ CanConnect(c) /\ handle[c] = NewHandle
  /\ Fails(c, "send")
  /\ \/ FreeFds(Src[c]) = {} /\ UNCHANGED <<open, leaked, faults>>
     \/ /\ FreeFds(Src[c]) # {} /\ Fault
        /\ open' = [open EXCEPT ![Src[c]] = @ \cup {NewFd(Src[c])}]
        /\ leaked' = [leaked EXCEPT ![Src[c]] = @ \cup {NewFd(Src[c])}]
  /\ UNCHANGED <<listenComm, handle, tcp, wire, comm, closed, lives>>

(* The kernels finish the handshake, or the listening socket is gone. *)
Handshake(c) ==
  /\ tcp[c] = "syn"
  /\ tcp' = [tcp EXCEPT ![c] = IF listenComm[c] # NoListen THEN "up" ELSE "refused"]
  /\ UNCHANGED <<open, leaked, listenComm, handle, wire, comm, closed, failed, lives, faults>>

(* Later calls: SO_ERROR is 0 as long as the attempt has not failed, also  *)
(* while it is under way, so is_connected may come early.                  *)
ConnectPoll(c) ==
  /\ CanConnect(c) /\ handle[c].in_progress /\ ~handle[c].is_connected
  /\ tcp[c] # "refused"
  /\ handle' = [handle EXCEPT ![c].is_connected = TRUE]
  /\ UNCHANGED <<open, leaked, listenComm, tcp, wire, comm, closed, failed, lives, faults>>

(* Mutant: the send comm is made without waiting for the ready byte to be  *)
(* taken by the kernel.                                                    *)
ConnectReadyUnsent(c) ==
  /\ CanConnect(c) /\ handle[c].is_connected
  /\ tcp[c] # "refused"
  /\ wire' = [wire EXCEPT ![c] = IF tcp[c] = "up" THEN Append(@, Ready) ELSE @]
  /\ comm' = [comm EXCEPT ![c]["send"] = handle[c].connectingFd]
  /\ UNCHANGED <<open, leaked, listenComm, handle, tcp, closed, failed, lives, faults>>

(* Mutant: the send comm is made and no ready byte is sent. *)
ConnectReadySilent(c) ==
  /\ CanConnect(c) /\ handle[c].is_connected
  /\ tcp[c] = "up"
  /\ comm' = [comm EXCEPT ![c]["send"] = handle[c].connectingFd]
  /\ UNCHANGED <<open, leaked, listenComm, handle, tcp, wire, closed, failed, lives, faults>>

(* is_connected: the ready byte is sent (EAGAIN while the handshake is     *)
(* under way), then there is a send comm on the same descriptor.           *)
ConnectReady(c) ==
  /\ CanConnect(c) /\ handle[c].is_connected
  /\ tcp[c] = "up"
  /\ wire' = [wire EXCEPT ![c] = Append(@, Ready)]
  /\ comm' = [comm EXCEPT ![c]["send"] = handle[c].connectingFd]
  /\ UNCHANGED <<open, leaked, listenComm, handle, tcp, closed, failed, lives, faults>>

(* getsockopt() or send() reports that the attempt failed, or that the     *)
(* other end is gone.                                                      *)
ConnectFails(c) ==
  /\ CanConnect(c) /\ handle[c] # NewHandle
  /\ tcp[c] = "refused" \/ (handle[c].is_connected /\ "recv" \in closed[c])
  /\ Fails(c, "send")
  /\ leaked' = [leaked EXCEPT ![Src[c]] = @ \cup {handle[c].connectingFd}]
  /\ UNCHANGED <<open, listenComm, handle, tcp, wire, comm, closed, lives, faults>>

CanAccept(c) ==
  /\ Running(Dst[c]) /\ "recv" \notin failed[c]
  /\ listenComm[c] # NoListen /\ comm[c]["recv"] = NoFd

(* netDedup_accept, until a connection is there: accept4(). *)
AcceptConnection(c) ==
  /\ CanAccept(c) /\ listenComm[c].acceptedFd = NoFd
  /\ tcp[c] = "up"
  /\ \/ /\ FreeFds(Dst[c]) # {}
        /\ open' = [open EXCEPT ![Dst[c]] = @ \cup {NewFd(Dst[c])}]
        /\ listenComm' = [listenComm EXCEPT ![c].acceptedFd = NewFd(Dst[c])]
        /\ UNCHANGED failed
     \/ /\ FreeFds(Dst[c]) = {}
        /\ Fails(c, "recv")
        /\ UNCHANGED <<open, listenComm>>
  /\ UNCHANGED <<leaked, handle, tcp, wire, comm, closed, lives, faults>>

(* Mutant: accept makes the recv comm without waiting for the ready byte. *)
AcceptReadyAtOnce(c) ==
  /\ CanAccept(c) /\ listenComm[c].acceptedFd # NoFd
  /\ wire' = [wire EXCEPT ![c] = IF @ # <<>> THEN Tail(@) ELSE @]
  /\ comm' = [comm EXCEPT ![c]["recv"] = listenComm[c].acceptedFd]
  /\ UNCHANGED <<open, leaked, listenComm, handle, tcp, closed, failed, lives, faults>>

(* Then recv() of the ready byte.  At the end of the stream it returns 0,  *)
(* which counts as the byte; every error counts as EAGAIN.                 *)
AcceptReady(c) ==
  /\ CanAccept(c) /\ listenComm[c].acceptedFd # NoFd
  /\ wire[c] # <<>> \/ "send" \in closed[c]
  /\ wire' = [wire EXCEPT ![c] = IF @ # <<>> THEN Tail(@) ELSE @]
  /\ comm' = [comm EXCEPT ![c]["recv"] = listenComm[c].acceptedFd]
  /\ UNCHANGED <<open, leaked, listenComm, handle, tcp, closed, failed, lives, faults>>

(* netDedup_closeListen, once the recv comm is there or the connection is  *)
(* given up.  It closes listenFd only.                                     *)
CloseListen(c) ==
  LET half == IF comm[c]["recv"] = NoFd THEN {listenComm[c].acceptedFd} \ {NoFd} ELSE {}
  IN
  /\ Running(Dst[c]) /\ listenComm[c] # NoListen
  /\ comm[c]["recv"] # NoFd \/ GivenUp(c)
  /\ open' = [open EXCEPT ![Dst[c]] = @ \ {listenComm[c].listenFd}]
  /\ leaked' = [leaked EXCEPT ![Dst[c]] = @ \cup half]
  /\ listenComm' = [listenComm EXCEPT ![c] = NoListen]
  /\ closed' = [closed EXCEPT ![c] = IF comm[c]["recv"] = NoFd THEN @ \cup {"recv"} ELSE @]
  /\ UNCHANGED <<handle, tcp, wire, comm, failed, lives, faults>>

(* Mutant: the comm is freed and its socket is not closed. *)
CloseCommKeepsFd(c, side) ==
  /\ Running(Proc(c, side)) /\ comm[c][side] # NoFd
  /\ side = "recv" => listenComm[c] = NoListen
  /\ comm' = [comm EXCEPT ![c][side] = NoFd]
  /\ closed' = [closed EXCEPT ![c] = @ \cup {side}]
  /\ UNCHANGED <<open, leaked, listenComm, handle, tcp, wire, failed, lives>>

(* netDedup_closeSend and netDedup_closeRecv. *)
CloseComm(c, side) ==
  /\ Running(Proc(c, side)) /\ comm[c][side] # NoFd
  /\ side = "recv" => listenComm[c] = NoListen
  /\ open' = [open EXCEPT ![Proc(c, side)] = @ \ {comm[c][side]}]
  /\ comm' = [comm EXCEPT ![c][side] = NoFd]
  /\ closed' = [closed EXCEPT ![c] = @ \cup {side}]
  /\ UNCHANGED <<leaked, listenComm, handle, tcp, wire, failed, lives>>

(* The kernel closes what a killed process had open. *)
SocketsOfKilled(p) ==
  LET mine(c) == {side \in Sides : Proc(c, side) = p}
  IN
  /\ open' = [open EXCEPT ![p] = {}]
  /\ leaked' = [leaked EXCEPT ![p] = {}]
  /\ comm' = [c \in Conns |-> [side \in Sides |-> IF side \in mine(c) THEN NoFd ELSE comm[c][side]]]
  /\ closed' = [c \in Conns |-> closed[c] \cup mine(c)]
  /\ listenComm' = [c \in Conns |-> IF Dst[c] = p THEN NoListen ELSE listenComm[c]]
  /\ UNCHANGED <<handle, tcp, wire, failed, lives>>

Establish(c) ==
  \/ ConnectStart(c) \/ Handshake(c) \/ ConnectPoll(c) \/ ConnectReady(c)
  \/ AcceptConnection(c) \/ AcceptReady(c) \/ CloseListen(c) \/ ConnectFails(c)

EstablishFails(c) == ListenFails(c) \/ ConnectStartFails(c)

-----------------------------------------------------------------------------
(* Properties.                                                             *)

ConnTypeOK ==
  /\ open \in [Procs -> SUBSET Fds] /\ leaked \in [Procs -> SUBSET Fds]
  /\ listenComm \in [Conns -> [listenFd : Fds \cup {NoFd}, acceptedFd : Fds \cup {NoFd}]]
  /\ handle \in [Conns -> [connectingFd : Fds \cup {NoFd}, in_progress : BOOLEAN, is_connected : BOOLEAN]]
  /\ tcp \in [Conns -> {"none", "syn", "up", "refused"}]
  /\ comm \in [Conns -> [Sides -> Fds \cup {NoFd}]]
  /\ closed \in [Conns -> SUBSET Sides] /\ failed \in [Conns -> SUBSET Sides]

(* The descriptors that the data of process p name, as <<what, c>>: the    *)
(* accepted socket belongs to the recv comm once there is one, the         *)
(* connecting socket to the send comm.                                     *)
Kinds == Sides \cup {"listen", "accepted", "connecting"}

FdOf(kind, c) ==
  CASE kind = "listen" -> listenComm[c].listenFd
    [] kind = "accepted" ->
         IF comm[c]["recv"] = NoFd THEN listenComm[c].acceptedFd ELSE NoFd
    [] kind = "connecting" ->
         IF comm[c]["send"] = NoFd /\ "send" \notin failed[c] \cup closed[c]
         THEN handle[c].connectingFd ELSE NoFd
    [] OTHER -> comm[c][kind]

ProcOf(kind, c) == IF kind \in {"send", "connecting"} THEN Src[c] ELSE Dst[c]

Owned(p) == {o \in Kinds \X Conns : ProcOf(o[1], o[2]) = p /\ FdOf(o[1], o[2]) # NoFd}

(* Every open descriptor has exactly one owner, every owner's descriptor   *)
(* is open, and a descriptor is without an owner only when a call failed   *)
(* or a half-accepted connection was given up: no connection ever reads or *)
(* closes the socket of another one, however descriptors are used again.   *)
FdOwnership ==
  \A p \in Procs :
    /\ {FdOf(o[1], o[2]) : o \in Owned(p)} \cup leaked[p] = open[p]
    /\ \A o1, o2 \in Owned(p) : FdOf(o1[1], o1[2]) = FdOf(o2[1], o2[2]) => o1 = o2
    /\ \A o \in Owned(p) : FdOf(o[1], o[2]) \notin leaked[p]

(* A send comm is made only over a connection that both kernels have       *)
(* established, although connect takes SO_ERROR = 0 for success while the  *)
(* handshake is still under way.                                           *)
CommOverEstablished ==
  \A c \in Conns : comm[c]["send"] # NoFd => tcp[c] = "up"

=============================================================================
