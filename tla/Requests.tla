------------------------------ MODULE Requests ------------------------------
(***************************************************************************)
(* Requests of the plugin (net_dedup.c): isend, irecv, test, the table     *)
(* active_fds, the ring of request slots of a comm, and the dump files.    *)
(*                                                                         *)
(* Every comm is driven by a thread of NCCL; the threads of one process    *)
(* share active_fds, the dump files and dump_lock.  isend is split where   *)
(* another thread can come in between: at dump_lock and at the two writes. *)
(* What process_send and process_recv exchange is the subject of module    *)
(* DedupTransfer; here a message is parts 1, 2, .., MsgParts, of which a    *)
(* call moves any number.                                                  *)
(***************************************************************************)
EXTENDS Connection, SequencesExt

CONSTANTS
  MaxRequests,   \* max_requests_per_comm (NCCL_NET_MAX_REQUESTS)
  MaxMsgs,       \* messages of a connection per life
  MsgParts       \* parts of a message

ASSUME RequestsAssumption ==
  MaxRequests \in Nat \ {0} /\ MaxMsgs \in Nat /\ MsgParts \in Nat \ {0}

VARIABLES
  active_fds,    \* the descriptors marked in active_fds, per process
  stale,         \* those whose comm was closed with a request under way
  requests,      \* per connection and side: slot -> parts moved so far
  take_req_ind,  \* next slot of the ring, per connection and side
  posted,        \* requests posted in this life, per connection and side
  isend_pc,      \* where the sending thread is in isend
  dump_lock,     \* "free", "held", or "kept" by a call that returned
  dump_bytes,    \* per process: the messages in its bytes file, ...
  dump_sizes,    \* ... and those whose sizes are in its sizes file
  aborted        \* an end was closed before it had done all its requests

reqVars == <<active_fds, stale, requests, take_req_ind, posted, isend_pc,
             dump_lock, dump_bytes, dump_sizes, aborted>>

Slots == 0 .. MaxRequests - 1
Moves == 0 .. MsgParts
NoRequests == [slot \in {} |-> 0]
PerSide(v) == [c \in Conns |-> [side \in Sides |-> v]]

InitRequests ==
  /\ active_fds = [p \in Procs |-> {}]
  /\ stale = [p \in Procs |-> {}]
  /\ requests = PerSide(NoRequests)
  /\ take_req_ind = PerSide(0)
  /\ posted = PerSide(0)
  /\ isend_pc = [c \in Conns |-> "idle"]
  /\ dump_lock = [p \in Procs |-> "free"]
  /\ dump_bytes = [p \in Procs |-> <<>>]
  /\ dump_sizes = [p \in Procs |-> <<>>]
  /\ aborted = [c \in Conns |-> FALSE]

Fd(c, side) == comm[c][side]
Outstanding(c, side) == DOMAIN requests[c][side]

(* NCCL posts at most MaxRequests requests on a comm. *)
CanPost(c, side) ==
  /\ Running(Proc(c, side)) /\ comm[c][side] # NoFd /\ side \notin failed[c]
  /\ posted[c][side] < MaxMsgs
  /\ Cardinality(Outstanding(c, side)) < MaxRequests

(* Mutant: active_fds is not looked at. *)
NotActiveIgnored(c, side) == TRUE

(* isend and irecv give no request while the descriptor is marked. *)
NotActive(c, side) == Fd(c, side) \notin active_fds[Proc(c, side)]

(* Mutant: the ring index is not wrapped around. *)
TakeSlotNoWrap(c, side) ==
  /\ posted' = [posted EXCEPT ![c][side] = @ + 1]
  /\ take_req_ind' = [take_req_ind EXCEPT ![c][side] = @ + 1]

TakeSlot(c, side) ==
  /\ posted' = [posted EXCEPT ![c][side] = @ + 1]
  /\ take_req_ind' = [take_req_ind EXCEPT ![c][side] = (@ + 1) % MaxRequests]

(* The slot that TakeSlot took, when the call uses it. *)
TakenSlot(c, side) == (take_req_ind[c][side] + MaxRequests - 1) % MaxRequests

SetRequest(c, side, slot, moved) ==
  requests' = [requests EXCEPT ![c][side] =
    [s \in DOMAIN @ \cup {slot} |-> IF s = slot THEN moved ELSE @[s]]]

(* What a call of process_send can move: n parts onto the wire. *)
SendParts(c, done, n) ==
  wire' = [wire EXCEPT ![c] = @ \o [i \in 1 .. n |-> done + i]]

(* What a call of process_recv can move: n parts that have arrived; at the *)
(* end of the stream recv() returns 0, which is taken for "nothing yet".   *)
RecvParts(c, n) ==
  /\ n <= Len(wire[c])
  /\ wire' = [wire EXCEPT ![c] = SubSeq(@, n + 1, Len(@))]

MoveParts(c, side, done, n) ==
  IF side = "send" THEN SendParts(c, done, n) ELSE RecvParts(c, n)

(* netDedup_isend: check active_fds and take a slot. *)
ISendTake(c) ==
  /\ CanPost(c, "send") /\ isend_pc[c] = "idle"
  /\ NotActive(c, "send")
  /\ TakeSlot(c, "send")
  /\ isend_pc' = [isend_pc EXCEPT ![c] = "dump"]
  /\ UNCHANGED <<connVars, faults, active_fds, stale, requests, dump_lock, dump_bytes, dump_sizes, aborted>>

(* dump_send: pthread_mutex_lock.  (An empty message writes no bytes.)     *)
DumpLock(c) ==
  /\ isend_pc[c] = "dump" /\ dump_lock[Src[c]] = "free"
  /\ dump_lock' = [dump_lock EXCEPT ![Src[c]] = "held"]
  /\ isend_pc' = [isend_pc EXCEPT ![c] = "bytes"]
  /\ UNCHANGED <<connVars, faults, active_fds, stale, requests, take_req_ind, posted, dump_bytes, dump_sizes, aborted>>

(* Mutant: the failing call unlocks dump_lock. *)
DumpFailsReleases(c) ==
  /\ isend_pc[c] \in {"bytes", "size"}
  /\ Fault
  /\ Fails(c, "send")
  /\ dump_lock' = [dump_lock EXCEPT ![Src[c]] = "free"]
  /\ dump_bytes' = IF isend_pc[c] = "bytes"
                   THEN [dump_bytes EXCEPT ![Src[c]] = Append(@, c)] ELSE dump_bytes
  /\ isend_pc' = [isend_pc EXCEPT ![c] = "idle"]
  /\ UNCHANGED <<open, leaked, listenComm, handle, tcp, wire, comm, closed, lives,
                 active_fds, stale, requests, take_req_ind, posted, dump_sizes, aborted>>

(* A write fails: isend returns ncclSystemError, dump_lock stays locked,   *)
(* and of the bytes some may have been written.                            *)
DumpFails(c) ==
  /\ isend_pc[c] \in {"bytes", "size"}
  /\ Fault
  /\ Fails(c, "send")
  /\ dump_lock' = [dump_lock EXCEPT ![Src[c]] = "kept"]
  /\ dump_bytes' = IF isend_pc[c] = "bytes"
                   THEN [dump_bytes EXCEPT ![Src[c]] = Append(@, c)] ELSE dump_bytes
  /\ isend_pc' = [isend_pc EXCEPT ![c] = "idle"]
  /\ UNCHANGED <<open, leaked, listenComm, handle, tcp, wire, comm, closed, lives,
                 active_fds, stale, requests, take_req_ind, posted, dump_sizes, aborted>>

DumpBytes(c) ==
  /\ isend_pc[c] = "bytes"
  /\ dump_bytes' = [dump_bytes EXCEPT ![Src[c]] = Append(@, c)]
  /\ isend_pc' = [isend_pc EXCEPT ![c] = "size"]
  /\ UNCHANGED <<connVars, faults, active_fds, stale, requests, take_req_ind, posted, dump_lock, dump_sizes, aborted>>

DumpSize(c) ==
  /\ isend_pc[c] = "size"
  /\ dump_sizes' = [dump_sizes EXCEPT ![Src[c]] = Append(@, c)]
  /\ dump_lock' = [dump_lock EXCEPT ![Src[c]] = "free"]
  /\ isend_pc' = [isend_pc EXCEPT ![c] = "process"]
  /\ UNCHANGED <<connVars, faults, active_fds, stale, requests, take_req_ind, posted, dump_bytes, aborted>>

(* The rest of isend: process_send, then the descriptor is marked. *)
ISendProcess(c) ==
  /\ isend_pc[c] = "process"
  /\ \E n \in Moves :
       /\ SendParts(c, 0, n)
       /\ SetRequest(c, "send", TakenSlot(c, "send"), n)
  /\ active_fds' = [active_fds EXCEPT ![Src[c]] = @ \cup {Fd(c, "send")}]
  /\ isend_pc' = [isend_pc EXCEPT ![c] = "idle"]
  /\ UNCHANGED <<open, leaked, listenComm, handle, tcp, comm, closed, failed, lives, faults,
                 stale, take_req_ind, posted, dump_lock, dump_bytes, dump_sizes, aborted>>

(* process_send reports an error: no request, and the descriptor stays     *)
(* unmarked.                                                               *)
ISendFails(c) ==
  /\ isend_pc[c] = "process"
  /\ Fault
  /\ Fails(c, "send")
  /\ isend_pc' = [isend_pc EXCEPT ![c] = "idle"]
  /\ UNCHANGED <<open, leaked, listenComm, handle, tcp, wire, comm, closed, lives,
                 active_fds, stale, requests, take_req_ind, posted, dump_lock, dump_bytes, dump_sizes, aborted>>

(* netDedup_irecv.  Nothing in it waits for another thread. *)
IRecv(c) ==
  /\ CanPost(c, "recv")
  /\ NotActive(c, "recv")
  /\ TakeSlot(c, "recv")
  /\ \E n \in Moves :
       /\ RecvParts(c, n)
       /\ SetRequest(c, "recv", take_req_ind[c]["recv"], n)
  /\ active_fds' = [active_fds EXCEPT ![Dst[c]] = @ \cup {Fd(c, "recv")}]
  /\ UNCHANGED <<open, leaked, listenComm, handle, tcp, comm, closed, failed, lives, faults,
                 stale, isend_pc, dump_lock, dump_bytes, dump_sizes, aborted>>

IRecvFails(c) ==
  /\ CanPost(c, "recv")
  /\ NotActive(c, "recv")
  /\ Fault
  /\ Fails(c, "recv")
  /\ TakeSlot(c, "recv")
  /\ UNCHANGED <<open, leaked, listenComm, handle, tcp, wire, comm, closed, lives,
                 active_fds, stale, requests, isend_pc, dump_lock, dump_bytes, dump_sizes, aborted>>

(* Mutant: the descriptor of a complete request stays marked. *)
TestKeepsMark(c, side) ==
  /\ Running(Proc(c, side)) /\ (side = "send" => isend_pc[c] = "idle")
  /\ \E slot \in Outstanding(c, side), n \in Moves :
       LET done == requests[c][side][slot] IN
       /\ done + n <= MsgParts /\ (n > 0 \/ done = MsgParts)
       /\ MoveParts(c, side, done, n)
       /\ IF done + n = MsgParts
          THEN requests' = [requests EXCEPT ![c][side] = [s \in DOMAIN @ \ {slot} |-> @[s]]]
          ELSE SetRequest(c, side, slot, done + n)
  /\ UNCHANGED <<open, leaked, listenComm, handle, tcp, comm, closed, failed, lives, faults,
                 active_fds, stale, take_req_ind, posted, isend_pc, dump_lock, dump_bytes,
                 dump_sizes, aborted>>

(* netDedup_test: some more of the message; a complete request is removed  *)
(* and its descriptor unmarked.  (A request that process_send or           *)
(* process_recv fails on ends the process: Kill in module Plugin.)         *)
Test(c, side) ==
  /\ Running(Proc(c, side)) /\ (side = "send" => isend_pc[c] = "idle")
  /\ \E slot \in Outstanding(c, side), n \in Moves :
       LET done == requests[c][side][slot] IN
       /\ done + n <= MsgParts /\ (n > 0 \/ done = MsgParts)
       /\ MoveParts(c, side, done, n)
       /\ IF done + n = MsgParts
          THEN /\ requests' = [requests EXCEPT ![c][side] = [s \in DOMAIN @ \ {slot} |-> @[s]]]
               /\ active_fds' = [active_fds EXCEPT ![Proc(c, side)] = @ \ {Fd(c, side)}]
          ELSE SetRequest(c, side, slot, done + n) /\ UNCHANGED active_fds
  /\ UNCHANGED <<open, leaked, listenComm, handle, tcp, comm, closed, failed, lives, faults,
                 stale, take_req_ind, posted, isend_pc, dump_lock, dump_bytes, dump_sizes, aborted>>

(* NCCL closes a comm when it has posted all its requests and every one is *)
(* complete; it may close it earlier when it gives the connection up.      *)
AllDone(c, side) == posted[c][side] = MaxMsgs /\ Outstanding(c, side) = {}

(* netDedup_closeSend and netDedup_closeRecv: the requests of the comm are *)
(* unmapped with it, active_fds is left as it is.                          *)
Close(c, side) ==
  LET p == Proc(c, side) IN
  /\ side = "send" => isend_pc[c] = "idle"
  /\ CloseComm(c, side)
  /\ \/ (AllDone(c, side) \/ GivenUp(c)) /\ UNCHANGED faults
     \/ Fault
  /\ stale' = [stale EXCEPT ![p] = @ \cup ({Fd(c, side)} \cap active_fds[p])]
  /\ requests' = [requests EXCEPT ![c][side] = NoRequests]
  /\ take_req_ind' = [take_req_ind EXCEPT ![c][side] = 0]
  /\ posted' = [posted EXCEPT ![c][side] = 0]
  /\ aborted' = [aborted EXCEPT ![c] = @ \/ ~AllDone(c, side)]
  /\ UNCHANGED <<active_fds, isend_pc, dump_lock, dump_bytes, dump_sizes>>

(* What a process that is killed takes with it.  dump_send writes through  *)
(* stdio and nothing flushes: of each file a prefix of its own is left.    *)
RequestsOfKilled(p) ==
  LET mine(c, side) == Proc(c, side) = p
      reset(f, v) == [c \in Conns |-> [side \in Sides |-> IF mine(c, side) THEN v ELSE f[c][side]]]
  IN
  /\ active_fds' = [active_fds EXCEPT ![p] = {}]
  /\ stale' = [stale EXCEPT ![p] = {}]
  /\ requests' = reset(requests, NoRequests)
  /\ take_req_ind' = reset(take_req_ind, 0)
  /\ posted' = reset(posted, 0)
  /\ isend_pc' = [c \in Conns |-> IF Src[c] = p THEN "idle" ELSE isend_pc[c]]
  /\ dump_lock' = [dump_lock EXCEPT ![p] = "free"]
  /\ \E b \in 0 .. Len(dump_bytes[p]), s \in 0 .. Len(dump_sizes[p]) :
       /\ dump_bytes' = [dump_bytes EXCEPT ![p] = SubSeq(@, 1, b)]
       /\ dump_sizes' = [dump_sizes EXCEPT ![p] = SubSeq(@, 1, s)]
  /\ UNCHANGED aborted

(* A new connection starts with no end given up. *)
RequestsAtListen(c) ==
  /\ aborted' = [aborted EXCEPT ![c] = FALSE]
  /\ UNCHANGED <<active_fds, stale, requests, take_req_ind, posted, isend_pc, dump_lock,
                 dump_bytes, dump_sizes>>

ISend(c) == ISendTake(c) \/ DumpLock(c) \/ DumpBytes(c) \/ DumpSize(c) \/ ISendProcess(c)

RequestFails(c) == DumpFails(c) \/ ISendFails(c) \/ IRecvFails(c)

-----------------------------------------------------------------------------
(* Properties.                                                             *)

ReqTypeOK ==
  /\ active_fds \in [Procs -> SUBSET Fds] /\ stale \in [Procs -> SUBSET Fds]
  /\ \A c \in Conns, side \in Sides :
       /\ Outstanding(c, side) \subseteq Slots
       /\ \A slot \in Outstanding(c, side) : requests[c][side][slot] \in Moves
  /\ take_req_ind \in [Conns -> [Sides -> Slots]]
  /\ posted \in [Conns -> [Sides -> 0 .. MaxMsgs]]
  /\ isend_pc \in [Conns -> {"idle", "dump", "bytes", "size", "process"}]
  /\ dump_lock \in [Procs -> {"free", "held", "kept"}]

(* A descriptor is marked exactly when the comm that has it now has a      *)
(* request under way, and then it has one request only.  The one way to a  *)
(* wrong mark: a comm closed with a request under way leaves its mark to   *)
(* the next comm that gets the same descriptor.                            *)
ActiveExact ==
  \A c \in Conns, side \in Sides :
    LET p == Proc(c, side) IN
    comm[c][side] # NoFd /\ comm[c][side] \notin stale[p] =>
      /\ (comm[c][side] \in active_fds[p]) <=> (Outstanding(c, side) # {})
      /\ Cardinality(Outstanding(c, side)) <= 1

(* The stream of a connection is the ready byte and then whole messages:   *)
(* accept takes exactly the ready byte, and every irecv starts at a        *)
(* message's first part.                                                   *)
PartAfter(n) == (n % MsgParts) + 1

Expected(c) ==
  IF comm[c]["recv"] = NoFd THEN {Ready}
  ELSE IF Outstanding(c, "recv") = {} THEN {1}
  ELSE {PartAfter(requests[c]["recv"][slot]) : slot \in Outstanding(c, "recv")}

StreamAligned ==
  \A c \in Conns :
    Running(Dst[c]) /\ wire[c] # <<>> /\ "recv" \notin closed[c] =>
      /\ Expected(c) = {wire[c][1]}
      /\ \A i \in 1 .. Len(wire[c]) - 1 : wire[c][i + 1] = PartAfter(wire[c][i])

(* The sizes file of a process splits its bytes file into the messages it  *)
(* sent: the k-th size is that of the k-th message, also in what a kill    *)
(* leaves of the two files.  While the process runs, its writes are at     *)
(* most one message ahead in the bytes file, and only while dump_lock is   *)
(* taken; a failed write keeps this true only because dump_lock is then    *)
(* never released, so nothing is written after it.  After a kill either    *)
(* file may be any number of messages ahead.                               *)
DumpInStep ==
  \A p \in Procs :
    LET bytes == dump_bytes[p]
        sizes == dump_sizes[p]
    IN
    /\ \A k \in 1 .. Len(sizes) : k <= Len(bytes) => sizes[k] = bytes[k]
    /\ Running(p) =>
         \/ Len(bytes) = Len(sizes)
         \/ Len(bytes) = Len(sizes) + 1 /\ dump_lock[p] # "free"

=============================================================================
