------------------------------- MODULE Plugin -------------------------------
(***************************************************************************)
(* The plugin as NCCL uses it: every process initialises it, then sets up  *)
(* connections, sends and receives over them and closes them, the threads  *)
(* of all connections and processes interleaved.  A process can be killed  *)
(* at any time: from outside, or by its own test(), which ends the process *)
(* when a request fails.                                                   *)
(***************************************************************************)
EXTENDS Requests

vars == <<initVars, connVars, reqVars, faults>>

Init == InitInit /\ InitConnection /\ InitRequests

(* kill(0, SIGKILL) in test, or a kill from outside, once initialised. *)
Kill(p) ==
  /\ Fault
  /\ Running(p)
  /\ Become(p, "failed")
  /\ SocketsOfKilled(p)
  /\ RequestsOfKilled(p)
  /\ UNCHANGED <<interfaces, net_devices, shm, cache_parts>>

Starting(p) == InitNext(p) /\ UNCHANGED <<connVars, reqVars>>

Listening(c) == Listen(c) /\ RequestsAtListen(c) /\ UNCHANGED initVars

Connecting(c) == (Establish(c) \/ EstablishFails(c)) /\ UNCHANGED <<initVars, reqVars>>

Transferring(c) ==
  /\ \/ ISend(c) \/ IRecv(c) \/ RequestFails(c)
     \/ \E side \in Sides : Test(c, side) \/ Close(c, side)
  /\ UNCHANGED initVars

Next ==
  \/ \E p \in Procs : Starting(p) \/ Kill(p)
  \/ \E c \in Conns : Listening(c) \/ Connecting(c) \/ Transferring(c)

(* What the sending and the receiving thread of a connection do next, as   *)
(* long as nothing fails and they do not close.                            *)
SenderStep(c) ==
  \/ (ConnectStart(c) \/ ConnectPoll(c) \/ ConnectReady(c)) /\ UNCHANGED <<initVars, reqVars>>
  \/ (ISend(c) \/ Test(c, "send")) /\ UNCHANGED initVars

ReceiverStep(c) ==
  \/ Listening(c)
  \/ (AcceptConnection(c) \/ AcceptReady(c)) /\ UNCHANGED <<initVars, reqVars>>
  \/ (IRecv(c) \/ Test(c, "recv")) /\ UNCHANGED initVars

(* NCCL calls connect, accept, isend, irecv and test again until they are  *)
(* done, a thread that waits for dump_lock gets it when it is released     *)
(* again and again, and the kernels finish a handshake.  Failures, kills   *)
(* and closes need not happen.                                             *)
Fairness ==
  /\ \A p \in Procs : WF_vars(InitStep(p) /\ UNCHANGED <<connVars, reqVars>>)
  /\ \A c \in Conns :
       /\ WF_vars(SenderStep(c))
       /\ WF_vars(ReceiverStep(c))
       /\ WF_vars(Handshake(c) /\ UNCHANGED <<initVars, reqVars>>)
       /\ SF_vars(DumpLock(c) /\ UNCHANGED initVars)

Spec == Init /\ [][Next]_vars

FairSpec == Spec /\ Fairness

-----------------------------------------------------------------------------
(* Properties.                                                             *)

TypeOK == InitTypeOK /\ ConnTypeOK /\ ReqTypeOK

(* What stops a connection for good: a call failed, an end was closed      *)
(* before it was done, or its process is gone.                             *)
Broken(c) ==
  \/ failed[c] # {} \/ aborted[c]
  \/ \E side \in Sides : ~Running(Proc(c, side))

(* A connection that is being set up comes to have both comms, for every   *)
(* order of the calls of its two ends, unless it breaks: neither end waits *)
(* for the other one for ever.                                             *)
EstablishmentTerminates ==
  \A c \in Conns, side \in Sides :
    listenComm[c] # NoListen ~> comm[c][side] # NoFd \/ side \in closed[c] \/ Broken(c)

(* What makes isend or irecv never give a request again: a mark that a     *)
(* comm inherited with its descriptor, or dump_lock kept by a failed write *)
(* on another connection of the process.                                   *)
Stuck(c) ==
  \/ dump_lock[Src[c]] = "kept"
  \/ \E side \in Sides : comm[c][side] \in stale[Proc(c, side)]

(* Both ends of an established connection post all their requests and see  *)
(* every one complete, also when the sender has closed its end before the  *)
(* receiver has read everything, unless the connection breaks or is stuck. *)
MessagesComplete ==
  \A c \in Conns, side \in Sides :
    comm[c][side] # NoFd ~>
      AllDone(c, side) \/ side \in closed[c] \/ Broken(c) \/ Stuck(c)

=============================================================================
