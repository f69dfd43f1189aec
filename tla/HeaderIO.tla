------------------------------ MODULE HeaderIO ------------------------------
(***************************************************************************)
(* How net_dedup.c moves one header over a non-blocking socket, byte by    *)
(* byte: the six process_..._header functions share one shape, and differ  *)
(* in the pointer they resume at after a partial send() or recv().         *)
(*                                                                         *)
(* Memory is counted from the first byte of the header object; what lies   *)
(* behind the header are later members of the request.  The connection may *)
(* be reset (calls fail with ECONNRESET) or closed by the peer's kernel    *)
(* (recv() returns 0 once everything is read).                             *)
(***************************************************************************)
EXTENDS Integers, Sequences

CONSTANTS
  HeaderLen,      \* sizeof the header
  CastToVoid,     \* is the header's address cast to a void pointer before +?
  MaxFaults       \* bound on connection failures: 0 or 1

HeaderAssumption ==
  /\ HeaderLen \in Nat \ {0}
  /\ CastToVoid \in BOOLEAN
  /\ MaxFaults \in Nat

(* The header's address as a void pointer, plus prev: prev bytes further. *)
VoidPtrAdd(prev) == prev

(* &header + prev: prev objects further. *)
TypedPtrAdd(prev) == prev * HeaderLen

CurHeader(prev) == IF CastToVoid THEN VoidPtrAdd(prev) ELSE TypedPtrAdd(prev)

Memory == 0 .. HeaderLen * HeaderLen
HeaderBytes == 0 .. HeaderLen - 1

(* Byte j of the sender's request, and of the receiver's after memset. *)
SenderByte(j) == IF j < HeaderLen THEN <<"header", j>> ELSE <<"member", j>>
ZeroByte == <<"zero", 0>>

VARIABLES
  stream,       \* bytes on the way
  sent_off,     \* send_header_offset
  recv_off,     \* recv_header_offset
  mem,          \* the receiver's request, from the header on
  ret,          \* what each end's function returned last: 0, 1 or -1
  errno,        \* of each end
  conn,         \* "up", "reset" or "closed"
  faults

vars == <<stream, sent_off, recv_off, mem, ret, errno, conn, faults>>

Init ==
  /\ stream = <<>>
  /\ sent_off = 0
  /\ recv_off = 0
  /\ mem = [j \in Memory |-> ZeroByte]
  /\ ret = [s |-> 0, r |-> 0]
  /\ errno = [s |-> 0, r |-> 0]
  /\ conn = "up"
  /\ faults = 0

(* A return of 1 ends the stage; -1 ends the request. *)
Running(e) == ret[e] = 0

(* process_send_header: send() takes n of the bytes that remain. *)
SendHeaderBytes(n) ==
  /\ Running("s")
  /\ conn = "up"
  /\ n <= HeaderLen - sent_off
  /\ stream' = stream \o [k \in 1 .. n |-> SenderByte(CurHeader(sent_off) + k - 1)]
  /\ sent_off' = sent_off + n
  /\ ret' = [ret EXCEPT !.s = IF n < HeaderLen - sent_off THEN 0 ELSE 1]
  /\ UNCHANGED <<recv_off, mem, errno, conn, faults>>

(* process_recv_header: recv() returns n bytes. *)
RecvHeaderBytes(n) ==
  /\ Running("r")
  /\ conn # "reset"
  /\ n <= HeaderLen - recv_off /\ n <= Len(stream)
  /\ mem' = [j \in Memory |->
       LET k == j - CurHeader(recv_off) + 1 IN
       IF k \in 1 .. n THEN stream[k] ELSE mem[j]]
  /\ stream' = SubSeq(stream, n + 1, Len(stream))
  /\ recv_off' = recv_off + n
  /\ ret' = [ret EXCEPT !.r = IF n < HeaderLen - recv_off THEN 0 ELSE 1]
  /\ UNCHANGED <<sent_off, errno, conn, faults>>

EAGAIN == 11

(* A call on a reset connection returns -1 with errno ECONNRESET, and the  *)
(* function tests (errno = EAGAIN) || (errno == EWOULDBLOCK): its first    *)
(* half is an assignment, and true because EAGAIN is not 0.                *)
CallFails(e) ==
  /\ Running(e)
  /\ conn = "reset"
  /\ errno' = [errno EXCEPT ![e] = EAGAIN]
  /\ ret' = [ret EXCEPT ![e] = IF errno'[e] # 0 THEN 0 ELSE -1]
  /\ UNCHANGED <<stream, sent_off, recv_off, mem, conn, faults>>

(* The peer's process died: its kernel resets the connection, which loses  *)
(* what is on the way, or closes it in order.                              *)
Reset ==
  /\ conn = "up" /\ faults < MaxFaults
  /\ faults' = faults + 1
  /\ conn' = "reset"
  /\ stream' = <<>>
  /\ UNCHANGED <<sent_off, recv_off, mem, ret, errno>>

Close ==
  /\ conn = "up" /\ faults < MaxFaults
  /\ faults' = faults + 1
  /\ conn' = "closed"
  /\ UNCHANGED <<stream, sent_off, recv_off, mem, ret, errno>>

ProcessSend == CallFails("s") \/ \E n \in 1 .. HeaderLen : SendHeaderBytes(n)

(* At end of file recv() returns 0: less than what remains, so the offset  *)
(* grows by 0 and the function returns 0, as if the call would block.      *)
ProcessRecv == CallFails("r") \/ \E n \in 1 .. HeaderLen : RecvHeaderBytes(n)

Next == ProcessSend \/ ProcessRecv \/ Reset \/ Close

Spec == Init /\ [][Next]_vars

(* Both ends are polled by test until their functions return 1. *)
FairSpec == Spec /\ WF_vars(ProcessSend) /\ WF_vars(ProcessRecv)

-----------------------------------------------------------------------------
(* However the header is cut into pieces, a receive function that returns  *)
(* 1 has the header the sender meant.                                      *)
HeaderIntact ==
  ret.r = 1 => \A j \in HeaderBytes : mem[j] = SenderByte(j)

(* Receiving the header writes to the header and to nothing behind it. *)
NoStrayWrite == \A j \in Memory \ HeaderBytes : mem[j] = ZeroByte

(* netDedup_isend and netDedup_irecv say "if there was an error we need to *)
(* report it": an end whose connection is reset in the middle of a header  *)
(* gets to return -1.                                                      *)
ErrorsReported ==
  \A e \in {"s", "r"} : (conn = "reset" /\ ret[e] = 0) ~> ret[e] # 0

=============================================================================
