--------------------------- MODULE HeaderIOProofs ---------------------------
(***************************************************************************)
(* The two missing-fingerprint headers, whose address is cast to void *    *)
(* before the offset is added (CastToVoid), survive every way they can be  *)
(* cut, for a header of any length and any failures of the connection.     *)
(***************************************************************************)
EXTENDS HeaderIO, SequenceTheorems, TLAPS

Bytes == {SenderByte(j) : j \in HeaderBytes}

(* The offsets never overtake each other, and a receive function returns 1 *)
(* only at the end of the header.                                          *)
OffsetInv ==
  /\ sent_off \in 0 .. HeaderLen
  /\ recv_off \in 0 .. sent_off
  /\ ret.r = 1 => recv_off = HeaderLen

(* The stream holds the bytes between the two offsets, unless a reset has  *)
(* lost them; nothing is received after that.                              *)
StreamInv ==
  /\ stream \in Seq(Bytes)
  /\ conn # "reset" =>
       /\ Len(stream) = sent_off - recv_off
       /\ \A k \in 1 .. Len(stream) : stream[k] = SenderByte(recv_off + k - 1)

(* What is received is the beginning of the header, in its place. *)
MemInv ==
  \A j \in Memory : mem[j] = IF j < recv_off THEN SenderByte(j) ELSE ZeroByte

RetInv == ret = [s |-> ret.s, r |-> ret.r]

IInv == OffsetInv /\ StreamInv /\ MemInv /\ RetInv

(* The invariant holds before the first call. *)
LEMMA InitIInv ==
  ASSUME HeaderAssumption, Init
  PROVE  IInv
<1> USE DEF HeaderAssumption, Init
<1>1. OffsetInv BY DEF OffsetInv
<1>2. StreamInv BY DEF StreamInv
<1>3. MemInv BY DEF MemInv, Memory
<1>4. RetInv BY DEF RetInv
<1> QED BY <1>1, <1>2, <1>3, <1>4 DEF IInv

(* A send appends the bytes that follow those sent so far. *)
LEMMA SendStep ==
  ASSUME HeaderAssumption, CastToVoid, IInv, NEW n \in 1 .. HeaderLen, SendHeaderBytes(n)
  PROVE  IInv'
<1> USE DEF HeaderAssumption
<1> DEFINE sent == [k \in 1 .. n |-> SenderByte(sent_off + k - 1)]
<1>1. sent \in Seq(Bytes) /\ Len(sent) = n
  <2>1. \A k \in 1 .. n : sent_off + k - 1 \in HeaderBytes
    BY DEF IInv, OffsetInv, SendHeaderBytes, HeaderBytes
  <2>2. sent \in [1 .. n -> Bytes] BY <2>1 DEF Bytes
  <2>3. n \in Nat /\ DOMAIN sent = 1 .. n OBVIOUS
  <2> HIDE DEF sent
  <2> QED BY <2>2, <2>3
<1>2. stream' = stream \o sent
  <2>1. CurHeader(sent_off) = sent_off BY DEF CurHeader, VoidPtrAdd
  <2> QED BY <2>1 DEF SendHeaderBytes
<1>3. OffsetInv'
  BY DEF IInv, OffsetInv, RetInv, SendHeaderBytes
<1>4. StreamInv'
  <2>1. \A k \in 1 .. n : sent[k] = SenderByte(sent_off + k - 1) OBVIOUS
  <2> HIDE DEF sent
  <2>2. /\ stream \in Seq(Bytes) /\ Len(stream) = sent_off - recv_off
        /\ \A k \in 1 .. Len(stream) : stream[k] = SenderByte(recv_off + k - 1)
        /\ sent_off \in Nat /\ recv_off \in Nat
    BY DEF IInv, StreamInv, OffsetInv, SendHeaderBytes
  <2>3. /\ stream' \in Seq(Bytes) /\ Len(stream') = Len(stream) + n
        /\ \A k \in 1 .. Len(stream') :
             stream'[k] = IF k <= Len(stream) THEN stream[k] ELSE sent[k - Len(stream)]
    <3>1. /\ stream \o sent \in Seq(Bytes) /\ Len(stream \o sent) = Len(stream) + Len(sent)
          /\ \A k \in 1 .. Len(stream) + Len(sent) :
               (stream \o sent)[k] = IF k <= Len(stream) THEN stream[k] ELSE sent[k - Len(stream)]
      BY <1>1, <2>2, ConcatProperties, Zenon
    <3> QED BY <1>1, <1>2, <3>1
  <2>4. Len(stream') = sent_off' - recv_off'
    BY <2>2, <2>3 DEF SendHeaderBytes
  <2>5. ASSUME NEW k \in 1 .. Len(stream') PROVE stream'[k] = SenderByte(recv_off' + k - 1)
    <3>1. CASE k <= Len(stream) BY <2>2, <2>3, <3>1 DEF SendHeaderBytes
    <3>2. CASE ~ (k <= Len(stream))
      <4>1. k - Len(stream) \in 1 .. n BY <2>2, <2>3, <3>2
      <4>2. stream'[k] = SenderByte(sent_off + (k - Len(stream)) - 1)
        BY <2>1, <2>3, <3>2, <4>1
      <4>3. sent_off + (k - Len(stream)) - 1 = recv_off + k - 1 BY <2>2, <4>1
      <4> QED BY <4>2, <4>3 DEF SendHeaderBytes
    <3> QED BY <3>1, <3>2
  <2> QED BY <2>3, <2>4, <2>5 DEF StreamInv
<1>5. MemInv' BY DEF IInv, MemInv, SendHeaderBytes
<1>6. RetInv' BY DEF IInv, RetInv, SendHeaderBytes
<1> QED BY <1>3, <1>4, <1>5, <1>6 DEF IInv

(* A receive takes bytes off the stream and puts them behind those that    *)
(* are there.                                                              *)
LEMMA RecvStep ==
  ASSUME HeaderAssumption, CastToVoid, IInv, NEW n \in 1 .. HeaderLen, RecvHeaderBytes(n)
  PROVE  IInv'
<1> USE DEF HeaderAssumption
<1>1. /\ stream \in Seq(Bytes) /\ Len(stream) = sent_off - recv_off
      /\ \A k \in 1 .. Len(stream) : stream[k] = SenderByte(recv_off + k - 1)
      /\ sent_off \in Nat /\ recv_off \in Nat
      /\ n <= Len(stream) /\ n <= HeaderLen - recv_off
  BY DEF IInv, StreamInv, OffsetInv, RecvHeaderBytes
<1>2. OffsetInv'
  <2>1. recv_off' \in 0 .. sent_off' /\ sent_off' \in 0 .. HeaderLen
    BY <1>1, SMTT(30) DEF IInv, OffsetInv, RecvHeaderBytes
  <2>2. ret.r' = IF n < HeaderLen - recv_off THEN 0 ELSE 1
    BY DEF IInv, RetInv, RecvHeaderBytes
  <2>3. recv_off' = recv_off + n BY DEF RecvHeaderBytes
  <2> QED BY <1>1, <2>1, <2>2, <2>3 DEF OffsetInv
<1>3. StreamInv'
  <2>1. stream' = SubSeq(stream, n + 1, Len(stream)) BY DEF RecvHeaderBytes
  <2>2. /\ stream' \in Seq(Bytes) /\ Len(stream') = Len(stream) - n
        /\ \A k \in 1 .. Len(stream') : stream'[k] = stream[n + k]
    <3>1. \A i \in n + 1 .. Len(stream) : stream[i] \in Bytes
      <4>1. \A i \in 1 .. Len(stream) : stream[i] \in Bytes BY <1>1
      <4> QED BY <1>1, <4>1
    <3>2. n + 1 \in Int /\ Len(stream) \in Int BY <1>1
    <3>3. /\ stream' \in Seq(Bytes)
          /\ Len(stream') = IF n + 1 <= Len(stream) THEN Len(stream) - (n + 1) + 1 ELSE 0
          /\ \A i \in 1 .. Len(stream) - (n + 1) + 1 : stream'[i] = stream[n + 1 + i - 1]
      <4> DEFINE m == n + 1
                 q == Len(stream)
      <4> HIDE DEF m, q
      <4>1. m \in Int /\ q \in Int /\ \A i \in m .. q : stream[i] \in Bytes
        BY <3>1, <3>2 DEF m, q
      <4>2. /\ SubSeq(stream, m, q) \in Seq(Bytes)
            /\ Len(SubSeq(stream, m, q)) = IF m <= q THEN q - m + 1 ELSE 0
            /\ \A i \in 1 .. q - m + 1 : SubSeq(stream, m, q)[i] = stream[m + i - 1]
        BY <4>1, SubSeqProperties
      <4> QED BY <2>1, <4>2 DEF m, q
    <3>4. Len(stream') = Len(stream) - n BY <1>1, <3>2, <3>3
    <3>5. ASSUME NEW k \in 1 .. Len(stream') PROVE stream'[k] = stream[n + k]
      <4>1. k \in 1 .. Len(stream) - (n + 1) + 1 /\ n + 1 + k - 1 = n + k BY <1>1, <3>4
      <4> QED BY <3>3, <4>1
    <3> QED BY <3>3, <3>4, <3>5
  <2>3. ASSUME NEW k \in 1 .. Len(stream') PROVE stream'[k] = SenderByte(recv_off' + k - 1)
    <3>1. n + k \in 1 .. Len(stream) BY <1>1, <2>2
    <3>2. stream'[k] = SenderByte(recv_off + (n + k) - 1) BY <1>1, <2>2, <3>1
    <3>3. recv_off + (n + k) - 1 = (recv_off + n) + k - 1 BY <1>1, <3>1
    <3> QED BY <3>2, <3>3 DEF RecvHeaderBytes
  <2>4. Len(stream') = sent_off' - recv_off' BY <1>1, <2>2 DEF RecvHeaderBytes
  <2> QED BY <2>2, <2>3, <2>4 DEF StreamInv
<1>4. MemInv'
  <2> SUFFICES ASSUME NEW j \in Memory
               PROVE  mem'[j] = IF j < recv_off' THEN SenderByte(j) ELSE ZeroByte
    BY DEF MemInv, Memory
  <2> DEFINE k == j - recv_off + 1
  <2>1. mem'[j] = IF k \in 1 .. n THEN stream[k] ELSE mem[j]
    BY DEF RecvHeaderBytes, CurHeader, VoidPtrAdd
  <2>2. j \in Nat BY DEF Memory
  <2>3. recv_off' = recv_off + n BY DEF RecvHeaderBytes
  <2>4. mem[j] = IF j < recv_off THEN SenderByte(j) ELSE ZeroByte BY DEF IInv, MemInv
  <2>5. CASE k \in 1 .. n
    <3>1. k \in 1 .. Len(stream) /\ recv_off + k - 1 = j BY <1>1, <2>2, <2>5
    <3>2. stream[k] = SenderByte(j) BY <1>1, <3>1
    <3>3. j < recv_off' BY <1>1, <2>2, <2>3, <2>5
    <3> QED BY <2>1, <2>5, <3>2, <3>3
  <2>6. CASE k \notin 1 .. n
    <3>1. (j < recv_off') <=> (j < recv_off) BY <1>1, <2>2, <2>3, <2>6
    <3> QED BY <2>1, <2>4, <2>6, <3>1
  <2> QED BY <2>5, <2>6
<1>5. RetInv' BY DEF IInv, RetInv, RecvHeaderBytes
<1> QED BY <1>2, <1>3, <1>4, <1>5 DEF IInv

(* A call that fails, and what happens to the connection. *)
LEMMA OtherSteps ==
  ASSUME IInv, \/ \E e \in {"s", "r"} : CallFails(e)
               \/ Reset \/ Close \/ UNCHANGED vars
  PROVE  IInv'
<1>1. ASSUME NEW e \in {"s", "r"}, CallFails(e) PROVE IInv'
  <2>1. RetInv' /\ (ret.r' = 1 => ret.r = 1)
    <3>1. PICK v \in {0, -1} : ret' = [ret EXCEPT ![e] = v] BY <1>1 DEF CallFails
    <3>2. CASE e = "s" BY <3>1, <3>2 DEF IInv, RetInv
    <3>3. CASE e = "r"
      <4>1. ret = [s |-> ret.s, r |-> ret.r] BY DEF IInv, RetInv
      <4>2. ret' = [s |-> ret.s, r |-> v] BY <3>1, <3>3, <4>1
      <4>3. v # 1 OBVIOUS
      <4> QED BY <4>2, <4>3 DEF RetInv
    <3> QED BY <3>2, <3>3
  <2>2. UNCHANGED <<stream, sent_off, recv_off, mem, conn>> BY <1>1 DEF CallFails
  <2> QED BY <2>1, <2>2 DEF IInv, OffsetInv, StreamInv, MemInv
<1>2. CASE Reset
  <2>1. stream' \in Seq(Bytes) /\ conn' = "reset" BY <1>2 DEF Reset
  <2>2. UNCHANGED <<sent_off, recv_off, mem, ret>> BY <1>2 DEF Reset
  <2> QED BY <2>1, <2>2 DEF IInv, OffsetInv, StreamInv, MemInv, RetInv
<1>3. CASE Close
  <2>1. conn # "reset" BY <1>3 DEF Close
  <2>2. UNCHANGED <<stream, sent_off, recv_off, mem, ret>> BY <1>3 DEF Close
  <2> QED BY <2>1, <2>2 DEF IInv, OffsetInv, StreamInv, MemInv, RetInv
<1>4. CASE UNCHANGED vars
  BY <1>4 DEF vars, IInv, OffsetInv, StreamInv, MemInv, RetInv
<1> QED BY <1>1, <1>2, <1>3, <1>4

(* The invariant holds of every header that is cast to a void pointer. *)
THEOREM HeaderInvariant ==
  ASSUME HeaderAssumption, CastToVoid
  PROVE  Spec => []IInv
<1>1. IInv /\ [Next]_vars => IInv'
  <2> SUFFICES ASSUME IInv, [Next]_vars PROVE IInv' OBVIOUS
  <2>1. CASE \E n \in 1 .. HeaderLen : SendHeaderBytes(n) BY <2>1, SendStep
  <2>2. CASE \E n \in 1 .. HeaderLen : RecvHeaderBytes(n) BY <2>2, RecvStep
  <2>3. CASE \/ \E e \in {"s", "r"} : CallFails(e)
             \/ Reset \/ Close \/ UNCHANGED vars
    BY <2>3, OtherSteps
  <2> QED BY <2>1, <2>2, <2>3 DEF Next, ProcessSend, ProcessRecv
<1>2. Init => IInv BY InitIInv
<1> QED BY <1>1, <1>2, PTL DEF Spec

(* A receive function that returns 1 has the header the sender meant,      *)
(* whatever part of it each send() and recv() moved.                       *)
THEOREM HeaderIsIntact ==
  ASSUME HeaderAssumption, CastToVoid
  PROVE  Spec => []HeaderIntact
<1>1. IInv => HeaderIntact
  <2> SUFFICES ASSUME IInv, ret.r = 1, NEW j \in HeaderBytes PROVE mem[j] = SenderByte(j)
    BY DEF HeaderIntact
  <2>1. recv_off = HeaderLen /\ j \in Nat /\ j < HeaderLen
    BY DEF HeaderAssumption, IInv, OffsetInv, HeaderBytes
  <2>2. HeaderLen <= HeaderLen * HeaderLen BY DEF HeaderAssumption
  <2>3. j \in Memory
    <3>1. HeaderLen * HeaderLen \in Nat BY DEF HeaderAssumption
    <3> QED BY <2>1, <2>2, <3>1 DEF Memory, HeaderAssumption
  <2> QED BY <2>1, <2>3 DEF IInv, MemInv
<1> QED BY HeaderInvariant, <1>1, PTL

(* Receiving the header writes to nothing behind it. *)
THEOREM NothingStrays ==
  ASSUME HeaderAssumption, CastToVoid
  PROVE  Spec => []NoStrayWrite
<1>1. IInv => NoStrayWrite
  <2> SUFFICES ASSUME IInv, NEW j \in Memory, j \notin HeaderBytes PROVE mem[j] = ZeroByte
    BY DEF NoStrayWrite
  <2>1. ~ (j < recv_off) BY DEF HeaderAssumption, IInv, OffsetInv, Memory, HeaderBytes
  <2> QED BY <2>1 DEF IInv, MemInv
<1> QED BY HeaderInvariant, <1>1, PTL

=============================================================================
