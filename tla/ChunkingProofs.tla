--------------------------- MODULE ChunkingProofs ---------------------------
(***************************************************************************)
(* Theorems about Chunking: whatever the bytes of a message, the hash and  *)
(* the settings, the chunks keep within their bounds, nothing is read      *)
(* behind the message, and the arrays for the chunks are long enough.      *)
(***************************************************************************)
EXTENDS Chunking, SumProofs, TLAPS

(* What do_fingerprinting counts: the bytes done and the bytes left make   *)
(* up the message, and a chunk in the making is within what is left.       *)
CountInv ==
  /\ num_bytes \in Nat \ {0}
  /\ pc \in {"start", "scan", "refill", "package", "done"}
  /\ remain_bytes \in Nat /\ cur_start_ind \in Nat /\ cur_size \in Nat
  /\ cur_start_ind + remain_bytes = num_bytes
  /\ pc = "start" => cur_start_ind = 0 /\ cur_size = MinChunk
  /\ pc = "scan" =>
       /\ MinChunk <= cur_size /\ cur_size <= MaxChunk /\ cur_size <= remain_bytes
  /\ pc = "refill" => MinChunk <= remain_bytes
  /\ pc \in {"scan", "refill"} => num_bytes > MinChunk

(* The bounds of every chunk so far. *)
SizeInv ==
  /\ content_sizes \in Seq(Nat)
  /\ pc = "start" => content_sizes = <<>>
  /\ \A c \in 1 .. Len(content_sizes) :
       /\ content_sizes[c] < MaxChunk + MinChunk
       /\ num_bytes > MinChunk => content_sizes[c] >= MinChunk

(* How many chunks there are: each takes at least the minimum. *)
NumberInv ==
  /\ num_bytes > MinChunk => Len(content_sizes) * MinChunk <= cur_start_ind
  /\ num_bytes <= MinChunk => Len(content_sizes) <= 1

(* The chunks so far make up the bytes done; when the message is cut up,   *)
(* nothing is left.                                                        *)
CoverInv ==
  /\ num_bytes > MinChunk =>
       /\ SumTo(content_sizes, Len(content_sizes)) = cur_start_ind
       /\ pc \in {"package", "done"} => remain_bytes = 0 /\ Len(content_sizes) > 0
  /\ num_bytes <= MinChunk /\ pc \in {"package", "done"} => content_sizes = <<num_bytes>>

IInv == CountInv /\ SizeInv /\ NumberInv /\ CoverInv

(* Arithmetic the prover does not find on its own. *)
LEMMA MultSucc == ASSUME NEW n \in Nat, NEW m \in Nat PROVE (n + 1) * m = n * m + m
  OBVIOUS

(* A common positive factor can be cancelled. *)
LEMMA MultMonotone ==
  ASSUME NEW a \in Nat, NEW b \in Nat, NEW m \in Nat \ {0}, a * m < (b + 1) * m
  PROVE  a <= b
<1>1. SUFFICES ASSUME a > b PROVE FALSE OBVIOUS
<1>2. PICK d \in Nat : a = b + 1 + d
  <2>1. a - b - 1 \in Nat BY <1>1
  <2> QED BY <2>1
<1>3. a * m = (b + 1) * m + d * m BY <1>2
<1>4. d * m \in Nat OBVIOUS
<1>5. (b + 1) * m \in Nat /\ a * m \in Nat OBVIOUS
<1> QED BY <1>3, <1>4, <1>5

(* What integer division gives, for the sizes of chunks and pages. *)
LEMMA DivFacts ==
  ASSUME NEW a \in Nat, NEW m \in Nat \ {0}
  PROVE  /\ a \div m \in Nat
         /\ (a \div m) * m <= a
         /\ a < (a \div m + 1) * m
  BY SMT

(* A quotient is at most what bounds the dividend in multiples of m. *)
LEMMA DivBound ==
  ASSUME NEW a \in Nat, NEW b \in Nat, NEW m \in Nat \ {0}, a < (b + 1) * m
  PROVE  a \div m <= b
<1>1. (a \div m) * m <= a /\ a \div m \in Nat BY DivFacts
<1>2. (a \div m) * m \in Nat /\ (b + 1) * m \in Nat BY <1>1
<1>3. (a \div m) * m < (b + 1) * m BY <1>1, <1>2
<1> QED BY <1>1, <1>3, MultMonotone


-----------------------------------------------------------------------------

(* The invariant holds before the first byte. *)
LEMMA InitIInv == Init => IInv
<1> SUFFICES ASSUME Init PROVE IInv OBVIOUS
<1> USE ChunkingAssumption
<1>1. num_bytes \in Nat \ {0} BY DEF Init
<1>2. CountInv BY <1>1 DEF Init, CountInv
<1>3. SizeInv BY DEF Init, SizeInv
<1>4. NumberInv BY <1>1 DEF Init, NumberInv
<1>5. CoverInv
  <2>1. SumTo(content_sizes, 0) = 0 BY SumZero
  <2> QED BY <2>1 DEF Init, CoverInv
<1> QED BY <1>2, <1>3, <1>4, <1>5 DEF IInv

(* A chunk that ends is what is left, or at least the minimum and leaves   *)
(* at least the minimum.                                                   *)
LEMMA ChunkSizeFacts ==
  ASSUME CountInv, pc = "scan", EndsChunk
  PROVE  /\ ChunkSize \in Nat
         /\ ChunkSize <= remain_bytes
         /\ ChunkSize >= MinChunk
         /\ ChunkSize < MaxChunk + MinChunk
         /\ remain_bytes - ChunkSize > 0 => remain_bytes - ChunkSize >= MinChunk
  BY ChunkingAssumption DEF CountInv, EndsChunk, ChunkSize

(* Every step keeps account of the bytes: those in chunks and those left. *)
LEMMA StepCountInv == IInv /\ [Next]_vars => CountInv'
<1> SUFFICES ASSUME IInv, [Next]_vars PROVE CountInv' OBVIOUS
<1> USE ChunkingAssumption DEF IInv
<1>1. CASE OneChunk BY <1>1 DEF OneChunk, CountInv
<1>2. CASE FirstWindow BY <1>2 DEF FirstWindow, CountInv
<1>3. CASE EmitChunk
  <2>1. pc = "scan" /\ EndsChunk BY <1>3 DEF EmitChunk
  <2>2. CountInv OBVIOUS
  <2> DEFINE s == ChunkSize
  <2>3. /\ s \in Nat /\ s <= remain_bytes
        /\ remain_bytes - s > 0 => remain_bytes - s >= MinChunk
    BY <2>1, <2>2, ChunkSizeFacts
  <2>4. /\ remain_bytes' = remain_bytes - s
        /\ cur_start_ind' = cur_start_ind + s
        /\ pc' = IF remain_bytes' > 0 THEN "refill" ELSE "package"
        /\ num_bytes' = num_bytes /\ cur_size' = cur_size
    BY <1>3 DEF EmitChunk
  <2> HIDE DEF s
  <2> QED BY <2>1, <2>2, <2>3, <2>4 DEF CountInv
<1>4. CASE RefillWindow BY <1>4 DEF RefillWindow, CountInv
<1>5. CASE Roll BY <1>5 DEF Roll, EndsChunk, CountInv
<1>6. CASE Package BY <1>6 DEF Package, CountInv
<1>7. CASE UNCHANGED vars BY <1>7 DEF vars, CountInv
<1> QED BY <1>1, <1>2, <1>3, <1>4, <1>5, <1>6, <1>7 DEF Next

(* Every step keeps the chunks so far within the bounds. *)
LEMMA StepSizeInv == IInv /\ [Next]_vars => SizeInv'
<1> SUFFICES ASSUME IInv, [Next]_vars PROVE SizeInv' OBVIOUS
<1> USE ChunkingAssumption DEF IInv
<1>1. CASE OneChunk BY <1>1 DEF OneChunk, CountInv, SizeInv
<1>2. CASE EmitChunk
  <2>1. pc = "scan" /\ EndsChunk BY <1>2 DEF EmitChunk
  <2>2. CountInv /\ SizeInv OBVIOUS
  <2> DEFINE s == ChunkSize
  <2>3. s \in Nat /\ s >= MinChunk /\ s < MaxChunk + MinChunk
    BY <2>1, <2>2, ChunkSizeFacts
  <2>4. /\ content_sizes' = Append(content_sizes, s)
        /\ num_bytes' = num_bytes /\ pc' # "start"
    BY <1>2 DEF EmitChunk
  <2> HIDE DEF s
  <2>5. content_sizes \in Seq(Nat) BY <2>2 DEF SizeInv
  <2>6. content_sizes' \in Seq(Nat) BY <2>3, <2>4, <2>5
  <2>7. ASSUME NEW c \in 1 .. Len(content_sizes')
        PROVE  /\ content_sizes'[c] < MaxChunk + MinChunk
               /\ num_bytes' > MinChunk => content_sizes'[c] >= MinChunk
    <3>1. CASE c \in 1 .. Len(content_sizes)
      <4>1. content_sizes'[c] = content_sizes[c] BY <2>4, <2>5, <3>1
      <4> QED BY <4>1, <3>1, <2>2, <2>4 DEF SizeInv
    <3>2. CASE c \notin 1 .. Len(content_sizes)
      <4>1. content_sizes'[c] = s BY <2>3, <2>4, <2>5, <3>2
      <4> QED BY <4>1, <2>3, <2>4
    <3> QED BY <3>1, <3>2
  <2> QED BY <2>4, <2>6, <2>7 DEF SizeInv
<1>3. CASE FirstWindow \/ RefillWindow \/ Roll \/ Package
  <2>1. content_sizes' = content_sizes /\ num_bytes' = num_bytes /\ pc' # "start"
    BY <1>3 DEF FirstWindow, RefillWindow, Roll, Package
  <2> QED BY <2>1 DEF SizeInv
<1>4. CASE UNCHANGED vars BY <1>4 DEF vars, SizeInv
<1> QED BY <1>1, <1>2, <1>3, <1>4 DEF Next

(* Every step keeps the number of chunks below what the bytes allow. *)
LEMMA StepNumberInv == IInv /\ [Next]_vars => NumberInv'
<1> SUFFICES ASSUME IInv, [Next]_vars PROVE NumberInv' OBVIOUS
<1> USE ChunkingAssumption DEF IInv
<1>1. CASE OneChunk
  <2>1. num_bytes <= MinChunk /\ num_bytes' = num_bytes /\ Len(content_sizes') = 1
    BY <1>1 DEF OneChunk
  <2> QED BY <2>1 DEF NumberInv, CountInv
<1>2. CASE EmitChunk
  <2>1. pc = "scan" /\ EndsChunk BY <1>2 DEF EmitChunk
  <2>2. CountInv /\ NumberInv OBVIOUS
  <2> DEFINE s == ChunkSize
             n == Len(content_sizes)
  <2>3. s \in Nat /\ s >= MinChunk BY <2>1, <2>2, ChunkSizeFacts
  <2>4. content_sizes \in Seq(Nat) BY DEF SizeInv
  <2>5. n \in Nat BY <2>4
  <2>6. content_sizes' = Append(content_sizes, s) /\ cur_start_ind' = cur_start_ind + s
        /\ num_bytes' = num_bytes
    BY <1>2 DEF EmitChunk
  <2>7. Len(content_sizes') = n + 1 BY <2>3, <2>4, <2>6
  <2>8. num_bytes > MinChunk /\ cur_start_ind \in Nat BY <2>1, <2>2 DEF CountInv
  <2>9. n * MinChunk <= cur_start_ind BY <2>2, <2>8 DEF NumberInv
  <2> HIDE DEF s, n
  <2>10. (n + 1) * MinChunk = n * MinChunk + MinChunk BY <2>5, MultSucc
  <2>11. n * MinChunk \in Nat BY <2>5
  <2>12. (n + 1) * MinChunk <= cur_start_ind + s BY <2>3, <2>8, <2>9, <2>10, <2>11
  <2>13. ~(num_bytes' <= MinChunk) BY <2>6, <2>8 DEF CountInv
  <2> QED BY <2>6, <2>7, <2>12, <2>13 DEF NumberInv
<1>3. CASE FirstWindow \/ RefillWindow \/ Roll \/ Package
  <2>1. content_sizes' = content_sizes /\ num_bytes' = num_bytes
        /\ cur_start_ind' = cur_start_ind
    BY <1>3 DEF FirstWindow, RefillWindow, Roll, Package
  <2> QED BY <2>1 DEF NumberInv
<1>4. CASE UNCHANGED vars BY <1>4 DEF vars, NumberInv
<1> QED BY <1>1, <1>2, <1>3, <1>4 DEF Next

(* Every step accounts for the bytes that it hands on as a chunk. *)
LEMMA StepCoverInv == IInv /\ [Next]_vars => CoverInv'
<1> SUFFICES ASSUME IInv, [Next]_vars PROVE CoverInv' OBVIOUS
<1> USE ChunkingAssumption
<1>1. CountInv /\ SizeInv /\ CoverInv BY DEF IInv
<1>2. CASE OneChunk
  <2>1. /\ num_bytes <= MinChunk /\ num_bytes' = num_bytes
        /\ content_sizes' = <<num_bytes>>
    BY <1>2 DEF OneChunk
  <2>2. ~ (num_bytes' > MinChunk) BY <1>1, <2>1 DEF CountInv
  <2> QED BY <2>1, <2>2 DEF CoverInv
<1>3. CASE EmitChunk
  <2>1. pc = "scan" /\ EndsChunk BY <1>3 DEF EmitChunk
  <2> DEFINE s == ChunkSize
             n == Len(content_sizes)
  <2>2. s \in Nat /\ s <= remain_bytes BY <1>1, <2>1, ChunkSizeFacts
  <2>3. content_sizes \in Seq(Nat) /\ n \in Nat BY <1>1 DEF SizeInv
  <2>4. /\ content_sizes' = Append(content_sizes, s) /\ cur_start_ind' = cur_start_ind + s
        /\ num_bytes' = num_bytes /\ remain_bytes' = remain_bytes - s
        /\ pc' = IF remain_bytes' > 0 THEN "refill" ELSE "package"
    BY <1>3 DEF EmitChunk
  <2>5. num_bytes > MinChunk BY <1>1, <2>1 DEF CountInv
  <2>6. SumTo(content_sizes, n) = cur_start_ind BY <1>1, <2>5 DEF CoverInv
  <2> HIDE DEF s
  <2>7. /\ Len(content_sizes') = n + 1 /\ content_sizes'[n + 1] = s
        /\ \A j \in 1 .. n : content_sizes'[j] = content_sizes[j]
    BY <2>2, <2>3, <2>4
  <2> HIDE DEF n
  <2>8. SumTo(content_sizes', n) = SumTo(content_sizes, n) BY <2>3, <2>7, SumAgree
  <2>9. SumTo(content_sizes', n + 1) = SumTo(content_sizes', n) + content_sizes'[n + 1]
    BY <2>3, SumNext
  <2>10. SumTo(content_sizes', Len(content_sizes')) = cur_start_ind'
    BY <2>4, <2>6, <2>7, <2>8, <2>9
  <2>11. pc' = "package" => remain_bytes' = 0 BY <1>1, <2>2, <2>4 DEF CountInv
  <2>12. Len(content_sizes') > 0 /\ pc' # "done" BY <2>3, <2>4, <2>7
  <2>13. ~ (num_bytes' <= MinChunk) BY <1>1, <2>4, <2>5 DEF CountInv
  <2> QED BY <2>10, <2>11, <2>12, <2>13 DEF CoverInv
<1>4. CASE FirstWindow \/ RefillWindow \/ Roll \/ Package
  <2>1. /\ content_sizes' = content_sizes /\ num_bytes' = num_bytes
        /\ cur_start_ind' = cur_start_ind /\ remain_bytes' = remain_bytes
        /\ pc' \in {"package", "done"} => pc \in {"package", "done"}
    BY <1>4 DEF FirstWindow, RefillWindow, Roll, Package
  <2> QED BY <1>1, <2>1 DEF CoverInv
<1>5. CASE UNCHANGED vars BY <1>1, <1>5 DEF vars, CoverInv
<1> QED BY <1>2, <1>3, <1>4, <1>5 DEF Next

(* The invariant holds of the specification. *)
THEOREM CountingInvariant == Spec => []IInv
<1>1. IInv /\ [Next]_vars => IInv'
  BY StepCountInv, StepSizeInv, StepNumberInv, StepCoverInv DEF IInv
<1> QED BY InitIInv, <1>1, PTL DEF Spec

(* Nothing is read behind the end of the application's buffer.             *)
THEOREM ReadsStayInBounds == Spec => []ReadsInBounds
<1>1. IInv => ReadsInBounds
  BY ChunkingAssumption DEF IInv, CountInv, ReadsInBounds, EndsChunk
<1> QED BY CountingInvariant, <1>1, PTL

(* The chunks that do_fingerprinting hands out cover the message from its  *)
(* first byte to its last: a tail below the minimum is not lost.           *)
THEOREM MessageIsCovered == Spec => []ChunksCoverMessage
<1>1. IInv => ChunksCoverMessage
  <2> SUFFICES ASSUME IInv, pc \in {"package", "done"}
               PROVE  StartOf(NumFingerprints) + content_sizes[NumFingerprints] = num_bytes
    BY DEF ChunksCoverMessage
  <2> USE ChunkingAssumption
  <2>1. CountInv /\ SizeInv /\ CoverInv BY DEF IInv
  <2> DEFINE n == Len(content_sizes)
  <2>2. n \in Nat BY <2>1 DEF SizeInv
  <2>3. n > 0 /\ SumTo(content_sizes, n) = num_bytes
    <3>1. CASE num_bytes > MinChunk
      <4>1. n > 0 /\ remain_bytes = 0 /\ SumTo(content_sizes, n) = cur_start_ind
        BY <2>1, <3>1 DEF CoverInv
      <4> QED BY <2>1, <4>1 DEF CountInv
    <3>2. CASE ~ (num_bytes > MinChunk)
      <4>1. content_sizes = <<num_bytes>> BY <2>1, <3>2 DEF CoverInv, CountInv
      <4>2. n = 1 /\ content_sizes[1] = num_bytes BY <4>1
      <4>3. SumTo(content_sizes, 0) = 0 BY SumZero
      <4>4. SumTo(content_sizes, 0 + 1) = SumTo(content_sizes, 0) + content_sizes[0 + 1]
        BY SumNext
      <4> QED BY <2>1, <4>2, <4>3, <4>4 DEF CountInv
    <3> QED BY <3>1, <3>2
  <2> HIDE DEF n
  <2>4. PICK k \in Nat : n = k + 1
    <3>1. n - 1 \in Nat /\ n = (n - 1) + 1 BY <2>2, <2>3
    <3> QED BY <3>1
  <2>5. SumTo(content_sizes, k + 1) = SumTo(content_sizes, k) + content_sizes[k + 1]
    BY SumNext
  <2>6. n - 1 = k BY <2>4
  <2> QED BY <2>3, <2>4, <2>5, <2>6 DEF StartOf, NumFingerprints, n
<1> QED BY CountingInvariant, <1>1, PTL

(* Every chunk is below MAX_CHUNK_SIZE_BYTES + MIN_CHUNK_SIZE_BYTES, as    *)
(* config.h says, fits into the pages of an entry, and only the chunk of a *)
(* small message is below the minimum.                                     *)
THEOREM ChunksAreBounded == Spec => []ChunkSizesBounded
<1>1. IInv => ChunkSizesBounded
  <2> SUFFICES ASSUME IInv, NEW c \in 1 .. NumFingerprints
               PROVE  /\ content_sizes[c] < MaxChunk + MinChunk
                      /\ num_bytes > MinChunk => content_sizes[c] >= MinChunk
                      /\ (content_sizes[c] + PageSize - 1) \div PageSize
                           <= MaxChunk \div PageSize + 2
    BY DEF ChunkSizesBounded
  <2> USE ChunkingAssumption
  <2> DEFINE size == content_sizes[c]
             q == MaxChunk \div PageSize
  <2>1. /\ size \in Nat /\ size < MaxChunk + MinChunk
        /\ num_bytes > MinChunk => size >= MinChunk
    BY DEF IInv, SizeInv, NumFingerprints
  <2>2. q \in Nat /\ MaxChunk < (q + 1) * PageSize BY DivFacts
  <2> HIDE DEF size, q
  <2>3. (q + 1) * PageSize \in Nat BY <2>2
  <2>4. /\ (q + 2) * PageSize = (q + 1) * PageSize + PageSize
        /\ (q + 3) * PageSize = (q + 2) * PageSize + PageSize
    BY <2>2
  <2>5. size + PageSize - 1 < (q + 2 + 1) * PageSize
    BY <2>1, <2>2, <2>3, <2>4
  <2>6. size + PageSize - 1 \in Nat /\ q + 2 \in Nat BY <2>1, <2>2
  <2>7. (size + PageSize - 1) \div PageSize <= q + 2 BY <2>5, <2>6, DivBound
  <2> QED BY <2>1, <2>7 DEF size, q
<1> QED BY CountingInvariant, <1>1, PTL

(* dedup_fingerprinting allocates room for every chunk of the message, and *)
(* a message of less than (MAX_FINGERPRINTS_PER_REQ + 1) *                 *)
(* MIN_CHUNK_SIZE_BYTES bytes never has more chunks than a request holds.  *)
THEOREM BuffersAreLongEnough == Spec => []BuffersSuffice
<1>1. IInv => NumFingerprints <= num_bytes \div MinChunk + 1
  <2> SUFFICES ASSUME IInv PROVE NumFingerprints <= num_bytes \div MinChunk + 1
    OBVIOUS
  <2> USE ChunkingAssumption
  <2> DEFINE n == Len(content_sizes)
             q == num_bytes \div MinChunk
  <2>1. n \in Nat /\ num_bytes \in Nat BY DEF IInv, SizeInv, CountInv
  <2>2. q \in Nat /\ num_bytes < (q + 1) * MinChunk BY <2>1, DivFacts
  <2>3. CASE num_bytes > MinChunk
    <3>1. n * MinChunk <= num_bytes
      BY <2>1, <2>3 DEF IInv, NumberInv, CountInv
    <3> HIDE DEF n, q
    <3>2. n * MinChunk \in Nat /\ (q + 1) * MinChunk \in Nat BY <2>1, <2>2
    <3>3. n * MinChunk < (q + 1) * MinChunk BY <2>1, <2>2, <3>1, <3>2
    <3>4. n <= q BY <2>1, <2>2, <3>3, MultMonotone
    <3> QED BY <2>1, <2>2, <3>4 DEF n, q, NumFingerprints
  <2>4. CASE num_bytes <= MinChunk
    BY <2>1, <2>2, <2>4 DEF IInv, NumberInv, NumFingerprints
  <2> QED BY <2>1, <2>3, <2>4
<1>2. IInv /\ num_bytes < (MaxFingerprints + 1) * MinChunk
        => NumFingerprints <= MaxFingerprints
  <2> SUFFICES ASSUME IInv, num_bytes < (MaxFingerprints + 1) * MinChunk
               PROVE  NumFingerprints <= MaxFingerprints
    OBVIOUS
  <2> USE ChunkingAssumption
  <2> DEFINE n == Len(content_sizes)
  <2>1. n \in Nat /\ num_bytes \in Nat BY DEF IInv, SizeInv, CountInv
  <2>2. CASE num_bytes > MinChunk
    <3>1. n * MinChunk <= num_bytes
      BY <2>1, <2>2 DEF IInv, NumberInv, CountInv
    <3> HIDE DEF n
    <3>2. n * MinChunk \in Nat /\ (MaxFingerprints + 1) * MinChunk \in Nat BY <2>1
    <3>3. n * MinChunk < (MaxFingerprints + 1) * MinChunk BY <2>1, <3>1, <3>2
    <3>4. n <= MaxFingerprints BY <2>1, <3>3, MultMonotone
    <3> QED BY <3>4 DEF n, NumFingerprints
  <2>3. CASE num_bytes <= MinChunk
    BY <2>1, <2>3 DEF IInv, NumberInv, NumFingerprints
  <2> QED BY <2>1, <2>2, <2>3
<1>3. IInv => BuffersSuffice BY <1>1, <1>2 DEF BuffersSuffice
<1> QED BY CountingInvariant, <1>3, PTL

-----------------------------------------------------------------------------
(* Where a chunk ends.                                                     *)

(* The message, the window and the hash are numbers, and there is a slot   *)
(* for each chunk whose window was filled.                                 *)
WindowInv ==
  /\ data \in [0 .. num_bytes - 1 -> Nat]
  /\ window_slot \in 0 .. WindowBytes - 1
  /\ window \in [0 .. WindowBytes - 1 -> Nat]
  /\ cur_rabin \in Nat
  /\ slots \in Seq(Nat)
  /\ pc = "start" => slots = <<>> /\ window_slot = 0
  /\ num_bytes > MinChunk =>
       Len(slots) = Len(content_sizes) + (IF pc = "scan" THEN 1 ELSE 0)

(* A chunk has been rolled up to size n: the ring, from its oldest byte    *)
(* on, holds the bytes that the chunk is judged by, the hash is theirs,    *)
(* and none of the shorter sizes ended in a cut.                           *)
Rolled(st, n, win, slot, h) ==
  /\ \A j \in 0 .. WindowBytes - 1 :
       win[IF slot + j < WindowBytes THEN slot + j ELSE slot + j - WindowBytes]
         = Seen(st, n - WindowBytes + j)
  /\ rabin_mask(h) = HashOf(JudgedBy(st, n))
  /\ \A m \in MinChunk .. n - 1 : ~ IsCut(st, m)

(* So it is with the chunk that is scanned, if its ring began at slot 0.   *)
RollInv ==
  pc = "scan" /\ slots[Len(slots)] = 0 =>
    Rolled(cur_start_ind, cur_size, window, window_slot, cur_rabin)

CutInv == WindowInv /\ RollInv /\ ContentDefined

(* The two masks take remainders, and the one of the magic value divides   *)
(* the one of the hash.                                                    *)
LEMMA Moduli ==
  /\ Power(2, RabinMBits) \in Nat \ {0} /\ Power(2, LowerBits) \in Nat \ {0}
  /\ \E c \in Nat : Power(2, RabinMBits) = c * Power(2, LowerBits)
<1> USE ChunkingAssumption
<1>1. /\ Power(2, RabinMBits) \in Nat \ {0}
      /\ Power(2, LowerBits) \in Nat \ {0}
  <2>1. ASSUME NEW n \in Nat PROVE Power(2, n) \in Nat \ {0}
    <3>1. Power(2, n) \in Nat /\ Power(2, n) > 0 BY PowerType, 2 \in Nat, 2 > 0
    <3> QED BY <3>1
  <2>2. RabinMBits \in Nat /\ LowerBits \in Nat OBVIOUS
  <2> QED BY <2>1, <2>2
<1>2. LowerBits \in Nat /\ RabinMBits - LowerBits \in Nat
      /\ LowerBits + (RabinMBits - LowerBits) = RabinMBits
  OBVIOUS
<1>3. \E c \in Nat : Power(2, LowerBits + (RabinMBits - LowerBits)) = c * Power(2, LowerBits)
  BY <1>2, PowerDivides
<1> QED BY <1>1, <1>2, <1>3

(* A masked number is one, and masking it again changes nothing.           *)
LEMMA MaskTwice ==
  ASSUME NEW x \in Int
  PROVE  rabin_mask(x) \in Nat /\ rabin_mask(rabin_mask(x)) = rabin_mask(x)
<1> DEFINE M == Power(2, RabinMBits)
<1>1. M \in Nat \ {0} BY Moduli
<1> HIDE DEF M
<1>2. (x % M) \in 0 .. M - 1 /\ Cong(x, x % M, M) BY <1>1, CongSelf
<1>3. (x % M) \in Int BY <1>1, <1>2
<1>4. Cong(x % M, x, M) BY <1>1, <1>2, <1>3, CongSymmetric
<1>5. (x % M) % M = x % M BY <1>1, <1>3, <1>4, CongRemainder
<1> QED BY <1>1, <1>2, <1>5 DEF rabin_mask, M

(* The magic bits of a hash that was not masked are those of the masked.   *)
LEMMA MagicOfMask ==
  ASSUME NEW a \in Int, NEW b \in Int, rabin_mask(a) = rabin_mask(b)
  PROVE  magic_mask(a) = magic_mask(rabin_mask(b))
<1> DEFINE M == Power(2, RabinMBits)
           L == Power(2, LowerBits)
<1>1. M \in Nat \ {0} /\ L \in Nat \ {0} /\ \E c \in Nat : M = c * L BY Moduli
<1>2. a % M = b % M BY DEF rabin_mask
<1> HIDE DEF M, L
<1>3. (b % M) \in 0 .. M - 1 /\ Cong(a, a % M, M) BY <1>1, CongSelf
<1>4. (b % M) \in Int /\ Cong(a, b % M, M) BY <1>1, <1>2, <1>3
<1>5. PICK c \in Nat : M = c * L BY <1>1
<1>6. Cong(a, b % M, c * L) BY <1>4, <1>5
<1>7. Cong(a, b % M, L) BY <1>1, <1>4, <1>6, CongFactor
<1>8. a % L = (b % M) % L BY <1>1, <1>4, <1>7, CongRemainder
<1> QED BY <1>8 DEF magic_mask, rabin_mask, M, L

(* The digits that a window is made of. *)
Terms(w) == [k \in 1 .. WindowBytes |-> w[WindowBytes + 1 - k] * Power(RabinP, k - 1)]

IsWindow(w) == \A k \in 1 .. WindowBytes : w[k] \in Nat

(* They are numbers, and so are their sums. *)
LEMMA TermsType ==
  ASSUME NEW w, IsWindow(w)
  PROVE  /\ \A k \in 1 .. WindowBytes : Terms(w)[k] \in Nat
         /\ \A n \in 0 .. WindowBytes : SumTo(Terms(w), n) \in Nat
         /\ Digits(w) = SumTo(Terms(w), WindowBytes) /\ Digits(w) \in Nat
<1> USE ChunkingAssumption
<1>1. ASSUME NEW k \in 1 .. WindowBytes PROVE Terms(w)[k] \in Nat
  <2> DEFINE q == Power(RabinP, k - 1)
             b == w[WindowBytes + 1 - k]
  <2>1. q \in Nat BY PowerType
  <2>2. b \in Nat BY DEF IsWindow
  <2>3. Terms(w)[k] = b * q BY DEF Terms
  <2> HIDE DEF q, b
  <2> QED BY <2>1, <2>2, <2>3
<1>2. WindowBytes \in Nat OBVIOUS
<1>3. \A n \in 0 .. WindowBytes : SumTo(Terms(w), n) \in Nat BY <1>1, <1>2, SumType
<1>4. Digits(w) = SumTo(Terms(w), WindowBytes) BY DEF Digits, Terms
<1> QED BY <1>1, <1>2, <1>3, <1>4

(* init_rabin computes the hash of the window that it fills.               *)
LEMMA InitHash ==
  ASSUME NEW v, NEW w, IsWindow(w), \A k \in 1 .. WindowBytes : w[k] = v[k - 1]
  PROVE  InitRabin(v) \in Nat /\ rabin_mask(InitRabin(v)) = HashOf(w)
<1> USE ChunkingAssumption
<1> DEFINE M == Power(2, RabinMBits)
           h == [k \in 1 .. WindowBytes |->
                   rabin_mask(v[WindowBytes - k] * Power(RabinP, k - 1))]
<1>1. M \in Nat \ {0} /\ WindowBytes \in Nat BY Moduli
<1>2. InitRabin(v) = SumTo(h, WindowBytes) BY DEF InitRabin
<1>3. ASSUME NEW k \in 1 .. WindowBytes PROVE h[k] = Terms(w)[k] % M
  <2>1. WindowBytes + 1 - k \in 1 .. WindowBytes
        /\ (WindowBytes + 1 - k) - 1 = WindowBytes - k
    OBVIOUS
  <2>2. w[WindowBytes + 1 - k] = v[WindowBytes - k] BY <2>1
  <2> QED BY <2>2 DEF Terms, rabin_mask
<1>4. /\ \A k \in 1 .. WindowBytes : Terms(w)[k] \in Nat
      /\ Digits(w) = SumTo(Terms(w), WindowBytes) /\ Digits(w) \in Nat
  BY TermsType
<1> HIDE DEF M, h
<1>5. \A k \in 1 .. WindowBytes : h[k] \in Nat
  <2> SUFFICES ASSUME NEW k \in 1 .. WindowBytes PROVE h[k] \in Nat OBVIOUS
  <2>1. Terms(w)[k] \in Int BY <1>4
  <2>2. (Terms(w)[k] % M) \in 0 .. M - 1 BY <1>1, <2>1, CongSelf
  <2> QED BY <1>1, <1>3, <2>2
<1>6. SumTo(h, WindowBytes) \in Nat
  <2>1. WindowBytes \in 0 .. WindowBytes BY <1>1
  <2> QED BY <1>1, <1>5, <2>1, SumType
<1>7. Cong(SumTo(h, WindowBytes), SumTo(Terms(w), WindowBytes), M)
  BY <1>1, <1>3, <1>4, CongSumTo
<1>8. SumTo(h, WindowBytes) % M = Digits(w) % M
  BY <1>1, <1>4, <1>6, <1>7, CongRemainder
<1> QED BY <1>2, <1>6, <1>8 DEF HashOf, rabin_mask, M

(* A product of a sum. *)
LEMMA Distribute ==
  ASSUME NEW x \in Int, NEW y \in Int, NEW p \in Int
  PROVE  (x + y) * p = (x * p) + (y * p)
OBVIOUS

(* The digits of a window that has moved on by one byte: all but the       *)
(* oldest move up by one place.                                            *)
LEMMA DigitsMove ==
  ASSUME NEW w, IsWindow(w), NEW u, IsWindow(u),
         \A k \in 1 .. WindowBytes - 1 : u[k] = w[k + 1]
  PROVE  Digits(u) = ((Digits(w) - rabin_table(w[1])) * RabinP) + u[WindowBytes]
<1> USE ChunkingAssumption
<1> DEFINE W == WindowBytes
           S(n) == SumTo(Terms(w), n)
           R(n) == SumTo(Terms(u), n)
           b == u[W]
<1>1. /\ \A n \in 0 .. W : S(n) \in Nat /\ R(n) \in Nat
      /\ Digits(w) = S(W) /\ Digits(u) = R(W)
      /\ \A k \in 1 .. W : Terms(w)[k] \in Nat /\ Terms(u)[k] \in Nat
  BY TermsType
<1>2. b \in Nat /\ RabinP \in Nat /\ W \in Nat /\ W > 0 BY DEF IsWindow
<1>3. \A n \in Nat : S(n + 1) = S(n) + Terms(w)[n + 1] BY SumNext
<1>4. \A n \in Nat : R(n + 1) = R(n) + Terms(u)[n + 1] BY SumNext
<1>5. S(0) = 0 /\ R(0) = 0 BY SumZero
<1>6. Terms(u)[1] = b
  <2>1. Terms(u)[1] = u[W + 1 - 1] * Power(RabinP, 1 - 1) BY <1>2 DEF Terms
  <2>2. W + 1 - 1 = W /\ Power(RabinP, 1 - 1) = 1 BY <1>2, PowerZero
  <2> QED BY <1>2, <2>1, <2>2
<1>7. ASSUME NEW k \in 1 .. W - 1
      PROVE  Terms(u)[k + 1] = Terms(w)[k] * RabinP
  <2> DEFINE q == Power(RabinP, k - 1)
             d == w[W + 1 - k]
  <2>1. /\ k + 1 \in 1 .. W /\ k \in 1 .. W
        /\ (k + 1) - 1 = (k - 1) + 1 /\ k - 1 \in Nat
        /\ W + 1 - (k + 1) = W - k /\ W - k \in 1 .. W - 1
        /\ (W - k) + 1 = W + 1 - k /\ W + 1 - k \in 1 .. W
    BY <1>2
  <2>2. Terms(u)[k + 1] = u[W - k] * Power(RabinP, (k - 1) + 1)
    BY <2>1 DEF Terms
  <2>3. u[W - k] = d
    <3>1. u[W - k] = w[(W - k) + 1] BY <2>1
    <3> QED BY <2>1, <3>1
  <2>4. Power(RabinP, (k - 1) + 1) = q * RabinP BY <2>1, PowerNext
  <2>5. q \in Nat BY <1>2, <2>1, PowerType
  <2>6. d \in Nat BY <2>1 DEF IsWindow
  <2>7. Terms(w)[k] = d * q BY <2>1 DEF Terms
  <2> HIDE DEF q, d
  <2>8. d * (q * RabinP) = (d * q) * RabinP BY <1>2, <2>5, <2>6
  <2> QED BY <2>2, <2>3, <2>4, <2>7, <2>8
<1>8. Terms(w)[W] = rabin_table(w[1])
  <2>1. W + 1 - W = 1 BY <1>2
  <2> QED BY <1>2, <2>1 DEF Terms, rabin_table
<1> HIDE DEF S, R, b
<1>9. \A n \in 0 .. W - 1 : R(n + 1) = (S(n) * RabinP) + b
  <2> DEFINE T == {n \in Nat : n <= W - 1 /\ R(n + 1) # (S(n) * RabinP) + b}
  <2>1. SUFFICES ASSUME T # {} PROVE FALSE
    <3> HIDE DEF W
    <3> QED BY <1>2
  <2>2. PICK n \in T : \A m \in T : n <= m BY <2>1, LeastNumber
  <2>3. n # 0
    <3>1. R(0 + 1) = b BY <1>2, <1>4, <1>5, <1>6
    <3> QED BY <1>2, <1>5, <3>1
  <2>4. n - 1 \in Nat /\ n \in 1 .. W - 1 /\ n - 1 \notin T /\ (n - 1) + 1 = n
    BY <2>2, <2>3
  <2>5. R(n) = (S(n - 1) * RabinP) + b BY <2>4
  <2>6. R(n + 1) = R(n) + Terms(u)[n + 1] BY <1>4
  <2>7. S(n) = S(n - 1) + Terms(w)[n]
    <3>1. S((n - 1) + 1) = S(n - 1) + Terms(w)[(n - 1) + 1] BY <1>3, <2>4
    <3> QED BY <2>4, <3>1
  <2>8. Terms(u)[n + 1] = Terms(w)[n] * RabinP BY <1>7, <2>4
  <2>9. S(n - 1) \in Int /\ Terms(w)[n] \in Int /\ n \in 0 .. W /\ n - 1 \in 0 .. W
    BY <1>1, <2>4
  <2>10. (S(n - 1) + Terms(w)[n]) * RabinP = (S(n - 1) * RabinP) + (Terms(w)[n] * RabinP)
    BY <1>2, <2>9, Distribute
  <2>11. S(n - 1) * RabinP \in Int /\ Terms(w)[n] * RabinP \in Int BY <1>2, <2>9
  <2>12. R(n + 1) = (S(n) * RabinP) + b
    BY <1>2, <2>5, <2>6, <2>7, <2>8, <2>10, <2>11
  <2> QED BY <2>2, <2>12
<1>10. W - 1 \in 0 .. W - 1 /\ (W - 1) + 1 = W /\ W - 1 \in Nat BY <1>2
<1>11. R(W) = (S(W - 1) * RabinP) + b BY <1>9, <1>10
<1>12. S(W) = S(W - 1) + rabin_table(w[1])
  <2>1. S((W - 1) + 1) = S(W - 1) + Terms(w)[(W - 1) + 1] BY <1>3, <1>10
  <2> QED BY <1>8, <1>10, <2>1
<1>13. S(W - 1) \in Int /\ rabin_table(w[1]) \in Int
  <2>1. Terms(w)[W] \in Nat BY <1>1, <1>2
  <2> QED BY <1>1, <1>8, <1>10, <2>1
<1>14. S(W) - rabin_table(w[1]) = S(W - 1) BY <1>12, <1>13
<1> QED BY <1>1, <1>11, <1>14 DEF b

(* One turn of the loop: the hash of the window with a byte more and one   *)
(* less, also if it was not masked before.                                 *)
LEMMA RollHash ==
  ASSUME NEW w, IsWindow(w), NEW u, IsWindow(u),
         \A k \in 1 .. WindowBytes - 1 : u[k] = w[k + 1],
         NEW h \in Nat, rabin_mask(h) = HashOf(w)
  PROVE  LET new == rabin_mask((h - rabin_table(w[1])) * RabinP + u[WindowBytes])
         IN  new \in Nat /\ rabin_mask(new) = HashOf(u)
<1> USE ChunkingAssumption
<1> DEFINE M == Power(2, RabinMBits)
           t == rabin_table(w[1])
           b == u[WindowBytes]
           x == ((h - t) * RabinP) + b
           y == Digits(w)
<1>1. M \in Nat \ {0} BY Moduli
<1>2. b \in Nat /\ w[1] \in Nat /\ RabinP \in Nat /\ WindowBytes - 1 \in Nat BY DEF IsWindow
<1>3. t \in Nat
  <2>1. Power(RabinP, WindowBytes - 1) \in Nat BY <1>2, PowerType
  <2> QED BY <1>2, <2>1 DEF rabin_table
<1>4. y \in Nat BY TermsType
<1>5. Digits(u) = ((y - t) * RabinP) + b BY DigitsMove
<1>6. h % M = y % M BY DEF rabin_mask, HashOf
<1> HIDE DEF M, t, b, y
<1>7. Cong(h, y, M) BY <1>1, <1>4, <1>6, RemainderCong
<1>8. Cong(h - t, y - t, M)
  <2>1. PICK k \in Int : h = y + (k * M) BY <1>7 DEF Cong
  <2>2. k * M \in Int BY <1>1
  <2>3. h - t = (y - t) + (k * M) BY <1>3, <1>4, <2>1, <2>2
  <2> QED BY <2>3 DEF Cong
<1>9. Cong((h - t) * RabinP, (y - t) * RabinP, M)
  <2>1. h - t \in Int /\ y - t \in Int /\ RabinP \in Int /\ M \in Nat
    BY <1>1, <1>2, <1>3, <1>4
  <2> QED BY <1>8, <2>1, CongTimes
<1>10. (h - t) * RabinP \in Int /\ (y - t) * RabinP \in Int BY <1>2, <1>3, <1>4
<1>11. Cong(x, Digits(u), M)
  <2>1. PICK k \in Int : (h - t) * RabinP = ((y - t) * RabinP) + (k * M)
    BY <1>9 DEF Cong
  <2>2. k * M \in Int BY <1>1
  <2>3. x = Digits(u) + (k * M) BY <1>2, <1>5, <1>10, <2>1, <2>2
  <2> QED BY <2>3 DEF Cong
<1>12. x \in Int /\ Digits(u) \in Int BY <1>2, <1>5, <1>10
<1> HIDE DEF x
<1>13. x % M = Digits(u) % M BY <1>1, <1>11, <1>12, CongRemainder
<1>14. rabin_mask(x) = HashOf(u) BY <1>13 DEF rabin_mask, HashOf, M
<1>15. rabin_mask(x) \in Nat /\ rabin_mask(rabin_mask(x)) = HashOf(u)
  BY <1>12, <1>14, MaskTwice
<1> QED BY <1>15 DEF x, t, b

(* The bytes that a chunk is judged by are in the message. *)
LEMMA JudgedType ==
  ASSUME CountInv, WindowInv, NEW ind \in Nat, NEW n \in Nat,
         MinChunk <= n, ind + n <= num_bytes
  PROVE  IsWindow(JudgedBy(ind, n))
<1> USE ChunkingAssumption
<1> SUFFICES ASSUME NEW k \in 1 .. WindowBytes PROVE JudgedBy(ind, n)[k] \in Nat
  BY DEF IsWindow
<1> DEFINE m == n - WindowBytes - 1 + k
<1>1. JudgedBy(ind, n)[k] = Seen(ind, m) BY DEF JudgedBy
<1>2. m \in 1 .. n - 1 /\ num_bytes \in Nat BY DEF CountInv
<1>3. Seen(ind, m) = data[ind + IF m < MinChunk THEN m - 1 ELSE m] BY DEF Seen
<1> HIDE DEF m
<1>4. (ind + IF m < MinChunk THEN m - 1 ELSE m) \in 0 .. num_bytes - 1 BY <1>2
<1> QED BY <1>1, <1>3, <1>4 DEF WindowInv

(* The window that init_rabin fills holds the bytes that the smallest      *)
(* chunk is judged by, and the hash is theirs.                             *)
LEMMA FillFacts ==
  ASSUME CountInv, WindowInv, NEW ind \in Nat, ind + MinChunk <= num_bytes
  PROVE  /\ WindowAt(ind) \in [0 .. WindowBytes - 1 -> Nat]
         /\ \A j \in 0 .. WindowBytes - 1 :
              WindowAt(ind)[j] = Seen(ind, MinChunk - WindowBytes + j)
         /\ InitRabin(WindowAt(ind)) \in Nat
         /\ rabin_mask(InitRabin(WindowAt(ind))) = HashOf(JudgedBy(ind, MinChunk))
<1> USE ChunkingAssumption
<1> DEFINE w == JudgedBy(ind, MinChunk)
           v == WindowAt(ind)
<1>1. IsWindow(w) BY JudgedType
<1>2. ASSUME NEW j \in 0 .. WindowBytes - 1
      PROVE  v[j] = Seen(ind, MinChunk - WindowBytes + j)
  <2>1. v[j] = data[ind + MinChunk - 1 - WindowBytes + j] BY DEF WindowAt
  <2>2. MinChunk - WindowBytes + j < MinChunk OBVIOUS
  <2>3. Seen(ind, MinChunk - WindowBytes + j) = data[ind + (MinChunk - WindowBytes + j - 1)]
    BY <2>2 DEF Seen
  <2>4. ind + (MinChunk - WindowBytes + j - 1) = ind + MinChunk - 1 - WindowBytes + j
    OBVIOUS
  <2> QED BY <2>1, <2>3, <2>4
<1>3. ASSUME NEW k \in 1 .. WindowBytes PROVE w[k] = v[k - 1]
  <2>1. w[k] = Seen(ind, MinChunk - WindowBytes - 1 + k) BY DEF JudgedBy
  <2>2. /\ k - 1 \in 0 .. WindowBytes - 1
        /\ MinChunk - WindowBytes - 1 + k = MinChunk - WindowBytes + (k - 1)
    OBVIOUS
  <2> QED BY <1>2, <2>1, <2>2
<1>4. ASSUME NEW j \in 0 .. WindowBytes - 1 PROVE v[j] \in Nat
  <2>1. j + 1 \in 1 .. WindowBytes /\ (j + 1) - 1 = j OBVIOUS
  <2>2. w[j + 1] = v[(j + 1) - 1] BY <1>3, <2>1
  <2> QED BY <1>1, <2>1, <2>2 DEF IsWindow
<1>5. v \in [0 .. WindowBytes - 1 -> Nat]
  <2>1. v = [j \in 0 .. WindowBytes - 1 |-> v[j]] BY DEF WindowAt
  <2> HIDE DEF v
  <2> QED BY <1>4, <2>1
<1> HIDE DEF v, w
<1>6. InitRabin(v) \in Nat /\ rabin_mask(InitRabin(v)) = HashOf(w)
  BY <1>1, <1>3, InitHash
<1> QED BY <1>2, <1>5, <1>6 DEF v, w

(* The next slot of the ring is the remainder that the code computes.      *)
LEMMA NextSlot ==
  ASSUME NEW s \in 0 .. WindowBytes - 1
  PROVE  (s + 1) % WindowBytes = IF s + 1 < WindowBytes THEN s + 1 ELSE 0
<1> USE ChunkingAssumption
<1>1. CASE s + 1 < WindowBytes
  <2>1. s + 1 = (0 * WindowBytes) + (s + 1) /\ s + 1 \in 0 .. WindowBytes - 1
        /\ WindowBytes \in Nat \ {0} /\ s + 1 \in Int
    BY <1>1
  <2>2. (s + 1) % WindowBytes = s + 1 BY <2>1, RemainderUnique
  <2> QED BY <1>1, <2>2
<1>2. CASE ~ (s + 1 < WindowBytes)
  <2>1. s + 1 = (1 * WindowBytes) + 0 /\ 0 \in 0 .. WindowBytes - 1
        /\ WindowBytes \in Nat \ {0} /\ s + 1 \in Int
    BY <1>2
  <2>2. (s + 1) % WindowBytes = 0 BY <2>1, RemainderUnique
  <2> QED BY <1>2, <2>2
<1> QED BY <1>1, <1>2

(* The window starts out as numbers. *)
LEMMA InitCutInv == Init => CutInv
<1> SUFFICES ASSUME Init PROVE CutInv OBVIOUS
<1> USE ChunkingAssumption
<1>1. num_bytes \in Nat \ {0} /\ pc = "start" BY DEF Init
<1>2. data \in [0 .. num_bytes - 1 -> Nat]
  <2>1. data \in [0 .. num_bytes - 1 -> Bytes] BY DEF Init
  <2> QED BY <2>1
<1>3. window \in [0 .. WindowBytes - 1 -> Nat] BY DEF Init
<1>4. 0 \in 0 .. WindowBytes - 1 OBVIOUS
<1>5. WindowInv BY <1>1, <1>2, <1>3, <1>4 DEF Init, WindowInv
<1>6. RollInv BY <1>1 DEF RollInv
<1>7. ContentDefined BY DEF Init, ContentDefined, NumFingerprints
<1> QED BY <1>5, <1>6, <1>7 DEF CutInv

(* Every step keeps the message, the window and the hash numbers, and the  *)
(* slots as many as the windows that were filled.                          *)
LEMMA StepWindowInv == IInv /\ WindowInv /\ [Next]_vars => WindowInv'
<1> SUFFICES ASSUME IInv, WindowInv, [Next]_vars PROVE WindowInv' OBVIOUS
<1> USE ChunkingAssumption
<1>1. CountInv /\ SizeInv BY DEF IInv
<1>2. /\ data \in [0 .. num_bytes - 1 -> Nat] /\ window_slot \in 0 .. WindowBytes - 1
      /\ window \in [0 .. WindowBytes - 1 -> Nat] /\ cur_rabin \in Nat
      /\ slots \in Seq(Nat) /\ content_sizes \in Seq(Nat) /\ num_bytes \in Nat
  BY <1>1 DEF WindowInv, CountInv, SizeInv
<1>3. CASE OneChunk
  <2>1. /\ ~ (num_bytes > MinChunk) /\ pc' # "start"
        /\ UNCHANGED <<data, num_bytes, window, window_slot, cur_rabin, slots>>
    BY <1>2, <1>3 DEF OneChunk
  <2> QED BY <1>2, <2>1 DEF WindowInv
<1>4. CASE FirstWindow
  <2> DEFINE v == WindowAt(0)
  <2>1. /\ pc = "start" /\ num_bytes > MinChunk /\ window' = v
        /\ cur_rabin' = rabin_mask(InitRabin(v)) /\ slots' = <<window_slot>>
        /\ pc' = "scan"
        /\ UNCHANGED <<data, num_bytes, window_slot, content_sizes>>
    BY <1>4 DEF FirstWindow
  <2>2. 0 \in Nat /\ 0 + MinChunk <= num_bytes BY <1>2, <2>1
  <2>3. v \in [0 .. WindowBytes - 1 -> Nat] /\ InitRabin(v) \in Nat
    BY <1>1, <2>2, FillFacts
  <2>4. rabin_mask(InitRabin(v)) \in Nat BY <2>3, MaskTwice
  <2>5. Len(content_sizes) = 0 BY <1>1, <2>1 DEF SizeInv
  <2> HIDE DEF v
  <2>6. slots' \in Seq(Nat) /\ Len(slots') = 1 BY <1>2, <2>1
  <2> QED BY <1>2, <2>1, <2>3, <2>4, <2>5, <2>6 DEF WindowInv
<1>5. CASE EmitChunk
  <2>1. /\ pc = "scan" /\ EndsChunk /\ content_sizes' = Append(content_sizes, ChunkSize)
        /\ pc' # "start" /\ pc' # "scan"
        /\ UNCHANGED <<data, num_bytes, window, window_slot, cur_rabin, slots>>
    BY <1>5 DEF EmitChunk
  <2>2. ChunkSize \in Nat BY <1>1, <2>1, ChunkSizeFacts
  <2>3. Len(content_sizes') = Len(content_sizes) + 1 BY <1>2, <2>1, <2>2
  <2> QED BY <1>2, <2>1, <2>3 DEF WindowInv
<1>6. CASE RefillWindow
  <2>1. PICK st : st = cur_start_ind OBVIOUS
  <2> DEFINE v == WindowAt(st)
  <2>2. /\ pc = "refill" /\ window' = v /\ cur_rabin' = InitRabin(v)
        /\ slots' = Append(slots, window_slot) /\ pc' = "scan"
        /\ UNCHANGED <<data, num_bytes, window_slot, content_sizes>>
    BY <1>6, <2>1 DEF RefillWindow
  <2>3. st \in Nat /\ st + MinChunk <= num_bytes BY <1>1, <2>1, <2>2 DEF CountInv
  <2>4. v \in [0 .. WindowBytes - 1 -> Nat] /\ InitRabin(v) \in Nat
    BY <1>1, <2>3, FillFacts
  <2> HIDE DEF v
  <2>5. slots' \in Seq(Nat) /\ Len(slots') = Len(slots) + 1 BY <1>2, <2>2
  <2>6. num_bytes > MinChunk => Len(slots) = Len(content_sizes)
    BY <1>2, <2>2 DEF WindowInv
  <2>7. num_bytes > MinChunk =>
          Len(slots') = Len(content_sizes') + 1
    BY <1>2, <2>2, <2>5, <2>6
  <2> QED BY <1>2, <2>2, <2>4, <2>5, <2>7 DEF WindowInv
<1>7. CASE Roll
  <2> DEFINE b == data[cur_start_ind + cur_size]
             x == (cur_rabin - rabin_table(window[window_slot])) * RabinP + b
  <2>1. /\ pc = "scan" /\ ~ EndsChunk /\ cur_rabin' = rabin_mask(x)
        /\ window' = [window EXCEPT ![window_slot] = b]
        /\ window_slot' = (window_slot + 1) % WindowBytes
        /\ UNCHANGED <<data, num_bytes, pc, content_sizes, slots>>
    BY <1>7 DEF Roll
  <2>2. b \in Nat
    <3>1. cur_start_ind + cur_size \in 0 .. num_bytes - 1
      BY <1>1, <2>1 DEF CountInv, EndsChunk
    <3> QED BY <1>2, <3>1
  <2>3. x \in Int
    <3>1. window[window_slot] \in Nat BY <1>2
    <3>2. Power(RabinP, WindowBytes - 1) \in Nat BY PowerType
    <3>3. rabin_table(window[window_slot]) \in Nat BY <3>1, <3>2 DEF rabin_table
    <3> HIDE DEF b
    <3> QED BY <1>2, <2>2, <3>3
  <2> HIDE DEF b, x
  <2>4. cur_rabin' \in Nat BY <2>1, <2>3, MaskTwice
  <2>5. window_slot' \in 0 .. WindowBytes - 1 BY <1>2, <2>1, NextSlot
  <2>6. window' \in [0 .. WindowBytes - 1 -> Nat] BY <1>2, <2>1, <2>2
  <2> QED BY <1>2, <2>1, <2>4, <2>5, <2>6 DEF WindowInv
<1>8. CASE Package
  <2>1. /\ pc = "package" /\ pc' = "done"
        /\ UNCHANGED <<data, num_bytes, window, window_slot, cur_rabin, slots, content_sizes>>
    BY <1>8 DEF Package
  <2> QED BY <1>2, <2>1 DEF WindowInv
<1>9. CASE UNCHANGED vars BY <1>9 DEF vars, WindowInv
<1> QED BY <1>3, <1>4, <1>5, <1>6, <1>7, <1>8, <1>9 DEF Next

(* Where a chunk is cut depends on the message only. *)
LEMMA SameData ==
  ASSUME data' = data, num_bytes' = num_bytes
  PROVE  \A s : /\ DefinedSize(s)' = DefinedSize(s)
                /\ \A n : /\ Seen(s, n)' = Seen(s, n)
                          /\ JudgedBy(s, n)' = JudgedBy(s, n)
                          /\ IsCut(s, n)' <=> IsCut(s, n)
                          /\ \A win, slot, h :
                               Rolled(s, n, win, slot, h)' <=> Rolled(s, n, win, slot, h)
<1>1. \A s, n : Seen(s, n)' = Seen(s, n) BY DEF Seen
<1>2. \A s, n : JudgedBy(s, n)' = JudgedBy(s, n) BY <1>1 DEF JudgedBy
<1>3. \A s, n : IsCut(s, n)' <=> IsCut(s, n) BY <1>2 DEF IsCut
<1>4. \A s : DefinedSize(s)' = DefinedSize(s)
  <2>1. \A s : Ends(s)' = Ends(s) BY <1>3 DEF Ends
  <2> QED BY <2>1 DEF DefinedSize
<1>5. \A s, n, win, slot, h : Rolled(s, n, win, slot, h)' <=> Rolled(s, n, win, slot, h)
  BY <1>1, <1>2, <1>3 DEF Rolled
<1> QED BY <1>1, <1>2, <1>3, <1>4, <1>5

(* A window just filled is rolled up to the smallest chunk. *)
LEMMA FilledIsRolled ==
  ASSUME CountInv, WindowInv, NEW st \in Nat, st + MinChunk <= num_bytes,
         NEW h \in Nat, rabin_mask(h) = rabin_mask(InitRabin(WindowAt(st)))
  PROVE  Rolled(st, MinChunk, WindowAt(st), 0, h)
<1> USE ChunkingAssumption
<1>1. /\ \A j \in 0 .. WindowBytes - 1 :
           WindowAt(st)[j] = Seen(st, MinChunk - WindowBytes + j)
      /\ rabin_mask(InitRabin(WindowAt(st))) = HashOf(JudgedBy(st, MinChunk))
  BY FillFacts
<1>2. \A j \in 0 .. WindowBytes - 1 : 0 + j < WindowBytes /\ 0 + j = j OBVIOUS
<1>3. MinChunk .. MinChunk - 1 = {} OBVIOUS
<1> QED BY <1>1, <1>2, <1>3 DEF Rolled

(* The hash at size n decides whether n is a cut. *)
LEMMA RolledDecides ==
  ASSUME CountInv, WindowInv, NEW st \in Nat, NEW n \in Nat,
         MinChunk <= n, st + n <= num_bytes,
         NEW win, NEW slot, NEW h \in Nat, Rolled(st, n, win, slot, h)
  PROVE  IsCut(st, n) <=> magic_mask(h) = MagicVal
<1> DEFINE d == Digits(JudgedBy(st, n))
<1>1. IsWindow(JudgedBy(st, n)) BY JudgedType
<1>2. d \in Nat BY <1>1, TermsType
<1>3. HashOf(JudgedBy(st, n)) = rabin_mask(d) BY DEF HashOf
<1> HIDE DEF d
<1>4. rabin_mask(h) = rabin_mask(d) BY <1>3 DEF Rolled
<1>5. magic_mask(h) = magic_mask(rabin_mask(d)) BY <1>2, <1>4, MagicOfMask
<1> QED BY <1>3, <1>5 DEF IsCut

(* One more byte: the ring, the hash and the sizes ruled out move on.      *)
LEMMA RollIsRolled ==
  ASSUME CountInv, WindowInv, NEW st \in Nat, NEW n \in Nat,
         MinChunk <= n, st + n < num_bytes,
         NEW win \in [0 .. WindowBytes - 1 -> Nat], NEW slot \in 0 .. WindowBytes - 1,
         NEW h \in Nat, Rolled(st, n, win, slot, h), magic_mask(h) # MagicVal
  PROVE  LET b == data[st + n] IN
         Rolled(st, n + 1, [win EXCEPT ![slot] = b], (slot + 1) % WindowBytes,
                rabin_mask((h - rabin_table(win[slot])) * RabinP + b))
<1> USE ChunkingAssumption
<1> DEFINE b == data[st + n]
           w == JudgedBy(st, n)
           u == JudgedBy(st, n + 1)
           slot1 == (slot + 1) % WindowBytes
           win1 == [win EXCEPT ![slot] = b]
           x == (h - rabin_table(win[slot])) * RabinP + b
<1>1. IsWindow(w)
  <2>1. st + n <= num_bytes BY DEF CountInv
  <2> QED BY <2>1, JudgedType
<1>2. IsWindow(u)
  <2>1. st + (n + 1) <= num_bytes /\ n + 1 \in Nat BY DEF CountInv
  <2> QED BY <2>1, JudgedType
<1>3. b = Seen(st, n) BY DEF Seen
<1>4. \A j \in 0 .. WindowBytes - 1 :
        win[IF slot + j < WindowBytes THEN slot + j ELSE slot + j - WindowBytes]
          = Seen(st, n - WindowBytes + j)
  BY DEF Rolled
<1>5. win[slot] = Seen(st, n - WindowBytes)
  <2>1. 0 \in 0 .. WindowBytes - 1 /\ slot + 0 < WindowBytes /\ slot + 0 = slot
        /\ n - WindowBytes + 0 = n - WindowBytes
    OBVIOUS
  <2> QED BY <1>4, <2>1
<1>6. w[1] = win[slot]
  <2>1. n - WindowBytes - 1 + 1 = n - WindowBytes /\ 1 \in 1 .. WindowBytes OBVIOUS
  <2> QED BY <1>5, <2>1 DEF JudgedBy
<1>7. u[WindowBytes] = b
  <2>1. (n + 1) - WindowBytes - 1 + WindowBytes = n /\ WindowBytes \in 1 .. WindowBytes
    OBVIOUS
  <2> QED BY <1>3, <2>1 DEF JudgedBy
<1>8. ASSUME NEW k \in 1 .. WindowBytes - 1 PROVE u[k] = w[k + 1]
  <2>1. /\ k \in 1 .. WindowBytes /\ k + 1 \in 1 .. WindowBytes
        /\ (n + 1) - WindowBytes - 1 + k = n - WindowBytes - 1 + (k + 1)
    OBVIOUS
  <2> QED BY <2>1 DEF JudgedBy
<1>9. rabin_mask(h) = HashOf(w) BY DEF Rolled
<1>10. slot1 = IF slot + 1 < WindowBytes THEN slot + 1 ELSE 0 BY NextSlot
<1>11. ~ IsCut(st, n)
  <2>1. st + n <= num_bytes BY DEF CountInv
  <2> QED BY <2>1, RolledDecides
<1>12. \A m \in MinChunk .. n - 1 : ~ IsCut(st, m) BY DEF Rolled
<1>13. ASSUME NEW m \in MinChunk .. (n + 1) - 1 PROVE ~ IsCut(st, m)
  <2>1. m \in MinChunk .. n - 1 \/ m = n OBVIOUS
  <2> QED BY <1>11, <1>12, <2>1
<1>14. rabin_mask(rabin_mask(x)) = HashOf(u)
  <2> HIDE DEF w, u, b
  <2>1. rabin_mask(rabin_mask((h - rabin_table(w[1])) * RabinP + u[WindowBytes])) = HashOf(u)
    BY <1>1, <1>2, <1>8, <1>9, RollHash
  <2> QED BY <1>6, <1>7, <2>1
<1>15. ASSUME NEW j \in 0 .. WindowBytes - 1
       PROVE  win1[IF slot1 + j < WindowBytes THEN slot1 + j ELSE slot1 + j - WindowBytes]
                = Seen(st, (n + 1) - WindowBytes + j)
  <2> DEFINE r == IF slot1 + j < WindowBytes THEN slot1 + j ELSE slot1 + j - WindowBytes
  <2> HIDE DEF slot1
  <2>1. CASE j = WindowBytes - 1
    <3>1. r = slot BY <1>10, <2>1
    <3>2. (n + 1) - WindowBytes + j = n BY <2>1
    <3>3. win1[slot] = b OBVIOUS
    <3> QED BY <1>3, <3>1, <3>2, <3>3
  <2>2. CASE j # WindowBytes - 1
    <3> DEFINE i == j + 1
    <3>1. i \in 0 .. WindowBytes - 1 /\ (n + 1) - WindowBytes + j = n - WindowBytes + i
      BY <2>2
    <3>2. /\ r = IF slot + i < WindowBytes THEN slot + i ELSE slot + i - WindowBytes
          /\ r # slot /\ r \in 0 .. WindowBytes - 1
      BY <1>10, <2>2
    <3> HIDE DEF i, r
    <3>3. win[r] = Seen(st, n - WindowBytes + i) BY <1>4, <3>1, <3>2
    <3>4. win1[r] = win[r] BY <3>2
    <3> QED BY <3>1, <3>3, <3>4 DEF r
  <2> QED BY <2>1, <2>2
<1> HIDE DEF slot1, win1, x, b, u
<1>16. Rolled(st, n + 1, win1, slot1, rabin_mask(x))
  BY <1>13, <1>14, <1>15 DEF Rolled, u
<1> QED BY <1>16 DEF slot1, win1, x, b

(* Every step keeps the ring and the hash those of the last bytes. *)
LEMMA StepRollInv == IInv /\ WindowInv /\ RollInv /\ [Next]_vars => RollInv'
<1> SUFFICES ASSUME IInv, WindowInv, RollInv, [Next]_vars, pc' = "scan",
                    slots'[Len(slots')] = 0
             PROVE  Rolled(cur_start_ind, cur_size, window, window_slot, cur_rabin)'
  BY DEF RollInv
<1> USE ChunkingAssumption
<1>1. CountInv /\ SizeInv BY DEF IInv
<1>2. /\ window_slot \in 0 .. WindowBytes - 1 /\ slots \in Seq(Nat)
      /\ window \in [0 .. WindowBytes - 1 -> Nat] /\ cur_rabin \in Nat
      /\ num_bytes \in Nat /\ cur_start_ind \in Nat /\ cur_size \in Nat
  BY <1>1 DEF WindowInv, CountInv
<1>3. ASSUME data' = data, num_bytes' = num_bytes,
             NEW st, NEW n, NEW win, NEW slot, NEW h, Rolled(st, n, win, slot, h),
             st = cur_start_ind', n = cur_size', win = window', slot = window_slot',
             h = cur_rabin'
      PROVE  Rolled(cur_start_ind, cur_size, window, window_slot, cur_rabin)'
  <2>1. Rolled(st, n, win, slot, h)' BY <1>3, SameData
  <2> QED BY <1>3, <2>1 DEF Rolled
<1>4. CASE FirstWindow
  <2>1. PICK h : h = rabin_mask(InitRabin(WindowAt(0))) OBVIOUS
  <2>2. PICK win : win = WindowAt(0) OBVIOUS
  <2>3. /\ pc = "start" /\ num_bytes > MinChunk /\ window' = win /\ cur_rabin' = h
        /\ data' = data /\ num_bytes' = num_bytes
        /\ cur_start_ind' = cur_start_ind /\ cur_size' = cur_size
        /\ window_slot' = window_slot
    BY <1>4, <2>1, <2>2 DEF FirstWindow
  <2>4. cur_start_ind = 0 /\ cur_size = MinChunk /\ window_slot = 0
    BY <1>1, <2>3 DEF CountInv, WindowInv
  <2>5. 0 \in Nat /\ 0 + MinChunk <= num_bytes BY <1>2, <2>3
  <2>6. InitRabin(WindowAt(0)) \in Nat BY <1>1, <2>5, FillFacts
  <2>7. h \in Nat /\ rabin_mask(h) = rabin_mask(InitRabin(WindowAt(0)))
    BY <2>1, <2>6, MaskTwice
  <2>8. Rolled(0, MinChunk, win, 0, h) BY <1>1, <2>2, <2>5, <2>7, FilledIsRolled
  <2> QED BY <1>3, <2>3, <2>4, <2>8
<1>5. CASE RefillWindow
  <2>1. PICK st : st = cur_start_ind OBVIOUS
  <2>2. PICK h : h = InitRabin(WindowAt(st)) OBVIOUS
  <2>3. PICK win : win = WindowAt(st) OBVIOUS
  <2>4. /\ pc = "refill" /\ window' = win /\ cur_rabin' = h
        /\ data' = data /\ num_bytes' = num_bytes
        /\ cur_start_ind' = st /\ cur_size' = MinChunk
        /\ window_slot' = window_slot /\ slots' = Append(slots, window_slot)
    BY <1>5, <2>1, <2>2, <2>3 DEF RefillWindow
  <2>5. window_slot = 0
    <3>1. slots'[Len(slots')] = window_slot BY <1>2, <2>4
    <3> QED BY <3>1
  <2>6. st \in Nat /\ st + MinChunk <= num_bytes
    BY <1>1, <2>1, <2>4 DEF CountInv
  <2>7. h \in Nat BY <1>1, <2>2, <2>6, FillFacts
  <2>8. Rolled(st, MinChunk, win, 0, h)
    BY <1>1, <2>2, <2>3, <2>6, <2>7, FilledIsRolled
  <2> QED BY <1>3, <2>4, <2>5, <2>8
<1>6. CASE Roll
  <2>1. PICK st, n : st = cur_start_ind /\ n = cur_size OBVIOUS
  <2>2. PICK win, slot, h : win = window /\ slot = window_slot /\ h = cur_rabin OBVIOUS
  <2>3. PICK b : b = data[st + n] OBVIOUS
  <2>4. /\ pc = "scan" /\ ~ EndsChunk
        /\ cur_rabin' = rabin_mask((h - rabin_table(win[slot])) * RabinP + b)
        /\ window' = [win EXCEPT ![slot] = b]
        /\ window_slot' = (slot + 1) % WindowBytes
        /\ cur_size' = n + 1 /\ cur_start_ind' = st
        /\ data' = data /\ num_bytes' = num_bytes /\ slots' = slots
    BY <1>6, <2>1, <2>2, <2>3 DEF Roll
  <2>5. Rolled(st, n, win, slot, h)
    <3>1. Rolled(cur_start_ind, cur_size, window, window_slot, cur_rabin)
      BY <2>4 DEF RollInv
    <3> QED BY <2>1, <2>2, <3>1 DEF Rolled
  <2>6. magic_mask(h) # MagicVal BY <2>2, <2>4 DEF EndsChunk
  <2>7. st \in Nat /\ n \in Nat /\ MinChunk <= n /\ st + n < num_bytes
    BY <1>1, <2>1, <2>4 DEF CountInv, EndsChunk
  <2>8. Rolled(st, n + 1, [win EXCEPT ![slot] = b], (slot + 1) % WindowBytes,
               rabin_mask((h - rabin_table(win[slot])) * RabinP + b))
    BY <1>1, <1>2, <2>2, <2>3, <2>5, <2>6, <2>7, RollIsRolled
  <2> QED BY <1>3, <2>4, <2>8
<1>7. CASE UNCHANGED vars
  <2>1. PICK st, n : st = cur_start_ind /\ n = cur_size OBVIOUS
  <2>2. PICK win, slot, h : win = window /\ slot = window_slot /\ h = cur_rabin OBVIOUS
  <2>3. /\ pc = "scan" /\ slots[Len(slots)] = 0 /\ data' = data /\ num_bytes' = num_bytes
        /\ st = cur_start_ind' /\ n = cur_size' /\ win = window' /\ slot = window_slot'
        /\ h = cur_rabin'
    BY <1>7, <2>1, <2>2 DEF vars
  <2>4. Rolled(st, n, win, slot, h)
    <3>1. Rolled(cur_start_ind, cur_size, window, window_slot, cur_rabin)
      BY <2>3 DEF RollInv
    <3> QED BY <2>1, <2>2, <3>1 DEF Rolled
  <2> QED BY <1>3, <2>3, <2>4
<1>8. ~ OneChunk /\ ~ EmitChunk /\ ~ Package BY DEF OneChunk, EmitChunk, Package
<1> QED BY <1>4, <1>5, <1>6, <1>7, <1>8 DEF Next

(* The first of a set of numbers. *)
LEMMA FirstIs ==
  ASSUME NEW S \in SUBSET Int, NEW n \in S, \A m \in S : n <= m
  PROVE  First(S) = n
<1> DEFINE IsFirst(x) == x \in S /\ \A m \in S : x <= m
<1>1. First(S) = CHOOSE x : IsFirst(x) BY DEF First
<1>2. IsFirst(n) OBVIOUS
<1> HIDE DEF IsFirst
<1>3. IsFirst(First(S)) BY <1>1, <1>2
<1>4. First(S) \in S /\ First(S) <= n /\ n <= First(S) BY <1>3 DEF IsFirst
<1>5. PICK x : x = First(S) OBVIOUS
<1>6. x \in Int /\ n \in Int BY <1>4, <1>5
<1>7. x <= n /\ n <= x BY <1>4, <1>5
<1>8. x = n BY <1>6, <1>7
<1> QED BY <1>5, <1>8

(* A chunk whose ring began at slot 0 gets the size that its own bytes     *)
(* define: no smaller one was a cut, and this one is, or is the last.      *)
LEMMA EmittedSize ==
  ASSUME IInv, WindowInv, RollInv, pc = "scan", EndsChunk, slots[Len(slots)] = 0,
         NEW st, st = cur_start_ind
  PROVE  ChunkSize = DefinedSize(st)
<1> USE ChunkingAssumption
<1>1. CountInv BY DEF IInv
<1>2. PICK n : n = cur_size OBVIOUS
<1>3. PICK win, slot, h : win = window /\ slot = window_slot /\ h = cur_rabin OBVIOUS
<1> DEFINE left == num_bytes - st
           cuts == {m \in MinChunk .. left : IsCut(st, m)}
<1>4. /\ st \in Nat /\ n \in Nat /\ MinChunk <= n /\ n <= MaxChunk
      /\ left = remain_bytes /\ n <= left /\ left \in Nat /\ st + n <= num_bytes
  BY <1>1, <1>2 DEF CountInv
<1>5. h \in Nat BY <1>3 DEF WindowInv
<1>6. Rolled(st, n, win, slot, h)
  <2>1. Rolled(cur_start_ind, cur_size, window, window_slot, cur_rabin) BY DEF RollInv
  <2> QED BY <1>2, <1>3, <2>1 DEF Rolled
<1>7. IsCut(st, n) <=> magic_mask(h) = MagicVal
  BY <1>1, <1>4, <1>5, <1>6, RolledDecides
<1>8. magic_mask(h) = MagicVal \/ n >= MaxChunk \/ n >= left
  BY <1>2, <1>3, <1>4 DEF EndsChunk
<1>9. Ends(st) = cuts \cup {MaxChunk, left} BY DEF Ends
<1>10. \A m \in MinChunk .. n - 1 : ~ IsCut(st, m) BY <1>6 DEF Rolled
<1>11. cuts \subseteq Int /\ \A m \in cuts : n <= m
  <2> SUFFICES ASSUME NEW m \in cuts PROVE m \in Int /\ n <= m OBVIOUS
  <2>1. m \in MinChunk .. left /\ IsCut(st, m) OBVIOUS
  <2>2. m \in Int /\ MinChunk <= m BY <1>4, <2>1
  <2>3. m \notin MinChunk .. n - 1 BY <1>10, <2>1
  <2> QED BY <1>4, <2>2, <2>3
<1>12. n \in cuts \/ n = MaxChunk \/ n = left BY <1>4, <1>7, <1>8
<1> HIDE DEF cuts, left
<1>13. Ends(st) \in SUBSET Int /\ n \in Ends(st) /\ \A m \in Ends(st) : n <= m
  <2>1. MaxChunk \in Int /\ left \in Int BY <1>4
  <2>2. Ends(st) \in SUBSET Int BY <1>9, <1>11, <2>1
  <2>3. n \in Ends(st) BY <1>9, <1>12
  <2>4. \A m \in Ends(st) : n <= m BY <1>4, <1>9, <1>11
  <2> QED BY <2>2, <2>3, <2>4
<1>14. First(Ends(st)) = n BY <1>13, FirstIs
<1>15. DefinedSize(st) = IF left - n < MinChunk THEN left ELSE n
  BY <1>14 DEF DefinedSize, left
<1>16. ChunkSize = IF n >= left \/ left - n < MinChunk THEN left ELSE n
  BY <1>2, <1>4 DEF ChunkSize
<1> QED BY <1>4, <1>15, <1>16

(* Every step leaves the chunks so far, and a new one is where its bytes   *)
(* say.                                                                    *)
LEMMA StepDefined == IInv /\ CutInv /\ [Next]_vars => ContentDefined'
<1> USE ChunkingAssumption
<1> SUFFICES ASSUME IInv, CutInv, [Next]_vars,
                    NEW c \in 1 .. Len(content_sizes'),
                    num_bytes' > MinChunk, slots'[c] = 0
             PROVE  content_sizes'[c] = DefinedSize(StartOf(c))'
  BY DEF ContentDefined, NumFingerprints
<1>1. CountInv /\ SizeInv /\ CoverInv /\ WindowInv /\ RollInv BY DEF IInv, CutInv
<1>2. content_sizes \in Seq(Nat) /\ slots \in Seq(Nat) /\ num_bytes \in Nat
  BY <1>1 DEF SizeInv, WindowInv, CountInv
<1>3. data' = data /\ num_bytes' = num_bytes
  BY DEF Next, vars, OneChunk, FirstWindow, EmitChunk, RefillWindow, Roll, Package
<1>4. ASSUME NEW st, st = StartOf(c)'
      PROVE  DefinedSize(StartOf(c))' = DefinedSize(st)
  <2>1. DefinedSize(st)' = DefinedSize(st) BY <1>3, SameData
  <2>2. DefinedSize(StartOf(c))' = DefinedSize(st)'
    BY <1>4 DEF DefinedSize, Ends, IsCut, JudgedBy, Seen
  <2> QED BY <2>1, <2>2
<1>5. ASSUME c <= Len(content_sizes), slots[c] = 0,
             content_sizes'[c] = content_sizes[c],
             \A j \in 1 .. c - 1 : content_sizes'[j] = content_sizes[j]
      PROVE  content_sizes'[c] = DefinedSize(StartOf(c))'
  <2>1. PICK st : st = SumTo(content_sizes, c - 1) OBVIOUS
  <2>2. c - 1 \in Nat /\ c \in 1 .. Len(content_sizes) BY <1>2, <1>5
  <2>3. SumTo(content_sizes', c - 1) = st BY <1>5, <2>1, <2>2, SumAgree
  <2>4. content_sizes[c] = DefinedSize(StartOf(c))
    BY <1>3, <1>5, <2>2 DEF CutInv, ContentDefined, NumFingerprints
  <2>5. DefinedSize(StartOf(c)) = DefinedSize(st)
    BY <2>1 DEF StartOf, DefinedSize, Ends, IsCut, JudgedBy, Seen
  <2>6. DefinedSize(StartOf(c))' = DefinedSize(st) BY <1>4, <2>3 DEF StartOf
  <2> QED BY <1>5, <2>4, <2>5, <2>6
<1>6. CASE EmitChunk
  <2>1. pc = "scan" /\ EndsChunk /\ content_sizes' = Append(content_sizes, ChunkSize)
        /\ slots' = slots
    BY <1>6 DEF EmitChunk
  <2>2. ChunkSize \in Nat BY <1>1, <2>1, ChunkSizeFacts
  <2> DEFINE n == Len(content_sizes)
  <2>3. /\ n \in Nat /\ Len(content_sizes') = n + 1 /\ content_sizes'[n + 1] = ChunkSize
        /\ \A j \in 1 .. n : content_sizes'[j] = content_sizes[j]
    BY <1>2, <2>1, <2>2
  <2>4. CASE c <= n
    <3>1. c \in 1 .. n /\ 1 .. c - 1 \subseteq 1 .. n BY <2>3, <2>4
    <3> QED BY <1>5, <2>1, <2>3, <2>4, <3>1
  <2>5. CASE c = n + 1
    <3>1. Len(slots) = n + 1 BY <1>1, <1>3, <2>1 DEF WindowInv
    <3>2. slots[Len(slots)] = 0 BY <2>1, <2>5, <3>1
    <3>3. PICK st : st = cur_start_ind OBVIOUS
    <3>4. ChunkSize = DefinedSize(st) BY <1>1, <2>1, <3>2, <3>3, EmittedSize
    <3>5. SumTo(content_sizes, n) = st BY <1>1, <1>3, <3>3 DEF CoverInv
    <3>6. SumTo(content_sizes', n) = st BY <2>3, <3>5, SumAgree
    <3>7. c - 1 = n BY <2>3, <2>5
    <3>8. DefinedSize(StartOf(c))' = DefinedSize(st)
      BY <1>4, <3>6, <3>7 DEF StartOf
    <3> QED BY <2>3, <2>5, <3>4, <3>8
  <2>6. c <= n \/ c = n + 1 BY <2>3
  <2> QED BY <2>4, <2>5, <2>6
<1>7. CASE OneChunk
  <2>1. num_bytes <= MinChunk BY <1>7 DEF OneChunk
  <2> QED BY <1>2, <1>3, <2>1
<1>8. CASE RefillWindow
  <2>1. content_sizes' = content_sizes /\ slots' = Append(slots, window_slot)
        /\ pc = "refill"
    BY <1>8 DEF RefillWindow
  <2>2. Len(slots) = Len(content_sizes) BY <1>1, <1>2, <1>3, <2>1 DEF WindowInv
  <2>3. c \in 1 .. Len(slots) BY <2>1, <2>2
  <2>4. slots'[c] = slots[c] BY <1>2, <2>1, <2>3
  <2>5. slots[c] = 0 /\ c <= Len(content_sizes) BY <1>2, <2>2, <2>3, <2>4
  <2> QED BY <1>5, <2>1, <2>5
<1>9. CASE FirstWindow
  <2>1. content_sizes' = content_sizes /\ pc = "start" BY <1>9 DEF FirstWindow
  <2>2. content_sizes = <<>> BY <1>1, <2>1 DEF SizeInv
  <2> QED BY <2>1, <2>2
<1>10. CASE Roll \/ Package \/ UNCHANGED vars
  <2>1. content_sizes' = content_sizes /\ slots' = slots
    BY <1>10 DEF Roll, Package, vars
  <2> QED BY <1>5, <2>1
<1> QED BY <1>6, <1>7, <1>8, <1>9, <1>10 DEF Next

(* Where a chunk ends depends only on its own bytes and on the end of the  *)
(* message, whatever the parameters of the hash are, as long as the ring   *)
(* of the window begins at slot 0: the same bytes are cut the same way.    *)
THEOREM CutsAreContentDefined == Spec => []ContentDefined
<1>1. Init => IInv /\ CutInv BY InitIInv, InitCutInv
<1>2. (IInv /\ CutInv) /\ [Next]_vars => (IInv /\ CutInv)'
  <2>1. IInv /\ [Next]_vars => IInv'
    BY StepCountInv, StepSizeInv, StepNumberInv, StepCoverInv DEF IInv
  <2>2. IInv /\ CutInv /\ [Next]_vars => CutInv'
    BY StepWindowInv, StepRollInv, StepDefined DEF CutInv
  <2> QED BY <2>1, <2>2
<1>3. IInv /\ CutInv => ContentDefined BY DEF CutInv
<1> QED BY <1>1, <1>2, <1>3, PTL DEF Spec

=============================================================================
