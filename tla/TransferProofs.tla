---------------------------- MODULE TransferProofs ----------------------------
(***************************************************************************)
(* Proof that TransferInv is an invariant of DedupTransfer, and what       *)
(* follows from it.                                                        *)
(***************************************************************************)
EXTENDS TransferInvariant, SumProofs, SequenceTheorems

-----------------------------------------------------------------------------
(* Sequences that are known only by their members.                         *)

IsSeq(s) == Len(s) \in Nat /\ s = [k \in 1 .. Len(s) |-> s[k]]

(* A sequence of members of a set.                                         *)
LEMMA SeqOfMembers ==
  ASSUME NEW s, IsSeq(s), NEW T, \A k \in 1 .. Len(s) : s[k] \in T
  PROVE  s \in Seq(T)
<1>1. s \in [1 .. Len(s) -> T] BY DEF IsSeq
<1>2. [1 .. Len(s) -> T] \in {[1 .. n -> T] : n \in Nat} BY Zenon DEF IsSeq
<1>3. s \in UNION {[1 .. n -> T] : n \in Nat} BY <1>1, <1>2, Zenon
<1> QED BY <1>3, SeqDef, Zenon

(* A sequence is the function on its indices.                              *)
LEMMA SeqIsSeq == ASSUME NEW T, NEW s \in Seq(T) PROVE IsSeq(s)
BY DEF IsSeq

(* What is where after a concatenation.                                    *)
LEMMA ConcatSeq ==
  ASSUME NEW s, NEW t, IsSeq(s), IsSeq(t)
  PROVE  /\ IsSeq(s \o t)
         /\ Len(s \o t) = Len(s) + Len(t)
         /\ \A k \in 1 .. Len(s) : (s \o t)[k] = s[k]
         /\ \A k \in 1 .. Len(t) : (s \o t)[Len(s) + k] = t[k]
<1> DEFINE T == {s[k] : k \in 1 .. Len(s)} \cup {t[k] : k \in 1 .. Len(t)}
<1>1. \A k \in 1 .. Len(s) : s[k] \in T OBVIOUS
<1>2. \A k \in 1 .. Len(t) : t[k] \in T OBVIOUS
<1> HIDE DEF T
<1>3. s \in Seq(T) BY <1>1, SeqOfMembers, Zenon
<1>4. t \in Seq(T) BY <1>2, SeqOfMembers, Zenon
<1>5. s \o t \in Seq(T) BY <1>3, <1>4, ConcatProperties
<1>6. IsSeq(s \o t) BY <1>5, SeqIsSeq
<1>7. Len(s \o t) = Len(s) + Len(t) BY <1>3, <1>4, ConcatProperties
<1>8. \A k \in 1 .. Len(s) + Len(t) :
        (s \o t)[k] = IF k <= Len(s) THEN s[k] ELSE t[k - Len(s)]
  BY <1>3, <1>4, ConcatProperties
<1> QED BY <1>6, <1>7, <1>8 DEF IsSeq

(* What is left after the first n elements.                                *)
LEMMA RestSeq ==
  ASSUME NEW s, IsSeq(s), NEW n \in 0 .. Len(s)
  PROVE  /\ IsSeq(Rest(s, n))
         /\ Len(Rest(s, n)) = Len(s) - n
         /\ \A k \in 1 .. Len(s) - n : Rest(s, n)[k] = s[n + k]
<1> DEFINE T == {s[k] : k \in 1 .. Len(s)}
<1>1. \A k \in 1 .. Len(s) : s[k] \in T OBVIOUS
<1> HIDE DEF T
<1>2. s \in Seq(T) BY <1>1, SeqOfMembers, Zenon
<1>3. SubSeq(s, n + 1, Len(s)) \in Seq(T) BY <1>2, SubSeqProperties DEF IsSeq
<1>4. IsSeq(Rest(s, n)) BY <1>3, SeqIsSeq DEF Rest
<1>6. Len(s) \in Nat /\ n \in Nat /\ n <= Len(s) BY DEF IsSeq
<1>5. /\ Len(SubSeq(s, n + 1, Len(s)))
           = IF n + 1 <= Len(s) THEN Len(s) - (n + 1) + 1 ELSE 0
      /\ \A k \in 1 .. Len(s) - (n + 1) + 1 : SubSeq(s, n + 1, Len(s))[k] = s[n + 1 + k - 1]
  <2>1. n + 1 \in 1 .. Len(s) + 1 /\ Len(s) \in 0 .. Len(s) BY <1>6
  <2> QED BY <1>2, <2>1, SubSeqProperties, SMTT(30)
<1>7. Len(SubSeq(s, n + 1, Len(s))) = Len(s) - n BY <1>5, <1>6
<1>8. \A k \in 1 .. Len(s) - n : SubSeq(s, n + 1, Len(s))[k] = s[n + k]
  <2> TAKE k \in 1 .. Len(s) - n
  <2>1. k \in 1 .. Len(s) - (n + 1) + 1 /\ n + 1 + k - 1 = n + k BY <1>6
  <2> QED BY <1>5, <2>1
<1> QED BY <1>4, <1>7, <1>8 DEF Rest

(* The first n elements.                                                   *)
LEMMA FirstSeq ==
  ASSUME NEW s, IsSeq(s), NEW n \in 0 .. Len(s)
  PROVE  /\ IsSeq(SubSeq(s, 1, n))
         /\ Len(SubSeq(s, 1, n)) = n
         /\ \A k \in 1 .. n : SubSeq(s, 1, n)[k] = s[k]
<1> DEFINE T == {s[k] : k \in 1 .. Len(s)}
<1>1. \A k \in 1 .. Len(s) : s[k] \in T OBVIOUS
<1> HIDE DEF T
<1>2. s \in Seq(T) BY <1>1, SeqOfMembers, Zenon
<1>3. SubSeq(s, 1, n) \in Seq(T) BY <1>2, SubSeqProperties DEF IsSeq
<1>4. IsSeq(SubSeq(s, 1, n)) BY <1>3, SeqIsSeq
<1> QED BY <1>2, <1>4, SubSeqProperties DEF IsSeq

(* The first element and the others.                                       *)
LEMMA HeadTailSeq ==
  ASSUME NEW s, IsSeq(s), s # <<>>
  PROVE  /\ Len(s) > 0 /\ Head(s) = s[1]
         /\ IsSeq(Tail(s)) /\ Len(Tail(s)) = Len(s) - 1
         /\ \A k \in 1 .. Len(s) - 1 : Tail(s)[k] = s[1 + k]
<1> DEFINE T == {s[k] : k \in 1 .. Len(s)}
<1>1. \A k \in 1 .. Len(s) : s[k] \in T OBVIOUS
<1> HIDE DEF T
<1>2. s \in Seq(T) BY <1>1, SeqOfMembers, Zenon
<1>3. Tail(s) \in Seq(T) BY <1>2, HeadTailProperties
<1>4. IsSeq(Tail(s)) BY <1>3, SeqIsSeq
<1> QED BY <1>2, <1>3, <1>4, HeadTailProperties DEF IsSeq

(* Tokens of one type for a sequence of values.                            *)
LEMMA TokensSeq ==
  ASSUME NEW s, IsSeq(s), NEW type
  PROVE  /\ IsSeq(Tokens(type, s)) /\ Len(Tokens(type, s)) = Len(s)
         /\ \A k \in 1 .. Len(s) : Tokens(type, s)[k] = [type |-> type, val |-> s[k]]
<1>1. Len(Tokens(type, s)) = Len(s) BY DEF Tokens, IsSeq
<1> QED BY <1>1 DEF Tokens, IsSeq

(* The values of a sequence of tokens.                                     *)
LEMMA ValsSeq ==
  ASSUME NEW s, IsSeq(s)
  PROVE  /\ IsSeq(Vals(s)) /\ Len(Vals(s)) = Len(s)
         /\ \A k \in 1 .. Len(s) : Vals(s)[k] = s[k].val
<1>1. Len(Vals(s)) = Len(s) BY DEF Vals, IsSeq
<1> QED BY <1>1 DEF Vals, IsSeq

-----------------------------------------------------------------------------
(* Chunks, their offsets and their bytes.                                  *)

(* An equation that is used only where it is expanded. *)
Is(x, y) == x = y

(* The sizes of the chunks of a list.                                      *)
LEMMA SizesFacts ==
  ASSUME NEW fps \in Seq(Fingerprints)
  PROVE  \A k \in 1 .. Len(fps) : /\ fps[k] \in Fingerprints
                                  /\ Sizes(fps)[k] = ContentSize[fps[k]]
                                  /\ ContentSize[fps[k]] \in Nat \ {0}
BY TransferAssumption DEF Sizes

(* Where the chunks of a list begin: sums of the sizes before them.        *)
LEMMA OffsetFacts ==
  ASSUME NEW fps \in Seq(Fingerprints)
  PROVE  /\ OffsetOf(fps, 1) = 0
         /\ \A j \in 1 .. Len(fps) + 1 : OffsetOf(fps, j) \in Nat
         /\ \A j \in 1 .. Len(fps) :
              OffsetOf(fps, j + 1) = OffsetOf(fps, j) + ContentSize[fps[j]]
         /\ OffsetOf(fps, Len(fps) + 1) = Size(fps)
         /\ Size(fps) \in Nat
         /\ \A n \in 0 .. Len(fps) : SizeUpTo(fps, n) = OffsetOf(fps, n + 1)
         /\ \A j \in 1 .. Len(fps) + 1 : \A k \in j .. Len(fps) + 1 :
              OffsetOf(fps, j) <= OffsetOf(fps, k)
<1> DEFINE g == Sizes(fps)
           n == Len(fps)
<1>1. n \in Nat OBVIOUS
<1>2. \A k \in 1 .. n : g[k] \in Nat BY SizesFacts
<1>3. \A k \in 1 .. n : g[k] = ContentSize[fps[k]] BY SizesFacts
<1>4. \A j : OffsetOf(fps, j) = SumTo(g, j - 1) BY DEF OffsetOf, SizeUpTo
<1>5. Size(fps) = SumTo(g, n) BY DEF Size, SizeUpTo
<1> HIDE DEF g, n
<1>6. SumTo(g, 0) = 0 BY SumZero
<1>7. \A j \in 1 .. n + 1 : SumTo(g, j - 1) \in Nat
  <2> TAKE j \in 1 .. n + 1
  <2>1. j - 1 \in 0 .. n BY <1>1
  <2> QED BY <1>1, <1>2, <2>1, SumType
<1>8. \A j \in 1 .. n : SumTo(g, j) = SumTo(g, j - 1) + g[j]
  <2> TAKE j \in 1 .. n
  <2>1. j - 1 \in Nat BY <1>1
  <2>2. SumTo(g, (j - 1) + 1) = SumTo(g, j - 1) + g[(j - 1) + 1] BY <2>1, SumNext
  <2>3. (j - 1) + 1 = j OBVIOUS
  <2> QED BY <2>2, <2>3
<1>9. \A j \in 1 .. n + 1 : \A k \in j .. n + 1 : SumTo(g, j - 1) <= SumTo(g, k - 1)
  <2> TAKE j \in 1 .. n + 1
  <2> TAKE k \in j .. n + 1
  <2>1. j - 1 \in 0 .. n /\ k - 1 \in j - 1 .. n BY <1>1
  <2> QED BY <1>1, <1>2, <2>1, SumMonotone
<1>10. SumTo(g, n) \in Nat
  <2>1. (n + 1) - 1 = n /\ n + 1 \in 1 .. n + 1 BY <1>1
  <2>2. SumTo(g, (n + 1) - 1) \in Nat BY <2>1, <1>7
  <2> QED BY <2>1, <2>2
<1>11. \A j \in 1 .. n : OffsetOf(fps, j + 1) = OffsetOf(fps, j) + ContentSize[fps[j]]
  <2> TAKE j \in 1 .. n
  <2>1. (j + 1) - 1 = j OBVIOUS
  <2> QED BY <1>3, <1>4, <1>8, <2>1
<1>12. \A k \in 0 .. n : SizeUpTo(fps, k) = OffsetOf(fps, k + 1)
  <2> TAKE k \in 0 .. n
  <2>1. (k + 1) - 1 = k OBVIOUS
  <2> QED BY <2>1 DEF OffsetOf
<1>13. OffsetOf(fps, n + 1) = Size(fps)
  <2>1. n \in 0 .. n BY <1>1
  <2> QED BY <1>12, <2>1 DEF Size, n
<1>14. OffsetOf(fps, 1) = 0
  <2>1. 1 - 1 = 0 OBVIOUS
  <2> QED BY <1>4, <1>6, <2>1
<1> QED BY <1>4, <1>5, <1>7, <1>9, <1>10, <1>11, <1>12, <1>13, <1>14 DEF n

(* Every byte of a message lies in one chunk. *)
LEMMA ByteWhere ==
  ASSUME NEW fps \in Seq(Fingerprints), NEW p \in 1 .. Size(fps)
  PROVE  \E j \in 1 .. Len(fps) : \E q \in 1 .. ContentSize[fps[j]] :
           p = OffsetOf(fps, j) + q
<1> DEFINE g == Sizes(fps)
           n == Len(fps)
<1>1. n \in Nat OBVIOUS
<1>2. \A k \in 1 .. n : g[k] \in Nat BY SizesFacts
<1>3. p \in 1 .. SumTo(g, n) BY DEF Size, SizeUpTo
<1> HIDE DEF g, n
<1>4. PICK j \in 1 .. n : \E q \in 1 .. g[j] : p = SumTo(g, j - 1) + q
  BY <1>1, <1>2, <1>3, SumWhere
<1>5. g[j] = ContentSize[fps[j]] BY SizesFacts DEF g, n
<1>6. OffsetOf(fps, j) = SumTo(g, j - 1) BY DEF OffsetOf, SizeUpTo, g
<1> QED BY <1>4, <1>5, <1>6 DEF n

(* Unit q of chunk j lies q behind the offset of the chunk.                *)
LEMMA DataAt ==
  ASSUME NEW fps \in Seq(Fingerprints), NEW j \in 1 .. Len(fps),
         NEW q \in 1 .. ContentSize[fps[j]]
  PROVE  /\ OffsetOf(fps, j) + q \in 1 .. Size(fps)
         /\ Data(fps)[OffsetOf(fps, j) + q] = <<fps[j], q>>
<1> DEFINE p == OffsetOf(fps, j) + q
           In(c) == OffsetOf(fps, c) < p /\ p <= OffsetOf(fps, c + 1)
           c0 == CHOOSE c \in 1 .. Len(fps) : In(c)
<1>1. ContentSize[fps[j]] \in Nat \ {0} BY SizesFacts
<1>2. j + 1 \in 1 .. Len(fps) + 1 /\ Len(fps) + 1 \in j + 1 .. Len(fps) + 1 /\ j \in 1 .. Len(fps) + 1
  OBVIOUS
<1>3. OffsetOf(fps, j) \in Nat /\ OffsetOf(fps, j + 1) \in Nat /\ Size(fps) \in Nat
  BY <1>2, OffsetFacts
<1>4. OffsetOf(fps, j + 1) = OffsetOf(fps, j) + ContentSize[fps[j]] BY OffsetFacts
<1>5. OffsetOf(fps, j + 1) <= OffsetOf(fps, Len(fps) + 1) BY <1>2, OffsetFacts
<1>6. OffsetOf(fps, Len(fps) + 1) = Size(fps) BY OffsetFacts
<1>7. p \in 1 .. Size(fps) BY <1>1, <1>3, <1>4, <1>5, <1>6, SMTT(30)
<1>8. In(j) BY <1>1, <1>3, <1>4
<1>9. \A c \in 1 .. Len(fps) : In(c) => c = j
  <2> SUFFICES ASSUME NEW c \in 1 .. Len(fps), In(c), c # j PROVE FALSE OBVIOUS
  <2>1. c \in 1 .. Len(fps) + 1 /\ c + 1 \in 1 .. Len(fps) + 1 OBVIOUS
  <2>2. OffsetOf(fps, c) \in Nat /\ OffsetOf(fps, c + 1) \in Nat BY <2>1, OffsetFacts
  <2>3. CASE c < j
    <3>1. j \in c + 1 .. Len(fps) + 1 BY <2>3
    <3>2. OffsetOf(fps, c + 1) <= OffsetOf(fps, j) BY <2>1, <3>1, OffsetFacts
    <3> QED BY <1>1, <1>3, <2>2, <3>2
  <2>4. CASE c > j
    <3>1. c \in j + 1 .. Len(fps) + 1 BY <2>4
    <3>2. OffsetOf(fps, j + 1) <= OffsetOf(fps, c) BY <1>2, <3>1, OffsetFacts
    <3> QED BY <1>1, <1>3, <1>4, <2>2, <3>2, SMTT(30)
  <2> QED BY <2>3, <2>4
<1>10. c0 = j
  <2> HIDE DEF In
  <2> QED BY <1>8, <1>9
<1>11. Data(fps)[p] = <<fps[c0], p - OffsetOf(fps, c0)>> BY <1>7 DEF Data
<1>12. p - OffsetOf(fps, j) = q BY <1>1, <1>3
<1> HIDE DEF c0, p
<1>13. Data(fps)[p] = <<fps[j], q>> BY <1>10, <1>11, <1>12
<1> QED BY <1>7, <1>13 DEF p

(* ... and in one only. *)
LEMMA ByteIn ==
  ASSUME NEW fps \in Seq(Fingerprints), NEW j \in 1 .. Len(fps), NEW c \in 1 .. Len(fps),
         NEW p \in Int,
         OffsetOf(fps, j) < p, p <= OffsetOf(fps, j) + ContentSize[fps[j]],
         OffsetOf(fps, c) < p, p <= OffsetOf(fps, c) + ContentSize[fps[c]]
  PROVE  j = c
<1>1. Len(fps) \in Nat OBVIOUS
<1>2. /\ \A k \in 1 .. Len(fps) + 1 : OffsetOf(fps, k) \in Nat
      /\ OffsetOf(fps, j + 1) = OffsetOf(fps, j) + ContentSize[fps[j]]
      /\ OffsetOf(fps, c + 1) = OffsetOf(fps, c) + ContentSize[fps[c]]
  BY OffsetFacts
<1>3. ~ (j < c)
  <2> SUFFICES ASSUME j < c PROVE FALSE OBVIOUS
  <2>1. j + 1 \in 1 .. Len(fps) + 1 /\ c \in j + 1 .. Len(fps) + 1 BY <1>1
  <2>2. OffsetOf(fps, j + 1) <= OffsetOf(fps, c) BY <2>1, OffsetFacts
  <2> QED BY <1>2, <2>1, <2>2
<1>4. ~ (c < j)
  <2> SUFFICES ASSUME c < j PROVE FALSE OBVIOUS
  <2>1. c + 1 \in 1 .. Len(fps) + 1 /\ j \in c + 1 .. Len(fps) + 1 BY <1>1
  <2>2. OffsetOf(fps, c + 1) <= OffsetOf(fps, j) BY <2>1, OffsetFacts
  <2> QED BY <1>2, <2>1, <2>2
<1> QED BY <1>3, <1>4

(* The bytes of a list of chunks are as many as their sizes add up to.     *)
LEMMA DataSeq ==
  ASSUME NEW fps \in Seq(Fingerprints)
  PROVE  /\ IsSeq(Data(fps)) /\ Len(Data(fps)) = Size(fps)
         /\ \A p \in 1 .. Size(fps) : Data(fps)[p] \in Units
<1>1. Size(fps) \in Nat BY OffsetFacts
<1>2. DOMAIN Data(fps) = 1 .. Size(fps) BY DEF Data
<1>3. Len(Data(fps)) = Size(fps) BY <1>1, <1>2 DEF Data
<1>4. \A p \in 1 .. Size(fps) : Data(fps)[p] \in Units
  <2> TAKE p \in 1 .. Size(fps)
  <2>1. PICK j \in 1 .. Len(fps) : \E q \in 1 .. ContentSize[fps[j]] :
               p = OffsetOf(fps, j) + q
    BY ByteWhere
  <2>2. PICK q \in 1 .. ContentSize[fps[j]] : p = OffsetOf(fps, j) + q BY <2>1
  <2>3. Data(fps)[p] = <<fps[j], q>> BY <2>2, DataAt
  <2>4. fps[j] \in Fingerprints /\ q \in Nat BY SizesFacts
  <2> QED BY <2>3, <2>4 DEF Units
<1>5. Data(fps) \in [1 .. Size(fps) -> Units] BY <1>2, <1>4 DEF Data
<1>6. IsSeq(Data(fps)) BY <1>1, <1>3, <1>5 DEF IsSeq
<1> QED BY <1>3, <1>4, <1>6

(* Offsets depend only on the chunks before them. *)
LEMMA OffsetAgree ==
  ASSUME NEW fps \in Seq(Fingerprints), NEW gps \in Seq(Fingerprints),
         NEW n \in Nat, n <= Len(fps), n <= Len(gps),
         \A k \in 1 .. n : fps[k] = gps[k], NEW j \in 1 .. n + 1
  PROVE  OffsetOf(fps, j) = OffsetOf(gps, j)
<1>1. \A k \in 1 .. j - 1 : Sizes(fps)[k] = Sizes(gps)[k] BY DEF Sizes
<1>2. j - 1 \in Nat OBVIOUS
<1>3. SumTo(Sizes(fps), j - 1) = SumTo(Sizes(gps), j - 1) BY <1>1, <1>2, SumAgree
<1> QED BY <1>3 DEF OffsetOf, SizeUpTo

(* The application buffer has room for every message. *)
LEMMA AppBufFacts ==
  ASSUME NEW m \in Messages PROVE 1 .. Size(ChunksOf[m]) \subseteq AppBuf
<1> DEFINE Sz == {Size(ChunksOf[k]) : k \in Messages}
           Top(n) == \A k \in Messages : Size(ChunksOf[k]) <= n
           top == CHOOSE n \in Sz : Top(n)
<1>1. \A k \in Messages : Size(ChunksOf[k]) \in Nat
  BY TransferAssumption, OffsetFacts
<1>2. \E n \in Sz : Top(n)
  <2>1. PICK k \in Messages : \A j \in Messages : Size(ChunksOf[j]) <= Size(ChunksOf[k])
    BY TransferAssumption
  <2> QED BY <2>1
<1>3. top \in Sz /\ Top(top)
  <2> HIDE DEF Top, Sz
  <2> QED BY <1>2
<1>4. top \in Nat
  <2> HIDE DEF top
  <2> QED BY <1>1, <1>3
<1>5. AppBuf = 1 .. top BY DEF AppBuf
<1>6. Size(ChunksOf[m]) <= top
  <2> HIDE DEF top
  <2> QED BY <1>3
<1> HIDE DEF top
<1> QED BY <1>1, <1>4, <1>5, <1>6

(* The lengths of messages. *)
LEMMA MsgFacts ==
  ASSUME NEW m \in Messages
  PROVE  /\ ChunksOf[m] \in Seq(Fingerprints)
         /\ Len(ChunksOf[m]) \in Nat
         /\ Size(ChunksOf[m]) \in Nat
         /\ MsgLen(m) \in Nat \ {0}
         /\ IsFingerprinted(m) =>
              Len(ChunksOf[m]) > 0 /\ MsgLen(m) = 2 + Len(ChunksOf[m])
         /\ ~ IsFingerprinted(m) => MsgLen(m) = 1 + Size(ChunksOf[m])
         /\ IsFingerprinted(m) \in BOOLEAN
<1>1. ChunksOf[m] \in Seq(Fingerprints) BY TransferAssumption
<1>2. Len(ChunksOf[m]) \in Nat BY <1>1
<1>3. Size(ChunksOf[m]) \in Nat BY <1>1, OffsetFacts
<1>4. IsFingerprinted(m) => Len(ChunksOf[m]) > 0
  <2> SUFFICES ASSUME IsFingerprinted(m), Len(ChunksOf[m]) = 0 PROVE FALSE BY <1>2
  <2>1. OffsetOf(ChunksOf[m], 0 + 1) = Size(ChunksOf[m]) BY <1>1, OffsetFacts
  <2>2. OffsetOf(ChunksOf[m], 1) = 0 BY <1>1, OffsetFacts
  <2>3. Size(ChunksOf[m]) = 0 BY <2>1, <2>2
  <2> QED BY <2>3, TransferAssumption DEF IsFingerprinted
<1> QED BY <1>1, <1>2, <1>3, <1>4 DEF MsgLen, IsFingerprinted

(* The tokens of a message, and how many there are.                        *)
LEMMA TokenFacts ==
  ASSUME NEW m \in Messages
  PROVE  /\ MsgToken(m, 1) = [type |-> "header", val |-> HeaderOf(m)]
         /\ IsFingerprinted(m) =>
              /\ MsgToken(m, 2) = [type |-> "fingerprint_header", val |-> Len(ChunksOf[m])]
              /\ \A p \in 1 .. Len(ChunksOf[m]) :
                   MsgToken(m, 2 + p) = [type |-> "fingerprint", val |-> ChunksOf[m][p]]
         /\ ~ IsFingerprinted(m) =>
              \A p \in 1 .. Size(ChunksOf[m]) :
                MsgToken(m, 1 + p) = [type |-> "data", val |-> Data(ChunksOf[m])[p]]
<1>1. \A p \in Nat : (2 + p) - 2 = p /\ (1 + p) - 1 = p OBVIOUS
<1>2. Len(ChunksOf[m]) \in Nat /\ Size(ChunksOf[m]) \in Nat BY MsgFacts
<1>3. ASSUME IsFingerprinted(m), NEW p \in 1 .. Len(ChunksOf[m])
      PROVE  MsgToken(m, 2 + p) = [type |-> "fingerprint", val |-> ChunksOf[m][p]]
  <2>1. 2 + p # 1 /\ 2 + p # 2 /\ (2 + p) - 2 = p BY <1>2
  <2> QED BY <1>3, <2>1 DEF MsgToken
<1>4. ASSUME ~ IsFingerprinted(m), NEW p \in 1 .. Size(ChunksOf[m])
      PROVE  MsgToken(m, 1 + p) = [type |-> "data", val |-> Data(ChunksOf[m])[p]]
  <2>1. 1 + p # 1 /\ (1 + p) - 1 = p BY <1>2
  <2> QED BY <1>4, <2>1 DEF MsgToken
<1>5. MsgToken(m, 1) = [type |-> "header", val |-> HeaderOf(m)] BY DEF MsgToken
<1>6. IsFingerprinted(m) =>
        MsgToken(m, 2) = [type |-> "fingerprint_header", val |-> Len(ChunksOf[m])]
  BY DEF MsgToken
<1> QED BY <1>3, <1>4, <1>5, <1>6

(* Where messages start in the stream. *)
LEMMA StartFacts ==
  ASSUME NEW msgs \in Seq(Messages)
  PROVE  /\ StartAt(msgs, 1) = 0
         /\ \A k \in 1 .. Len(msgs) + 1 : StartAt(msgs, k) \in Nat
         /\ \A k \in 1 .. Len(msgs) :
              StartAt(msgs, k + 1) = StartAt(msgs, k) + MsgLen(msgs[k])
         /\ \A k \in 1 .. Len(msgs) + 1 : \A j \in k .. Len(msgs) + 1 :
              StartAt(msgs, k) <= StartAt(msgs, j)
<1> DEFINE g == Lengths(msgs)
           n == Len(msgs)
<1>1. n \in Nat OBVIOUS
<1>2. \A k \in 1 .. n : g[k] = MsgLen(msgs[k]) BY DEF Lengths
<1>3. \A k \in 1 .. n : g[k] \in Nat
  <2> TAKE k \in 1 .. n
  <2>1. msgs[k] \in Messages OBVIOUS
  <2> QED BY <1>2, <2>1, MsgFacts
<1>4. \A k : StartAt(msgs, k) = SumTo(g, k - 1) BY DEF StartAt
<1> HIDE DEF g, n
<1>5. SumTo(g, 1 - 1) = 0
  <2>1. 1 - 1 = 0 OBVIOUS
  <2> QED BY <2>1, SumZero
<1>6. \A k \in 1 .. n + 1 : SumTo(g, k - 1) \in Nat
  <2> TAKE k \in 1 .. n + 1
  <2>1. k - 1 \in 0 .. n BY <1>1
  <2> QED BY <1>1, <1>3, <2>1, SumType
<1>7. \A k \in 1 .. n : SumTo(g, (k + 1) - 1) = SumTo(g, k - 1) + g[k]
  <2> TAKE k \in 1 .. n
  <2>1. k - 1 \in Nat BY <1>1
  <2>2. SumTo(g, (k - 1) + 1) = SumTo(g, k - 1) + g[(k - 1) + 1] BY <2>1, SumNext
  <2>3. (k - 1) + 1 = k /\ (k + 1) - 1 = k OBVIOUS
  <2> QED BY <2>2, <2>3
<1>8. \A k \in 1 .. n + 1 : \A j \in k .. n + 1 : SumTo(g, k - 1) <= SumTo(g, j - 1)
  <2> TAKE k \in 1 .. n + 1
  <2> TAKE j \in k .. n + 1
  <2>1. k - 1 \in 0 .. n /\ j - 1 \in k - 1 .. n BY <1>1
  <2> QED BY <1>1, <1>3, <2>1, SumMonotone
<1> QED BY <1>2, <1>4, <1>5, <1>6, <1>7, <1>8 DEF n

(* One more message changes nothing about where the earlier ones start.    *)
LEMMA StartAppend ==
  ASSUME NEW msgs \in Seq(Messages), NEW m \in Messages, NEW k \in 1 .. Len(msgs) + 1
  PROVE  StartAt(Append(msgs, m), k) = StartAt(msgs, k)
<1>1. \A j \in 1 .. k - 1 : Lengths(Append(msgs, m))[j] = Lengths(msgs)[j] BY DEF Lengths
<1>2. k - 1 \in Nat OBVIOUS
<1> QED BY <1>1, <1>2, SumAgree DEF StartAt

-----------------------------------------------------------------------------
(* The socket to the receiver: what is written comes behind what is there, *)
(* what is read is what the position says.                                 *)

(* chan holds content up to ahead and the stream from rpos to spos. *)
FwdOK(chan, ahead, missing, recvd, msgs, rpos, spos) ==
  /\ FwdLength(chan, ahead, rpos, spos)
  /\ FwdContent(chan, ahead, missing, recvd)
  /\ FwdStream(chan, ahead, msgs, rpos, spos)

(* n values more, and n values less. *)
Grows(chan, n, chan2) ==
  Len(chan2) = Len(chan) + n /\ \A k \in 1 .. Len(chan) : chan2[k] = chan[k]

Shifts(chan, n, chan2) ==
  /\ n <= Len(chan) /\ Len(chan2) = Len(chan) - n
  /\ \A k \in 1 .. Len(chan) - n : chan2[k] = chan[n + k]

(* Behind position from there are n tokens of message m or of chunk f. *)
HoldsStream(chan, from, n, m, at) ==
  \A k \in 1 .. n : chan[from + k] = MsgToken(m, at + k)

HoldsContent(chan, from, n, f, at) ==
  \A k \in 1 .. n : chan[from + k] = [type |-> "data", val |-> <<f, at + k>>]

(* The sender sends n tokens of the stream from where it is.               *)
LEMMA StreamPush ==
  ASSUME NEW msgs \in Seq(Messages), NEW m \in Nat, Is(m, Len(msgs)), m > 0,
         NEW chan, NEW chan2, NEW n \in Nat, IsSeq(chan),
         NEW ahead \in Nat, NEW missing, NEW recvd, NEW rpos \in Nat, NEW spos \in Nat,
         FwdOK(chan, ahead, missing, recvd, msgs, rpos, spos),
         NEW start \in Nat, Is(start, StartAt(msgs, m)),
         NEW at \in Nat, spos = start + at,
         NEW len \in Nat, Is(len, MsgLen(msgs[m])), at + n <= len,
         Grows(chan, n, chan2), HoldsStream(chan2, Len(chan), n, msgs[m], at)
  PROVE  FwdOK(chan2, ahead, missing, recvd, msgs, rpos, spos + n)
<1>1. PICK c \in Nat : Is(c, Len(chan)) BY DEF IsSeq, Is
<1>2. c = ahead + (spos - rpos) /\ rpos <= spos BY <1>1 DEF FwdOK, FwdLength, Is
<1>3. Len(chan2) = c + n BY <1>1 DEF Grows, Is
<1>4. FwdLength(chan2, ahead, rpos, spos + n) BY <1>2, <1>3 DEF FwdLength
<1>5. FwdContent(chan2, ahead, missing, recvd)
  <2>1. \A j \in 1 .. ahead : chan2[j] = chan[j]
    <3>1. \A j \in 1 .. ahead : j \in 1 .. c BY <1>2
    <3> QED BY <1>1, <3>1 DEF Grows, Is
  <2> QED BY <2>1 DEF FwdContent, FwdOK
<1>6. ASSUME NEW k \in 1 .. m, NEW st \in Nat, Is(st, StartAt(msgs, k)),
             NEW ln \in Nat, Is(ln, MsgLen(msgs[k])), NEW p \in 1 .. ln,
             NEW j \in 1 .. (spos + n) - rpos, j = st + p - rpos
      PROVE  chan2[ahead + j] = MsgToken(msgs[k], p)
  <2>1. CASE j <= spos - rpos
    <3>1. chan[ahead + j] = MsgToken(msgs[k], p)
      <4>1. k \in 1 .. Len(msgs) /\ p \in 1 .. MsgLen(msgs[k]) BY <1>6 DEF Is
      <4>2. StartAt(msgs, k) + p - rpos = j BY <1>6 DEF Is
      <4>3. j \in 1 .. spos - rpos BY <2>1
      <4> QED BY <4>1, <4>2, <4>3 DEF FwdOK, FwdStream
    <3>2. ahead + j \in 1 .. c BY <1>2, <2>1
    <3> QED BY <1>1, <3>1, <3>2 DEF Grows, Is
  <2>2. CASE ~ (j <= spos - rpos)
    <3>1. k = m
      <4> SUFFICES ASSUME k # m PROVE FALSE OBVIOUS
      <4>1. m \in k + 1 .. m + 1 /\ k + 1 \in 1 .. m + 1 OBVIOUS
      <4>2. PICK nx \in Nat : Is(nx, StartAt(msgs, k + 1)) BY <4>1, StartFacts DEF Is
      <4>3. nx <= start BY <4>1, <4>2, StartFacts DEF Is
      <4>4. nx = st + ln BY <1>6, <4>2, StartFacts DEF Is
      <4> QED BY <1>6, <2>2, <4>3, <4>4
    <3>2. st = start /\ ln = len BY <1>6, <3>1 DEF Is
    <3>3. p - at \in 1 .. n BY <1>6, <2>2, <3>2
    <3>4. chan2[c + (p - at)] = MsgToken(msgs[m], at + (p - at))
      BY <1>1, <3>3 DEF HoldsStream, Is
    <3>5. ahead + j = c + (p - at) /\ at + (p - at) = p BY <1>2, <1>6, <3>2
    <3> QED BY <3>1, <3>4, <3>5
  <2> QED BY <2>1, <2>2
<1>7. FwdStream(chan2, ahead, msgs, rpos, spos + n)
  <2> SUFFICES ASSUME NEW k \in 1 .. m, NEW p \in 1 .. MsgLen(msgs[k]),
                      StartAt(msgs, k) + p - rpos \in 1 .. (spos + n) - rpos
               PROVE  chan2[ahead + (StartAt(msgs, k) + p - rpos)] = MsgToken(msgs[k], p)
    BY DEF FwdStream, Is
  <2>0. k \in 1 .. Len(msgs) BY DEF Is
  <2>1. msgs[k] \in Messages /\ k \in 1 .. Len(msgs) + 1 BY <2>0, SMTT(30)
  <2>2. PICK ln \in Nat : Is(ln, MsgLen(msgs[k])) BY <2>1, MsgFacts DEF Is
  <2>3. PICK st \in Nat : Is(st, StartAt(msgs, k)) BY <2>1, StartFacts DEF Is
  <2>4. p \in 1 .. ln BY <2>2 DEF Is
  <2>5. PICK j \in 1 .. (spos + n) - rpos : j = st + p - rpos BY <2>3 DEF Is
  <2>6. chan2[ahead + j] = MsgToken(msgs[k], p) BY <1>6, <2>2, <2>3, <2>4, <2>5, SMTT(30)
  <2> QED BY <2>3, <2>5, <2>6 DEF Is
<1> QED BY <1>4, <1>5, <1>7 DEF FwdOK

(* The receiver takes n tokens of the stream, when no content is before    *)
(* them.                                                                   *)
LEMMA StreamPop ==
  ASSUME NEW msgs \in Seq(Messages), NEW chan, NEW chan2, NEW n \in Nat, IsSeq(chan),
         NEW missing, NEW recvd, NEW missing2, NEW recvd2,
         NEW rpos \in Nat, NEW spos \in Nat,
         FwdOK(chan, 0, missing, recvd, msgs, rpos, spos),
         Shifts(chan, n, chan2)
  PROVE  FwdOK(chan2, 0, missing2, recvd2, msgs, rpos + n, spos)
<1>1. Len(chan) = spos - rpos /\ rpos <= spos BY DEF FwdOK, FwdLength
<1>0. n <= Len(chan) BY DEF Shifts
<1>2. FwdLength(chan2, 0, rpos + n, spos) BY <1>1 DEF FwdLength, Shifts
<1>3. FwdContent(chan2, 0, missing2, recvd2) BY DEF FwdContent
<1>4. FwdStream(chan2, 0, msgs, rpos + n, spos)
  <2> SUFFICES ASSUME NEW k \in 1 .. Len(msgs), NEW p \in 1 .. MsgLen(msgs[k]),
                      StartAt(msgs, k) + p - (rpos + n) \in 1 .. spos - (rpos + n)
               PROVE  chan2[0 + (StartAt(msgs, k) + p - (rpos + n))] = MsgToken(msgs[k], p)
    BY DEF FwdStream
  <2>0. msgs[k] \in Messages OBVIOUS
  <2>1. MsgLen(msgs[k]) \in Nat BY <2>0, MsgFacts
  <2>2. StartAt(msgs, k) \in Nat
    <3>1. k \in 1 .. Len(msgs) + 1 OBVIOUS
    <3> QED BY <3>1, StartFacts
  <2> DEFINE j == StartAt(msgs, k) + p - rpos
  <2>3. j \in 1 .. spos - rpos /\ j - n \in 1 .. Len(chan) - n BY <1>0, <1>1, <2>1, <2>2, SMTT(30)
  <2>4. chan[0 + j] = MsgToken(msgs[k], p) BY <2>3 DEF FwdOK, FwdStream
  <2>5. 0 + j = n + (j - n) BY <2>3, SMTT(30)
  <2>6. 0 + (StartAt(msgs, k) + p - (rpos + n)) = j - n BY <2>1, <2>2
  <2> HIDE DEF j
  <2> QED BY <2>3, <2>4, <2>5, <2>6 DEF Shifts
<1> QED BY <1>2, <1>3, <1>4 DEF FwdOK

(* What the receiver reads of message r. *)
LEMMA StreamRead ==
  ASSUME NEW msgs \in Seq(Messages), NEW chan, IsSeq(chan), NEW missing, NEW recvd,
         NEW rpos \in Nat, NEW spos \in Nat,
         FwdOK(chan, 0, missing, recvd, msgs, rpos, spos),
         NEW r \in 1 .. Len(msgs), NEW at \in Nat, rpos = StartAt(msgs, r) + at,
         NEW q \in 1 .. Len(chan), at + q <= MsgLen(msgs[r])
  PROVE  chan[q] = MsgToken(msgs[r], at + q)
<1>0. msgs[r] \in Messages OBVIOUS
<1>1. MsgLen(msgs[r]) \in Nat BY <1>0, MsgFacts
<1>2. StartAt(msgs, r) \in Nat
  <2>1. r \in 1 .. Len(msgs) + 1 OBVIOUS
  <2> QED BY <2>1, StartFacts
<1>3. Len(chan) = spos - rpos /\ rpos <= spos BY DEF FwdOK, FwdLength
<1>4. at + q \in 1 .. MsgLen(msgs[r]) BY <1>1, <1>3
<1>5. StartAt(msgs, r) + (at + q) - rpos = q BY <1>2, <1>3, SMTT(30)
<1>6. q \in 1 .. spos - rpos BY <1>3
<1>7. chan[0 + q] = MsgToken(msgs[r], at + q) BY <1>4, <1>5, <1>6 DEF FwdOK, FwdStream
<1> QED BY <1>3, <1>7

(* The sender sends n units of content that was asked for.                 *)
LEMMA ContentPush ==
  ASSUME NEW msgs, NEW chan, NEW chan2, NEW n \in Nat, IsSeq(chan),
         NEW missing \in Seq(Fingerprints), NEW recvd \in Nat, NEW ahead \in Nat, NEW pos \in Nat,
         FwdOK(chan, ahead, missing, recvd, msgs, pos, pos),
         NEW k \in 1 .. Len(missing), NEW at \in Nat,
         NEW size \in Nat, Is(size, ContentSize[missing[k]]), at + n <= size,
         NEW off \in Nat, Is(off, OffsetOf(missing, k)), ahead + recvd = off + at,
         Grows(chan, n, chan2), HoldsContent(chan2, Len(chan), n, missing[k], at)
  PROVE  FwdOK(chan2, ahead + n, missing, recvd, msgs, pos, pos)
<1>1. Len(chan) = ahead BY DEF FwdOK, FwdLength
<1>2. FwdLength(chan2, ahead + n, pos, pos) BY <1>1 DEF FwdLength, Grows
<1>3. FwdStream(chan2, ahead + n, msgs, pos, pos) BY DEF FwdStream
<1>4. FwdContent(chan2, ahead + n, missing, recvd)
  <2> SUFFICES ASSUME NEW c \in 1 .. Len(missing), NEW q \in 1 .. ContentSize[missing[c]],
                      OffsetOf(missing, c) + q - recvd \in 1 .. ahead + n
               PROVE  chan2[OffsetOf(missing, c) + q - recvd]
                        = [type |-> "data", val |-> <<missing[c], q>>]
    BY DEF FwdContent
  <2>1. PICK sz \in Nat : Is(sz, ContentSize[missing[c]]) BY SizesFacts DEF Is
  <2>2. c \in 1 .. Len(missing) + 1 OBVIOUS
  <2>3. PICK o \in Nat : Is(o, OffsetOf(missing, c)) BY <2>2, OffsetFacts DEF Is
  <2>4. q \in 1 .. sz BY <2>1 DEF Is
  <2>5. PICK j \in 1 .. ahead + n : j = o + q - recvd BY <2>3 DEF Is
  <2>6. /\ Is(sz, ContentSize[missing[c]]) /\ Is(o, OffsetOf(missing, c))
        /\ q \in 1 .. sz /\ j = o + q - recvd
    BY <2>1, <2>3, <2>4, <2>5
  <2>7. chan2[j] = [type |-> "data", val |-> <<missing[c], q>>]
    <3>1. CASE j <= ahead
      <4>1. chan[j] = [type |-> "data", val |-> <<missing[c], q>>]
        <5>1. q \in 1 .. ContentSize[missing[c]] BY <2>6 DEF Is
        <5>2. OffsetOf(missing, c) + q - recvd = j BY <2>6 DEF Is
        <5>3. j \in 1 .. ahead BY <3>1
        <5> QED BY <5>1, <5>2, <5>3 DEF FwdOK, FwdContent
      <4> QED BY <1>1, <3>1, <4>1 DEF Grows
    <3>2. CASE ~ (j <= ahead)
      <4>1. c = k
        <5>1. CASE c < k
          <6>1. k \in c + 1 .. Len(missing) + 1 /\ c + 1 \in 1 .. Len(missing) + 1 BY <5>1
          <6>2. PICK nx \in Nat : Is(nx, OffsetOf(missing, c + 1)) BY <6>1, OffsetFacts DEF Is
          <6>3. nx <= off BY <6>1, <6>2, OffsetFacts DEF Is
          <6>4. nx = o + sz BY <2>6, <6>2, OffsetFacts DEF Is
          <6>5. q <= sz /\ q \in Int /\ j = o + q - recvd BY <2>6
          <6>6. o + q <= off BY <6>3, <6>4, <6>5
          <6>7. j <= ahead BY <6>5, <6>6
          <6> QED BY <3>2, <6>7
        <5>2. CASE c > k
          <6>1. c \in k + 1 .. Len(missing) + 1 /\ k + 1 \in 1 .. Len(missing) + 1 BY <5>2
          <6>2. PICK nx \in Nat : Is(nx, OffsetOf(missing, k + 1)) BY <6>1, OffsetFacts DEF Is
          <6>3. nx <= o BY <2>6, <6>1, <6>2, OffsetFacts DEF Is
          <6>4. nx = off + size BY <6>2, OffsetFacts DEF Is
          <6>5. q >= 1 /\ q \in Int /\ j = o + q - recvd BY <2>6
          <6>6. o >= off + at + n BY <6>3, <6>4
          <6>7. j > ahead + n BY <6>5, <6>6
          <6> QED BY <6>7
        <5>3. c \in Int /\ k \in Int OBVIOUS
        <5>4. c < k \/ c > k \/ c = k BY <5>3
        <5> QED BY <5>1, <5>2, <5>4, Zenon
      <4>2. o = off /\ sz = size BY <2>6, <4>1 DEF Is
      <4>3. q - at \in 1 .. n
        <5>1. q \in Int /\ j = off + q - recvd BY <2>6, <4>2
        <5>2. q - at = j - ahead BY <5>1
        <5>3. j - ahead \in 1 .. n BY <3>2
        <5> QED BY <5>2, <5>3
      <4>4. chan2[ahead + (q - at)] = [type |-> "data", val |-> <<missing[k], at + (q - at)>>]
        BY <1>1, <4>3 DEF HoldsContent
      <4>5. j = off + q - recvd BY <2>6, <4>2
      <4>6. j = ahead + (q - at) /\ at + (q - at) = q BY <4>5
      <4>7. chan2[j] = chan2[ahead + (q - at)] BY <4>6
      <4>8. <<missing[c], q>> = <<missing[k], at + (q - at)>> BY <4>1, <4>6
      <4> QED BY <4>4, <4>7, <4>8
    <3> QED BY <3>1, <3>2
  <2> QED BY <2>3, <2>5, <2>7 DEF Is
<1> QED BY <1>2, <1>3, <1>4 DEF FwdOK

(* The receiver takes n units of content.                                  *)
LEMMA ContentPop ==
  ASSUME NEW msgs \in Seq(Messages), NEW chan, NEW chan2, NEW n \in Nat, IsSeq(chan),
         NEW missing \in Seq(Fingerprints), NEW recvd \in Nat, NEW ahead \in Nat,
         NEW rpos \in Nat, NEW spos \in Nat,
         FwdOK(chan, ahead, missing, recvd, msgs, rpos, spos),
         n <= ahead, Shifts(chan, n, chan2)
  PROVE  FwdOK(chan2, ahead - n, missing, recvd + n, msgs, rpos, spos)
<1>1. Len(chan) = ahead + (spos - rpos) /\ rpos <= spos BY DEF FwdOK, FwdLength
<1>2. FwdLength(chan2, ahead - n, rpos, spos) BY <1>1 DEF FwdLength, Shifts
<1>3. \A j \in Int : j - n \in 1 .. Len(chan) - n => chan2[j - n] = chan[j]
  <2> SUFFICES ASSUME NEW j \in Int, j - n \in 1 .. Len(chan) - n PROVE chan2[j - n] = chan[j]
    OBVIOUS
  <2>1. chan2[j - n] = chan[n + (j - n)] BY DEF Shifts
  <2>2. n + (j - n) = j OBVIOUS
  <2> QED BY <2>1, <2>2
<1>4. FwdContent(chan2, ahead - n, missing, recvd + n)
  <2> SUFFICES ASSUME NEW c \in 1 .. Len(missing), NEW q \in 1 .. ContentSize[missing[c]],
                      OffsetOf(missing, c) + q - (recvd + n) \in 1 .. ahead - n
               PROVE  chan2[OffsetOf(missing, c) + q - (recvd + n)]
                        = [type |-> "data", val |-> <<missing[c], q>>]
    BY DEF FwdContent
  <2>1. PICK sz \in Nat : sz = ContentSize[missing[c]] BY SizesFacts
  <2>2. c \in 1 .. Len(missing) + 1 OBVIOUS
  <2>3. PICK o \in Nat : o = OffsetOf(missing, c) BY <2>2, OffsetFacts
  <2>4. PICK j \in Int : j = o + q - recvd BY <2>1
  <2>5. o + q - (recvd + n) = j - n BY <2>1, <2>4, SMTT(30)
  <2>6. j - n \in 1 .. ahead - n BY <2>3, <2>5
  <2>7. j \in 1 .. ahead /\ j - n \in 1 .. Len(chan) - n BY <1>1, <2>6
  <2>8. chan[j] = [type |-> "data", val |-> <<missing[c], q>>]
    BY <2>3, <2>4, <2>7 DEF FwdOK, FwdContent
  <2> QED BY <1>3, <2>3, <2>5, <2>7, <2>8
<1>5. FwdStream(chan2, ahead - n, msgs, rpos, spos)
  <2> SUFFICES ASSUME NEW k \in 1 .. Len(msgs), NEW p \in 1 .. MsgLen(msgs[k]),
                      StartAt(msgs, k) + p - rpos \in 1 .. spos - rpos
               PROVE  chan2[(ahead - n) + (StartAt(msgs, k) + p - rpos)] = MsgToken(msgs[k], p)
    BY DEF FwdStream
  <2> DEFINE j == StartAt(msgs, k) + p - rpos
  <2>1. chan[ahead + j] = MsgToken(msgs[k], p) BY DEF FwdOK, FwdStream
  <2>2. j \in 1 .. spos - rpos OBVIOUS
  <2> HIDE DEF j
  <2>3. (ahead - n) + j = (ahead + j) - n /\ (ahead + j) - n \in 1 .. Len(chan) - n
    BY <1>1, <2>2
  <2>4. chan2[(ahead - n) + j] = MsgToken(msgs[k], p) BY <1>3, <2>1, <2>2, <2>3
  <2> QED BY <2>4 DEF j
<1> QED BY <1>2, <1>4, <1>5 DEF FwdOK

(* What the receiver reads of the k-th missing chunk. *)
LEMMA ContentRead ==
  ASSUME NEW msgs, NEW chan, NEW missing \in Seq(Fingerprints), NEW recvd \in Nat,
         NEW ahead \in Nat, NEW rpos, NEW spos,
         FwdOK(chan, ahead, missing, recvd, msgs, rpos, spos),
         NEW k \in 1 .. Len(missing), NEW at \in Nat, recvd = OffsetOf(missing, k) + at,
         NEW q \in 1 .. ahead, at + q <= ContentSize[missing[k]]
  PROVE  chan[q] = [type |-> "data", val |-> <<missing[k], at + q>>]
<1>1. ContentSize[missing[k]] \in Nat BY SizesFacts
<1>2. OffsetOf(missing, k) \in Nat
  <2>1. k \in 1 .. Len(missing) + 1 OBVIOUS
  <2> QED BY <2>1, OffsetFacts
<1>3. at + q \in 1 .. ContentSize[missing[k]] BY <1>1
<1>4. OffsetOf(missing, k) + (at + q) - recvd = q BY <1>2
<1> QED BY <1>3, <1>4 DEF FwdOK, FwdContent

-----------------------------------------------------------------------------
(* What send() and recv() do to a socket.                                  *)

(* A direction of the socket is a sequence no longer than its buffer.      *)
LEMMA SocketSeq == ASSUME NEW chan, IsSocket(chan) PROVE IsSeq(chan) /\ Len(chan) <= SockBuf
BY TransferAssumption DEF IsSocket, IsSeq

(* The steps on a socket, as relations between it before and after. *)
Sends(chan, type, left, n, chan2) ==
  CanSend(chan, left, n) /\ chan2 = chan \o Tokens(type, SubSeq(left, 1, n))

Puts(chan, type, v, chan2) == Len(chan) < SockBuf /\ chan2 = chan \o Tokens(type, <<v>>)

Takes(chan, left, n, chan2, vals) ==
  CanRecv(chan, left, n) /\ chan2 = Rest(chan, n) /\ vals = Vals(SubSeq(chan, 1, n))

TakesOne(chan, chan2) == chan # <<>> /\ chan2 = Tail(chan)

(* What send() puts behind what is under way, when it moves n of what is   *)
(* left.                                                                   *)
SentTo(chan, type, left, n, chan2) ==
  /\ n \in Nat \ {0} /\ n <= Len(left)
  /\ IsSocket(chan2) /\ Grows(chan, n, chan2)
  /\ \A k \in 1 .. n : chan2[Len(chan) + k] = [type |-> type, val |-> left[k]]

(* That is what it does. *)
LEMMA SendEffect ==
  ASSUME NEW chan, IsSocket(chan), NEW left, IsSeq(left), NEW n, NEW type, NEW chan2,
         Sends(chan, type, left, n, chan2)
  PROVE  SentTo(chan, type, left, n, chan2)
<1> DEFINE vals == SubSeq(left, 1, n)
           toks == Tokens(type, vals)
<1>1. n \in Nat \ {0} /\ n <= Len(left) /\ Len(chan) + n <= SockBuf BY DEF Sends, CanSend, IsSeq
<1>2. IsSeq(chan) BY SocketSeq
<1>3. IsSeq(vals) /\ Len(vals) = n /\ \A k \in 1 .. n : vals[k] = left[k]
  <2>1. n \in 0 .. Len(left) BY <1>1 DEF IsSeq
  <2> QED BY <2>1, FirstSeq
<1> HIDE DEF vals
<1>4. IsSeq(toks) /\ Len(toks) = n /\ \A k \in 1 .. n : toks[k] = [type |-> type, val |-> vals[k]]
  BY <1>3, TokensSeq
<1>5. chan2 = chan \o toks BY DEF vals, Sends
<1> HIDE DEF toks
<1>6. /\ IsSeq(chan2) /\ Len(chan2) = Len(chan) + n
      /\ \A k \in 1 .. Len(chan) : chan2[k] = chan[k]
      /\ \A k \in 1 .. n : chan2[Len(chan) + k] = toks[k]
  <2>1. /\ IsSeq(chan \o toks) /\ Len(chan \o toks) = Len(chan) + Len(toks)
        /\ \A k \in 1 .. Len(chan) : (chan \o toks)[k] = chan[k]
        /\ \A k \in 1 .. Len(toks) : (chan \o toks)[Len(chan) + k] = toks[k]
    <3>1. IsSeq(chan) /\ IsSeq(toks) BY <1>2, <1>4
    <3> QED BY <3>1, ConcatSeq
  <2> QED BY <1>4, <1>5, <2>1, Zenon
<1>7. Grows(chan, n, chan2) BY <1>6 DEF Grows
<1>8. IsSocket(chan2) BY <1>1, <1>6, TransferAssumption DEF IsSocket, IsSeq
<1>9. /\ n \in Nat \ {0} /\ n <= Len(left)
       /\ IsSocket(chan2) /\ Grows(chan, n, chan2)
       /\ \A k \in 1 .. n : chan2[Len(chan) + k] = [type |-> type, val |-> left[k]]
  BY <1>1, <1>3, <1>4, <1>6, <1>7, <1>8
<1> QED BY <1>9 DEF SentTo

(* What a header adds to what is under way.                                *)
LEMMA PutEffect ==
  ASSUME NEW chan, IsSocket(chan), NEW type, NEW v, NEW chan2, Puts(chan, type, v, chan2)
  PROVE  /\ IsSocket(chan2) /\ Grows(chan, 1, chan2)
         /\ chan2[Len(chan) + 1] = [type |-> type, val |-> v]
<1>1. IsSeq(<<v>>) /\ Len(<<v>>) = 1 /\ <<v>>[1] = v BY DEF IsSeq
<1> DEFINE toks == Tokens(type, <<v>>)
<1>2. IsSeq(toks) /\ Len(toks) = 1 /\ toks[1] = [type |-> type, val |-> v]
  BY <1>1, TokensSeq
<1>3. IsSeq(chan) BY SocketSeq
<1>4. chan2 = chan \o toks /\ Len(chan) < SockBuf BY DEF Puts
<1> HIDE DEF toks
<1>5. /\ IsSeq(chan2) /\ Len(chan2) = Len(chan) + 1
      /\ \A k \in 1 .. Len(chan) : chan2[k] = chan[k]
      /\ \A k \in 1 .. 1 : chan2[Len(chan) + k] = toks[k]
  <2>1. /\ IsSeq(chan \o toks) /\ Len(chan \o toks) = Len(chan) + Len(toks)
        /\ \A k \in 1 .. Len(chan) : (chan \o toks)[k] = chan[k]
        /\ \A k \in 1 .. Len(toks) : (chan \o toks)[Len(chan) + k] = toks[k]
    <3>1. IsSeq(chan) /\ IsSeq(toks) BY <1>2, <1>3
    <3> QED BY <3>1, ConcatSeq
  <2> QED BY <1>2, <1>4, <2>1, Zenon
<1>6. Grows(chan, 1, chan2) BY <1>5 DEF Grows
<1>7. IsSocket(chan2) BY <1>3, <1>4, <1>5, TransferAssumption DEF IsSocket, IsSeq
<1> QED BY <1>2, <1>5, <1>6, <1>7

(* What recv() takes from the front, and what then is left.                *)
TakenFrom(chan, left, n, chan2, vals) ==
  /\ n \in Nat \ {0} /\ n <= left
  /\ IsSocket(chan2) /\ Shifts(chan, n, chan2)
  /\ IsSeq(vals) /\ Len(vals) = n
  /\ \A k \in 1 .. n : vals[k] = chan[k].val

(* That is what it does. *)
LEMMA RecvEffect ==
  ASSUME NEW chan, IsSocket(chan), NEW left \in Int, NEW n, NEW chan2, NEW vals,
         Takes(chan, left, n, chan2, vals)
  PROVE  TakenFrom(chan, left, n, chan2, vals)
<1>1. n \in Nat \ {0} /\ n <= left /\ n <= Len(chan) BY DEF Takes, CanRecv
<1>2. IsSeq(chan) BY SocketSeq
<1>3. n \in 0 .. Len(chan) BY <1>1, <1>2 DEF IsSeq
<1>4. /\ IsSeq(chan2) /\ Len(chan2) = Len(chan) - n
      /\ \A k \in 1 .. Len(chan) - n : chan2[k] = chan[n + k]
  BY <1>2, <1>3, RestSeq DEF Takes
<1>5. Shifts(chan, n, chan2) BY <1>1, <1>4 DEF Shifts
<1>6. IsSocket(chan2) BY <1>3, <1>4, <1>2, SocketSeq, TransferAssumption DEF IsSocket, IsSeq
<1> DEFINE toks == SubSeq(chan, 1, n)
<1>7. IsSeq(toks) /\ Len(toks) = n /\ \A k \in 1 .. n : toks[k] = chan[k]
  BY <1>2, <1>3, FirstSeq
<1>8. vals = Vals(toks) BY DEF Takes
<1> HIDE DEF toks
<1>9. IsSeq(vals) /\ Len(vals) = n /\ \A k \in 1 .. n : vals[k] = toks[k].val
  BY <1>7, <1>8, ValsSeq
<1>10. /\ n \in Nat \ {0} /\ n <= left
       /\ IsSocket(chan2) /\ Shifts(chan, n, chan2)
       /\ IsSeq(vals) /\ Len(vals) = n
       /\ \A k \in 1 .. n : vals[k] = chan[k].val
  BY <1>1, <1>5, <1>6, <1>7, <1>9
<1> QED BY <1>10 DEF TakenFrom

(* What taking a header leaves.                                            *)
LEMMA HeadEffect ==
  ASSUME NEW chan, IsSocket(chan), NEW chan2, TakesOne(chan, chan2)
  PROVE  /\ Len(chan) > 0 /\ Head(chan) = chan[1]
         /\ IsSocket(chan2) /\ Shifts(chan, 1, chan2)
<1>1. IsSeq(chan) BY SocketSeq
<1>2. /\ Len(chan) > 0 /\ Head(chan) = chan[1]
      /\ IsSeq(Tail(chan)) /\ Len(Tail(chan)) = Len(chan) - 1
      /\ \A k \in 1 .. Len(chan) - 1 : Tail(chan)[k] = chan[1 + k]
  BY <1>1, HeadTailSeq DEF TakesOne
<1>3. Shifts(chan, 1, chan2) BY <1>1, <1>2 DEF Shifts, IsSeq, TakesOne
<1>4. IsSocket(chan2) BY <1>1, <1>2, SocketSeq, TransferAssumption DEF IsSocket, IsSeq, TakesOne
<1> QED BY <1>2, <1>3, <1>4

-----------------------------------------------------------------------------
(* Where the two ends are.                                                 *)

(* The messages sent and delivered, and where they start in the stream.    *)
LEMMA Counts ==
  ASSUME TypeOK, DeliveredAsSent
  PROVE  /\ S \in Nat /\ R \in Nat \ {0} /\ R <= S + 1 /\ Len(delivered) = R - 1
         /\ \A k \in 1 .. S : sent[k] \in Messages
         /\ \A k \in 1 .. S + 1 : StartOf(k) \in Nat
         /\ \A k \in 1 .. S : /\ MsgLen(sent[k]) \in Nat \ {0}
                              /\ StartOf(k + 1) = StartOf(k) + MsgLen(sent[k])
         /\ \A k \in 1 .. S + 1 : \A j \in k .. S + 1 : StartOf(k) <= StartOf(j)
<1>1. sent \in Seq(Messages) /\ Len(delivered) \in Nat BY DEF TypeOK
<1>2. S \in Nat /\ \A k \in 1 .. S : sent[k] \in Messages BY <1>1 DEF S
<1>3. R \in Nat \ {0} /\ R <= S + 1 /\ Len(delivered) = R - 1
  BY <1>1, <1>2 DEF DeliveredAsSent, R, S
<1>4. \A k \in 1 .. S : MsgLen(sent[k]) \in Nat \ {0} BY <1>2, MsgFacts
<1> QED BY <1>1, <1>2, <1>3, <1>4, StartFacts DEF StartOf, S

(* The sender is between the start and the end of its message.             *)
LEMMA SendPosition ==
  ASSUME TypeOK, DeliveredAsSent, SendInv
  PROVE  /\ active_fds["s"] =>
              /\ S > 0 /\ sent[S] \in Messages
              /\ SendAt \in Nat /\ SendAt <= MsgLen(sent[S])
              /\ SPos = StartOf(S) + SendAt
         /\ ~ active_fds["s"] => SPos = StartOf(S + 1)
         /\ SPos \in Nat
         /\ SPos <= StartOf(S + 1)
         /\ S > 0 => StartOf(S) <= SPos
<1>1. S \in Nat /\ StartOf(S + 1) \in Nat BY Counts
<1>2. S > 0 => /\ StartOf(S) \in Nat /\ MsgLen(sent[S]) \in Nat \ {0} /\ sent[S] \in Messages
               /\ StartOf(S + 1) = StartOf(S) + MsgLen(sent[S])
  <2>1. S > 0 => S \in 1 .. S /\ S \in 1 .. S + 1 BY <1>1
  <2> QED BY <2>1, Counts
<1>3. CASE active_fds["s"]
  <2>1. S > 0 /\ send_req.chunks = ChunksOf[sent[S]] BY <1>3 DEF SendInv
  <2>2. send_req.offset \in Nat BY DEF TypeOK, SendReqs
  <2>3. SendAt \in Nat /\ SendAt <= MsgLen(sent[S])
    <3>1. CASE stage["s"] = "SEND_REG_DATA"
      <4>1. ~ IsFingerprinted(sent[S]) /\ send_req.offset <= Size(ChunksOf[sent[S]])
        BY <3>1 DEF SendInv
      <4>2. MsgLen(sent[S]) = 1 + Size(ChunksOf[sent[S]]) /\ Size(ChunksOf[sent[S]]) \in Nat
        BY <1>2, <2>1, <4>1, MsgFacts
      <4>3. SendAt = 1 + send_req.offset BY <3>1 DEF SendAt
      <4> QED BY <2>2, <4>1, <4>2, <4>3
    <3>2. CASE stage["s"] = "SEND_PACKAGED_FINGERPRINTS"
      <4>1. IsFingerprinted(sent[S]) /\ send_req.offset < Len(ChunksOf[sent[S]])
        BY <2>1, <3>2 DEF SendInv, SendFpStages, SendStages
      <4>2. MsgLen(sent[S]) = 2 + Len(ChunksOf[sent[S]]) /\ Len(ChunksOf[sent[S]]) \in Nat
        BY <1>2, <2>1, <4>1, MsgFacts
      <4>3. SendAt = 2 + send_req.offset BY <3>2 DEF SendAt
      <4> QED BY <2>2, <4>1, <4>2, <4>3
    <3>3. CASE stage["s"] \notin {"SEND_REG_DATA", "SEND_PACKAGED_FINGERPRINTS"}
      <4>1. SendAt = 0 \/ SendAt = 1 \/ SendAt = MsgLen(sent[S]) BY <3>3 DEF SendAt
      <4> QED BY <1>2, <2>1, <4>1
    <3> QED BY <3>1, <3>2, <3>3
  <2>4. SPos = StartOf(S) + SendAt BY <1>3 DEF SPos
  <2> QED BY <1>1, <1>2, <1>3, <2>1, <2>3, <2>4
<1>4. CASE ~ active_fds["s"]
  <2>1. SPos = StartOf(S + 1) BY <1>4 DEF SPos
  <2> QED BY <1>1, <1>2, <1>4, <2>1
<1> QED BY <1>3, <1>4

(* The receiver is between the start and the end of its message.           *)
LEMMA RecvPosition ==
  ASSUME TypeOK, DeliveredAsSent, RecvInv
  PROVE  /\ active_fds["r"] /\ stage["r"] # "RECV_HEADER" =>
              /\ R <= S /\ sent[R] \in Messages
              /\ RecvAt \in Nat /\ RecvAt <= MsgLen(sent[R])
              /\ RPos = StartOf(R) + RecvAt
         /\ ~ (active_fds["r"] /\ stage["r"] # "RECV_HEADER") => RPos = StartOf(R)
         /\ RPos \in Nat
         /\ StartOf(R) \in Nat
<1>1. /\ S \in Nat /\ R \in Nat \ {0} /\ R \in 1 .. S + 1 /\ StartOf(R) \in Nat
  BY Counts
<1>2. R <= S => MsgLen(sent[R]) \in Nat \ {0} /\ sent[R] \in Messages
  <2>1. R <= S => R \in 1 .. S BY <1>1
  <2> QED BY <2>1, Counts
<1>3. CASE active_fds["r"] /\ stage["r"] # "RECV_HEADER"
  <2>1. R <= S BY <1>3 DEF RecvInv
  <2>2. recv_req.offset \in Nat /\ Len(recv_req.packaged) \in Nat BY DEF TypeOK, RecvReqs
  <2>3. RecvAt \in Nat /\ RecvAt <= MsgLen(sent[R])
    <3>1. CASE stage["r"] = "RECV_REG_DATA"
      <4>1. ~ IsFingerprinted(sent[R]) /\ recv_req.offset <= Size(ChunksOf[sent[R]])
        BY <3>1 DEF RecvInv, RegDataInv
      <4>2. MsgLen(sent[R]) = 1 + Size(ChunksOf[sent[R]]) /\ Size(ChunksOf[sent[R]]) \in Nat
        BY <1>2, <2>1, <4>1, MsgFacts
      <4>3. RecvAt = 1 + recv_req.offset BY <3>1 DEF RecvAt
      <4> QED BY <2>2, <4>1, <4>2, <4>3
    <3>2. CASE stage["r"] = "RECV_PACKAGED_FINGERPRINTS"
      <4>1. IsFingerprinted(sent[R]) /\ Len(recv_req.packaged) < Len(ChunksOf[sent[R]])
        BY <3>2 DEF RecvInv, FirstInv, RecvFpStages, RecvStages, RecvFirst
      <4>2. MsgLen(sent[R]) = 2 + Len(ChunksOf[sent[R]]) /\ Len(ChunksOf[sent[R]]) \in Nat
        BY <1>2, <2>1, <4>1, MsgFacts
      <4>3. RecvAt = 2 + Len(recv_req.packaged) BY <3>2 DEF RecvAt
      <4> QED BY <2>2, <4>1, <4>2, <4>3
    <3>3. CASE stage["r"] \notin {"RECV_REG_DATA", "RECV_PACKAGED_FINGERPRINTS"}
      <4>1. RecvAt = 0 \/ RecvAt = 1 \/ RecvAt = MsgLen(sent[R]) BY <3>3 DEF RecvAt
      <4> QED BY <1>2, <2>1, <4>1
    <3> QED BY <3>1, <3>2, <3>3
  <2>4. RPos = StartOf(R) + RecvAt BY <1>3 DEF RPos
  <2> QED BY <1>1, <1>2, <1>3, <2>1, <2>3, <2>4
<1>4. CASE ~ (active_fds["r"] /\ stage["r"] # "RECV_HEADER")
  <2>1. RPos = StartOf(R) BY <1>1, <1>4 DEF RPos, RecvAt
  <2> QED BY <1>1, <1>4, <2>1
<1> QED BY <1>3, <1>4

(* The chunks that are missing, once the receiver has the fingerprints. *)
LEMMA MissingFacts ==
  ASSUME TypeOK, DeliveredAsSent, RecvInv, active_fds["r"], stage["r"] \in RecvKnown
  PROVE  /\ R <= S /\ sent[R] \in Messages /\ IsFingerprinted(sent[R])
         /\ recv_req.packaged = ChunksOf[sent[R]]
         /\ recv_req.packaged \in Seq(Fingerprints)
         /\ \A k \in 1 .. Len(recv_req.missing) :
              recv_req.missing[k] \in 1 .. Len(recv_req.packaged)
         /\ Missing \in Seq(Fingerprints)
         /\ Len(Missing) = Len(recv_req.missing)
         /\ Len(Missing) \in Nat
         /\ \A k \in 1 .. Len(Missing) :
              Missing[k] = recv_req.packaged[recv_req.missing[k]]
<1>1. R <= S /\ ListInv /\ IsFingerprinted(sent[R]) BY DEF RecvInv, RecvKnown, RecvFpStages
<1>2. sent[R] \in Messages
  <2>1. R \in 1 .. S BY <1>1, Counts
  <2> QED BY <2>1, Counts
<1>3. recv_req.packaged \in Seq(Fingerprints) /\ recv_req.missing \in Seq(Nat)
  BY DEF TypeOK, RecvReqs
<1>4. i["r"] \in Nat /\ Len(recv_req.packaged) \in Nat BY <1>3 DEF TypeOK, Ends
<1>5. \A k \in 1 .. Len(recv_req.missing) :
        recv_req.missing[k] \in 1 .. Len(recv_req.packaged)
  <2>1. LookedUp \in Int /\ LookedUp <= Len(recv_req.packaged)
    BY <1>1, <1>4 DEF ListInv, LookedUp
  <2> QED BY <1>1, <1>4, <2>1 DEF ListInv
<1>6. Len(recv_req.missing) \in Nat BY <1>3
<1>7. \A k \in 1 .. Len(recv_req.missing) :
        recv_req.packaged[recv_req.missing[k]] \in Fingerprints
  BY <1>3, <1>5
<1>8. Missing \in [1 .. Len(recv_req.missing) -> Fingerprints] BY <1>7 DEF Missing
<1>9. Len(Missing) = Len(recv_req.missing) BY <1>6, <1>8
<1>10. Missing \in Seq(Fingerprints)
  <2>1. IsSeq(Missing) BY <1>6, <1>8, <1>9 DEF IsSeq
  <2>2. \A k \in 1 .. Len(Missing) : Missing[k] \in Fingerprints BY <1>8, <1>9
  <2> QED BY <2>1, <2>2, SeqOfMembers
<1>11. \A k \in 1 .. Len(Missing) : Missing[k] = recv_req.packaged[recv_req.missing[k]]
  BY <1>9 DEF Missing
<1> QED BY <1>1, <1>2, <1>3, <1>5, <1>6, <1>9, <1>10, <1>11 DEF ListInv

-----------------------------------------------------------------------------
(* Steps of one end leave the other alone.                                 *)

RecvSame ==
  /\ delivered' = delivered /\ recv_req' = recv_req /\ torn' = torn
  /\ active_fds'["r"] = active_fds["r"]
  /\ stage'["r"] = stage["r"]
  /\ i'["r"] = i["r"]

SendSame ==
  /\ sent' = sent /\ send_req' = send_req
  /\ active_fds'["s"] = active_fds["s"]
  /\ stage'["s"] = stage["s"]
  /\ i'["s"] = i["s"]

(* sent stays as it is or gets one message more. *)
SentGrows == sent' = sent \/ \E m \in Messages : sent' = Append(sent, m)

(* A new message leaves the stream up to it as it was.                     *)
LEMMA SentFrame ==
  ASSUME TypeOK, DeliveredAsSent, SentGrows
  PROVE  /\ S' \in Nat /\ S <= S'
         /\ \A k \in 1 .. S : sent'[k] = sent[k]
         /\ \A k \in 1 .. S + 1 : StartOf(k)' = StartOf(k)
<1>1. sent \in Seq(Messages) BY DEF TypeOK
<1>2. CASE sent' = sent
  <2>1. \A k : StartOf(k)' = StartOf(k) BY <1>2 DEF StartOf
  <2> QED BY <1>1, <1>2, <2>1, Counts DEF S
<1>3. ASSUME NEW m \in Messages, sent' = Append(sent, m)
      PROVE  /\ S' \in Nat /\ S <= S'
             /\ \A k \in 1 .. S : sent'[k] = sent[k]
             /\ \A k \in 1 .. S + 1 : StartOf(k)' = StartOf(k)
  <2>1. Len(sent') = Len(sent) + 1 /\ \A k \in 1 .. Len(sent) : sent'[k] = sent[k]
    BY <1>1, <1>3, AppendProperties
  <2>2. \A k \in 1 .. Len(sent) + 1 : StartAt(sent', k) = StartAt(sent, k)
    BY <1>1, <1>3, StartAppend
  <2> QED BY <1>1, <2>1, <2>2, Counts DEF S, StartOf
<1> QED BY <1>2, <1>3 DEF SentGrows

(* A step that the receiver takes no part in.                              *)
LEMMA RecvFrame ==
  ASSUME TypeOK, DeliveredAsSent, RecvInv, SentGrows, RecvSame
  PROVE  /\ R' = R /\ RPos' = RPos
         /\ Missing' = Missing /\ ContentRecvd' = ContentRecvd
         /\ RecvInv'
<1>1. R' = R /\ R \in Nat \ {0} /\ S \in Nat /\ S <= S' /\ S' \in Nat
  BY Counts, SentFrame DEF R, RecvSame
<1>2. R <= S => sent'[R] = sent[R] /\ R <= S'
  <2>1. R <= S => R \in 1 .. S BY <1>1
  <2> QED BY <1>1, <2>1, SentFrame
<1>3. StartOf(R)' = StartOf(R)
  <2>1. R \in 1 .. S + 1 BY Counts
  <2>2. StartOf(R)' = StartAt(sent', R) BY <1>1 DEF StartOf
  <2> QED BY <2>1, <2>2, SentFrame DEF StartOf
<1>4. stage["r"] # "RECV_HEADER" /\ active_fds["r"] => RecvAt' = RecvAt
  <2> SUFFICES ASSUME stage["r"] # "RECV_HEADER", active_fds["r"] PROVE RecvAt' = RecvAt
    OBVIOUS
  <2>1. R <= S BY DEF RecvInv
  <2> QED BY <1>1, <1>2, <2>1 DEF RecvAt, RecvSame
<1>5. RPos' = RPos
  <2>1. StartOf(R') = StartOf(R) BY <1>1
  <2>2. CASE stage["r"] # "RECV_HEADER" /\ active_fds["r"]
    BY <1>3, <1>4, <2>2 DEF RPos, RecvSame
  <2>3. CASE ~ active_fds["r"] BY <1>3, <2>3 DEF RPos, RecvSame
  <2>4. CASE stage["r"] = "RECV_HEADER"
    <3>1. RecvAt = 0 /\ RecvAt' = 0 BY <2>4 DEF RecvAt, RecvSame
    <3> QED BY <1>3, <3>1 DEF RPos, RecvSame
  <2> QED BY <2>2, <2>3, <2>4
<1>6. Missing' = Missing BY DEF Missing, RecvSame
<1>7. ContentRecvd' = ContentRecvd BY <1>6 DEF ContentRecvd, RecvSame
<1>8. RecvInv'
  <2>1. LookedUp' = LookedUp BY DEF LookedUp, RecvSame
  <2>2. \A j, q : Filled(j, q)' = Filled(j, q) BY <2>1 DEF Filled, RecvSame
  <2>3. R <= S /\ RegDataInv => RegDataInv' BY <1>1, <1>2 DEF RegDataInv, RecvSame
  <2>4. R <= S /\ FirstInv => FirstInv' BY <1>1, <1>2 DEF FirstInv, RecvSame
  <2>5. R <= S /\ ListInv => ListInv' BY <1>1, <1>2, <2>1 DEF ListInv, RecvSame
  <2>6. FilledInv => FilledInv' BY <1>1, <1>6, <1>7, <2>1, <2>2 DEF FilledInv, RecvSame
  <2>7. ProgressInv => ProgressInv' BY <1>6 DEF ProgressInv, RecvSame
  <2>8. R <= S /\ CompleteInv => CompleteInv' BY <1>1, <1>2 DEF CompleteInv, RecvSame
  <2>9. stage["r"] \notin {"RECV_HEADER", "RECV_COMPLETE"} => R <= S BY DEF RecvInv
  <2>10. At("r", "RECV_COMPLETE") => R <= S BY DEF RecvInv, At
  <2> QED BY <1>1, <1>2, <2>3, <2>4, <2>5, <2>6, <2>7, <2>8, <2>9, <2>10
      DEF RecvInv, RecvSame, At, RecvFpStages, RecvFirst, RecvKnown
<1> QED BY <1>1, <1>5, <1>6, <1>7, <1>8

(* A step that the sender takes no part in.                                *)
LEMMA SendFrame ==
  ASSUME TypeOK, DeliveredAsSent, SendInv, SendSame,
         stage["s"] = "SEND_MISSING_CONTENT" => SendContentInv'
  PROVE  /\ S' = S /\ SPos' = SPos /\ SentGrows
         /\ \A k : SenderDone(k)' = SenderDone(k)
         /\ SendInv'
<1>1. S' = S BY DEF S, SendSame
<1>2. SendAt' = SendAt BY <1>1 DEF SendAt, SendSame
<1>3. SPos' = SPos BY <1>1, <1>2 DEF SPos, SendSame, StartOf
<1>4. \A k : SenderDone(k)' = SenderDone(k) BY <1>1 DEF SenderDone, SendSame
<1>5. SendInv' BY <1>1 DEF SendInv, SendSame
<1> QED BY <1>1, <1>3, <1>4, <1>5 DEF SentGrows, SendSame

(* The content under way to the receiver. *)
LEMMA ContentFacts ==
  ASSUME TypeOK, DeliveredAsSent, RecvInv, SendInv, At("r", "RECV_MISSING_CONTENT")
  PROVE  /\ Missing \in Seq(Fingerprints) /\ Len(Missing) \in Nat
         /\ recv_req.content_ind \in 1 .. Len(Missing)
         /\ recv_req.content_offset \in Nat
         /\ ContentSize[Missing[recv_req.content_ind]] \in Nat
         /\ recv_req.content_offset < ContentSize[Missing[recv_req.content_ind]]
         /\ OffsetOf(Missing, recv_req.content_ind) \in Nat
         /\ ContentRecvd \in Nat /\ Size(Missing) \in Nat
         /\ ContentRecvd < Size(Missing)
         /\ ContentSent \in Nat /\ ContentSent <= Size(Missing)
         /\ ~ SenderDone(R) => ContentSent < Size(Missing)
<1>1. active_fds["r"] /\ stage["r"] \in RecvKnown /\ stage["r"] = "RECV_MISSING_CONTENT"
  BY DEF At, RecvKnown, RecvFpStages, RecvFirst, RecvStages
<1>2. Missing \in Seq(Fingerprints) /\ Len(Missing) \in Nat /\ Len(Missing) = Len(recv_req.missing)
  BY <1>1, MissingFacts
<1>3. ProgressInv BY <1>1 DEF RecvInv
<1>4. /\ recv_req.content_ind \in 1 .. Len(Missing)
      /\ recv_req.content_offset < ContentSize[Missing[recv_req.content_ind]]
  BY <1>1, <1>2, <1>3 DEF ProgressInv
<1>5. recv_req.content_offset \in Nat BY DEF TypeOK, RecvReqs
<1>6. \A k \in 1 .. Len(Missing) :
        /\ ContentSize[Missing[k]] \in Nat \ {0}
        /\ OffsetOf(Missing, k) \in Nat
        /\ OffsetOf(Missing, k) + ContentSize[Missing[k]] <= Size(Missing)
  <2> TAKE k \in 1 .. Len(Missing)
  <2>1. /\ k \in 1 .. Len(Missing) + 1 /\ k + 1 \in 1 .. Len(Missing) + 1
        /\ Len(Missing) + 1 \in k + 1 .. Len(Missing) + 1
    BY <1>2
  <2>2. OffsetOf(Missing, k + 1) <= Size(Missing) BY <1>2, <2>1, OffsetFacts
  <2>3. OffsetOf(Missing, k + 1) = OffsetOf(Missing, k) + ContentSize[Missing[k]]
    BY <1>2, OffsetFacts
  <2>4. OffsetOf(Missing, k) \in Nat BY <1>2, <2>1, OffsetFacts
  <2>5. ContentSize[Missing[k]] \in Nat \ {0} BY <1>2, SizesFacts
  <2> QED BY <2>2, <2>3, <2>4, <2>5
<1>7. Size(Missing) \in Nat BY <1>2, OffsetFacts
<1>8. ContentRecvd \in Nat /\ ContentRecvd < Size(Missing)
  BY <1>4, <1>5, <1>6, <1>7 DEF ContentRecvd
<1>9. /\ ContentSent \in Nat /\ ContentSent <= Size(Missing)
      /\ ~ SenderDone(R) => ContentSent < Size(Missing)
  <2>1. CASE SenderDone(R) BY <1>7, <2>1 DEF ContentSent
  <2>2. CASE ~ SenderDone(R) /\ stage["s"] = "SEND_MISSING_CONTENT"
    <3>1. /\ send_req.reply_ind \in 1 .. Len(Missing)
          /\ send_req.reply_offset < ContentSize[Missing[send_req.reply_ind]]
      BY <2>2 DEF SendInv, SendContentInv
    <3>2. send_req.reply_offset \in Nat BY DEF TypeOK, SendReqs
    <3>3. ContentSent = OffsetOf(Missing, send_req.reply_ind) + send_req.reply_offset
      BY <2>2 DEF ContentSent
    <3> QED BY <1>6, <1>7, <3>1, <3>2, <3>3
  <2>3. CASE ~ SenderDone(R) /\ stage["s"] # "SEND_MISSING_CONTENT"
    <3>1. ContentSent = 0 BY <2>3 DEF ContentSent
    <3> QED BY <1>7, <1>8, <3>1
  <2> QED BY <2>1, <2>2, <2>3
<1> QED BY <1>2, <1>4, <1>5, <1>6, <1>7, <1>8, <1>9

(* The types of what FwdInv speaks of.                                     *)
LEMMA FwdFacts ==
  ASSUME TransferInv
  PROVE  /\ IsSocket(fwd) /\ IsSeq(fwd) /\ sent \in Seq(Messages)
         /\ FwdOK(fwd, ContentAhead, Missing, ContentRecvd, sent, RPos, SPos)
         /\ ContentAhead \in Nat /\ RPos \in Nat /\ SPos \in Nat
         /\ RPos <= SPos /\ Len(fwd) = ContentAhead + (SPos - RPos)
         /\ At("r", "RECV_MISSING_CONTENT") => ContentAhead = ContentSent - ContentRecvd
         /\ ~ At("r", "RECV_MISSING_CONTENT") => ContentAhead = 0
<1>1. TypeOK /\ DeliveredAsSent /\ FwdInv /\ SendInv /\ RecvInv BY DEF TransferInv
<1>2. IsSocket(fwd) /\ sent \in Seq(Messages) BY <1>1 DEF TypeOK
<1>3. FwdOK(fwd, ContentAhead, Missing, ContentRecvd, sent, RPos, SPos) BY <1>1 DEF FwdInv, FwdOK
<1>4. RPos \in Nat /\ SPos \in Nat BY <1>1, SendPosition, RecvPosition
<1>5. RPos <= SPos /\ Len(fwd) = ContentAhead + (SPos - RPos) /\ ContentAhead >= 0
  BY <1>3 DEF FwdOK, FwdLength
<1>6. At("r", "RECV_MISSING_CONTENT") => ContentAhead = ContentSent - ContentRecvd
  BY DEF ContentAhead
<1>7. ~ At("r", "RECV_MISSING_CONTENT") => ContentAhead = 0 BY DEF ContentAhead
<1>8. ContentAhead \in Int BY <1>1, <1>6, <1>7, ContentFacts
<1> QED BY <1>2, <1>3, <1>4, <1>5, <1>6, <1>7, <1>8, SocketSeq

(* A step in which nothing moves towards the receiver.                     *)
LEMMA FwdStay ==
  ASSUME TransferInv, fwd' = fwd, sent' = sent, RPos' = RPos, SPos' = SPos,
         ContentAhead' = ContentAhead,
         (Missing' = Missing /\ ContentRecvd' = ContentRecvd) \/ ContentAhead = 0
  PROVE  FwdInv'
<1>1. FwdInv BY DEF TransferInv
<1>2. CASE Missing' = Missing /\ ContentRecvd' = ContentRecvd BY <1>1, <1>2 DEF FwdInv
<1>3. CASE ContentAhead = 0
  <2>1. FwdContent(fwd', ContentAhead', Missing', ContentRecvd') BY <1>3 DEF FwdContent
  <2> QED BY <1>1, <2>1 DEF FwdInv
<1> QED BY <1>2, <1>3

-----------------------------------------------------------------------------
(* Each step of the sender keeps the invariant.                            *)

(* Neither the caches nor what goes with their locks changes; a chunk of   *)
(* the message that the receiver is at may be torn.                        *)
CacheSame ==
  /\ cache' = cache /\ cache_lock' = cache_lock
  /\ to_skip_insert_cache' = to_skip_insert_cache
  /\ trying' = trying /\ astray' = astray
  /\ torn' = torn \/ torn' = torn \cup {Len(delivered) + 1}

(* Whoever tries or has the lock stays in its insert stage. *)
LEMMA LockFrame ==
  ASSUME TypeOK, LockInv, cache_lock' = cache_lock, trying' = trying,
         \A e \in Ends : At(e, InsertStage(e)) => At(e, InsertStage(e))' /\ i'[e] = i[e]
  PROVE  LockInv'
<1> SUFFICES ASSUME NEW e \in Ends
             PROVE  /\ e \in trying => At(e, InsertStage(e))'
                    /\ cache_lock[HostOf[e]] = e =>
                         At(e, InsertStage(e))' /\ i'[e] > 0 /\ e \notin trying
  BY DEF LockInv
<1>1. /\ e \in trying => At(e, InsertStage(e))
      /\ cache_lock[HostOf[e]] = e => At(e, InsertStage(e)) /\ i[e] > 0 /\ e \notin trying
  BY DEF LockInv
<1> QED BY <1>1

(* What was delivered stays what it is when another chunk is torn.         *)
LEMMA DeliveredFrame ==
  ASSUME TypeOK, DeliveredAsSent, CacheSame, delivered' = delivered, sent' = sent
  PROVE  DeliveredAsSent'
<1>1. Len(delivered) \in Nat BY DEF TypeOK
<1>2. \A k \in 1 .. Len(delivered) : k \in torn' <=> k \in torn BY <1>1 DEF CacheSame
<1> QED BY <1>2 DEF DeliveredAsSent

(* isend starts the next message at the end of the stream.                 *)
LEMMA ISendKeeps ==
  ASSUME TransferInv, NEW m \in Messages, ISend(m)
  PROVE  TransferInv'
<1>1. /\ TypeOK /\ DeliveredAsSent /\ FwdInv /\ RevInv /\ SendInv /\ RecvInv /\ TurnInv
      /\ CachesRight /\ LockInv /\ AnnouncedInv
  BY DEF TransferInv
<1>2. /\ ~ active_fds["s"] /\ stage["s"] = "SEND_COMPLETE"
      /\ sent' = Append(sent, m) /\ delivered' = delivered /\ recv_req' = recv_req
      /\ send_req' = [FreshSendReq EXCEPT !.chunks = ChunksOf[m]]
      /\ active_fds' = [active_fds EXCEPT !["s"] = TRUE]
      /\ stage' = [stage EXCEPT !["s"] = "SEND_HEADER"]
      /\ fwd' = fwd /\ rev' = rev /\ i' = i /\ CacheSame /\ torn' = torn
  BY <1>1 DEF ISend, SendInv, Goto, netVars, cacheVars, CacheSame
<1>3. /\ active_fds'["s"] /\ active_fds'["r"] = active_fds["r"]
      /\ stage'["s"] = "SEND_HEADER" /\ stage'["r"] = stage["r"]
  BY <1>1, <1>2 DEF TypeOK, Ends
<1>4. RecvSame /\ SentGrows BY <1>2, <1>3 DEF RecvSame, SentGrows
<1>5. /\ R' = R /\ RPos' = RPos /\ Missing' = Missing /\ ContentRecvd' = ContentRecvd
      /\ RecvInv'
  BY <1>1, <1>4, RecvFrame
<1>6. S \in Nat /\ S' = S + 1 /\ R \in Nat \ {0} /\ R <= S + 1 BY <1>1, <1>2, Counts DEF S, TypeOK
<1>7. sent' \in Seq(Messages) /\ sent'[S'] = m /\ \A k \in 1 .. S : sent'[k] = sent[k]
  BY <1>1, <1>2, <1>6, AppendProperties DEF TypeOK, S
<1>8. /\ send_req'.chunks = ChunksOf[m] /\ send_req'.offset = 0
      /\ send_req'.packaged = <<>> /\ send_req' \in SendReqs
  <2>1. ChunksOf[m] \in Seq(Fingerprints) BY TransferAssumption
  <2>2. <<>> \in Seq(Fingerprints) /\ <<>> \in Seq(Nat) BY EmptySeq
  <2> QED BY <1>2, <2>1, <2>2 DEF FreshSendReq, SendReqs
<1>9. TypeOK'
  <2>1. stage' \in [Ends -> SendStages \cup RecvStages] /\ stage'["s"] \in SendStages
    BY <1>1, <1>2, <1>3 DEF TypeOK, SendStages, Ends
  <2> QED BY <1>1, <1>2, <1>3, <1>7, <1>8, <2>1 DEF TypeOK, CacheSame
<1>10. DeliveredAsSent' BY <1>1, <1>2, <1>6, <1>7 DEF DeliveredAsSent, S, TypeOK
<1>11. FwdInv'
  <2>1. SPos = StartOf(S + 1) BY <1>1, <1>2, SendPosition
  <2>2. SPos' = SPos
    <3>1. SPos' = StartAt(sent', S + 1) + 0 BY <1>3, <1>6 DEF SPos, StartOf, SendAt
    <3>2. StartAt(sent', S + 1) = StartAt(sent, S + 1)
      <4>1. S + 1 \in 1 .. Len(sent) + 1 BY <1>6 DEF S
      <4> QED BY <1>1, <1>2, <4>1, StartAppend DEF TypeOK
    <3>3. StartAt(sent, S + 1) \in Nat BY <1>1, <1>6, Counts DEF StartOf
    <3> QED BY <2>1, <3>1, <3>2, <3>3 DEF StartOf
  <2>3. ContentAhead' = ContentAhead
    <3>1. CASE At("r", "RECV_MISSING_CONTENT")
      <4>1. R <= S BY <1>1, <3>1 DEF At, RecvInv
      <4>2. SenderDone(R) /\ SenderDone(R)' BY <1>2, <1>5, <1>6, <4>1 DEF SenderDone
      <4>3. ContentSent = Size(Missing) /\ ContentSent' = Size(Missing)
        BY <1>5, <4>2 DEF ContentSent
      <4> QED BY <1>3, <1>5, <4>3 DEF ContentAhead, At
    <3>2. CASE ~ At("r", "RECV_MISSING_CONTENT") BY <1>3, <3>2 DEF ContentAhead, At
    <3> QED BY <3>1, <3>2
  <2>4. FwdStream(fwd, ContentAhead, sent', RPos, SPos)
    <3> SUFFICES ASSUME NEW k \in 1 .. S + 1, NEW p \in 1 .. MsgLen(sent'[k]),
                        StartAt(sent', k) + p - RPos \in 1 .. SPos - RPos
                 PROVE  fwd[ContentAhead + (StartAt(sent', k) + p - RPos)] = MsgToken(sent'[k], p)
      BY <1>6 DEF FwdStream, S
    <3>1. StartAt(sent', k) = StartOf(k) BY <1>1, <1>2, <1>6, StartAppend DEF S, StartOf, TypeOK
    <3>2. k # S + 1
      <4> SUFFICES ASSUME k = S + 1 PROVE FALSE OBVIOUS
      <4>1. MsgLen(sent'[k]) \in Nat BY <1>6, <1>7, MsgFacts
      <4>2. SPos \in Nat /\ RPos \in Nat BY FwdFacts
      <4> QED BY <2>1, <3>1, <4>1, <4>2
    <3>3. k \in 1 .. S BY <1>6, <3>2
    <3> QED BY <1>1, <1>7, <3>1, <3>3 DEF FwdInv, FwdStream, S, StartOf
  <2> QED BY <1>1, <1>2, <1>5, <2>2, <2>3, <2>4 DEF FwdInv
<1>12. RevInv' BY <1>1, <1>2, <1>3 DEF RevInv
<1>13. SendInv'
  BY <1>2, <1>3, <1>6, <1>7, <1>8 DEF SendInv, SendFpStages
<1>14. TurnInv'
  <2>1. ASSUME NEW k \in R .. S + 1, SenderDone(k)' PROVE k \in R .. S /\ SenderDone(k)
    BY <1>2, <1>3, <1>6, <2>1 DEF SenderDone
  <2>2. \A k \in R' .. S' : SenderDone(k)' /\ IsFingerprinted(sent'[k]) =>
          /\ k = R' /\ active_fds'["r"]
          /\ stage'["r"] \in {"RECV_MISSING_CONTENT", "INSERT_INBOUND_FINGERPRINTS",
                              "RECV_COMPLETE"}
    <3> SUFFICES ASSUME NEW k \in R .. S + 1, SenderDone(k)', IsFingerprinted(sent'[k])
                 PROVE  /\ k = R /\ active_fds["r"]
                        /\ stage["r"] \in {"RECV_MISSING_CONTENT", "INSERT_INBOUND_FINGERPRINTS",
                                           "RECV_COMPLETE"}
      BY <1>3, <1>5, <1>6
    <3>1. k \in R .. S /\ SenderDone(k) BY <2>1
    <3>2. sent'[k] = sent[k] BY <1>6, <1>7, <3>1
    <3> QED BY <1>1, <3>1, <3>2 DEF TurnInv
  <2>3. R' = S' => ~ (active_fds'["r"] /\ stage'["r"] # "RECV_HEADER")
    BY <1>1, <1>3, <1>5, <1>6 DEF RecvInv
  <2>4. R' < S' \/ R' = S' BY <1>5, <1>6
  <2>5. R' = S' => stage'["r"] # "INSERT_INBOUND_FINGERPRINTS" BY <1>1, <1>3, <2>3 DEF RecvInv
  <2> QED BY <2>2, <2>3, <2>4, <2>5 DEF TurnInv, At
<1>15. LockInv'
  <2>1. \A e \in Ends : At(e, InsertStage(e)) => At(e, InsertStage(e))' /\ i'[e] = i[e]
    BY <1>2, <1>3 DEF At, InsertStage, Ends
  <2> QED BY <1>1, <1>2, <2>1, LockFrame DEF CacheSame
<1>16. AnnouncedInv'
  <2>1. cache_lock[HostOf["s"]] # "s" BY <1>1, <1>2 DEF LockInv, At, Ends
  <2>2. \A j : ~ PastInsert(j)' BY <1>2, <1>3, <2>1 DEF PastInsert, CacheSame, SendFpStages
  <2>3. HostHasAll' BY <1>1, <1>2 DEF AnnouncedInv, HostHasAll, CacheSame
  <2> QED BY <2>2, <2>3 DEF AnnouncedInv
<1>17. CachesRight' BY <1>1, <1>2 DEF CachesRight, CacheSame
<1> QED BY <1>5, <1>9, <1>10, <1>11, <1>12, <1>13, <1>14, <1>15, <1>16, <1>17 DEF TransferInv

(* What the steps of the sender on a message have in common. *)
SenderStep ==
  /\ active_fds["s"] /\ sent' = sent /\ RecvSame /\ CacheSame /\ i' = i
  /\ stage["s"] # "INSERT_OUTBOUND_FINGERPRINTS"

Announced == SendFpStages \ {"COMPUTE_FINGERPRINTS", "INSERT_OUTBOUND_FINGERPRINTS"}

(* What every step of process_send leaves alone.                           *)
LEMMA SenderBase ==
  ASSUME TransferInv, SenderStep
  PROVE  /\ TypeOK /\ DeliveredAsSent /\ FwdInv /\ RevInv /\ SendInv /\ RecvInv /\ TurnInv
         /\ CachesRight /\ LockInv /\ AnnouncedInv
         /\ S' = S /\ R' = R /\ RPos' = RPos
         /\ S \in Nat \ {0} /\ sent[S] \in Messages /\ R \in Nat \ {0} /\ R <= S + 1
         /\ \A k : StartOf(k)' = StartOf(k)
         /\ Missing' = Missing /\ ContentRecvd' = ContentRecvd
         /\ RecvInv' /\ DeliveredAsSent' /\ CachesRight' /\ LockInv'
         /\ cache_lock[HostOf["s"]] # "s" /\ HostHasAll'
<1>1. /\ TypeOK /\ DeliveredAsSent /\ FwdInv /\ RevInv /\ SendInv /\ RecvInv /\ TurnInv
      /\ CachesRight /\ LockInv /\ AnnouncedInv
  BY DEF TransferInv
<1>2. SentGrows /\ RecvSame BY DEF SentGrows, SenderStep
<1>3. S' = S BY DEF S, SenderStep
<1>4. S \in Nat \ {0} /\ sent[S] \in Messages /\ R \in Nat \ {0} /\ R <= S + 1
  <2>1. S > 0 BY <1>1 DEF SendInv, SenderStep
  <2>2. S \in 1 .. S BY <1>1, <2>1, Counts
  <2> QED BY <1>1, <2>2, Counts
<1>5. \A k : StartOf(k)' = StartOf(k) BY DEF StartOf, SenderStep
<1>6. DeliveredAsSent' BY <1>1, DeliveredFrame DEF SenderStep, RecvSame
<1>7. CachesRight' BY <1>1 DEF CachesRight, SenderStep, CacheSame
<1>8. LockInv'
  <2>1. \A e \in Ends : At(e, InsertStage(e)) => At(e, InsertStage(e))' /\ i'[e] = i[e]
    BY DEF At, InsertStage, Ends, SenderStep, RecvSame
  <2> QED BY <1>1, <2>1, LockFrame DEF CacheSame, SenderStep
<1>9. cache_lock[HostOf["s"]] # "s" BY <1>1 DEF LockInv, At, InsertStage, Ends, SenderStep
<1>10. HostHasAll'
  BY <1>1 DEF AnnouncedInv, HostHasAll, CacheSame, SenderStep, RecvSame
<1> QED BY <1>1, <1>2, <1>3, <1>4, <1>5, <1>6, <1>7, <1>8, <1>9, <1>10, RecvFrame

(* A stage of the sender that announces nothing new.                       *)
LEMMA SenderAnnounced ==
  ASSUME TransferInv, SenderStep,
         stage'["s"] \in Announced =>
           /\ stage["s"] \in Announced /\ active_fds["s"]
           /\ send_req'.packaged = send_req.packaged
  PROVE  AnnouncedInv'
<1>1. cache_lock[HostOf["s"]] # "s" /\ HostHasAll' /\ AnnouncedInv BY SenderBase
<1>2. CacheSame BY DEF SenderStep
<1>3. ASSUME active_fds'["s"], ~ to_skip_insert_cache'["s"],
             NEW j \in 1 .. Len(send_req'.packaged), PastInsert(j)'
      PROVE  cache'[HostOf["s"]][send_req'.packaged[j]] # Absent
  <2>1. stage'["s"] \in Announced BY <1>1, <1>2, <1>3 DEF PastInsert, CacheSame, Announced
  <2>2. PastInsert(j) BY <2>1 DEF PastInsert, Announced
  <2> QED BY <1>1, <1>2, <1>3, <2>1, <2>2 DEF AnnouncedInv, CacheSame
<1> QED BY <1>1, <1>3 DEF AnnouncedInv

(* The sender stays with its message and goes on to another stage. *)
LEMMA SenderTurn ==
  ASSUME TransferInv, SenderStep,
         stage["s"] # "SEND_COMPLETE", stage'["s"] # "SEND_COMPLETE",
         stage["s"] = "RECV_MISSING_FINGERPRINT_HEADER" => R <= S,
         stage["s"] = "SEND_MISSING_CONTENT" => stage'["s"] = "SEND_MISSING_CONTENT"
  PROVE  TurnInv' /\ \A k : SenderDone(k)' = SenderDone(k)
<1>1. TurnInv /\ S' = S /\ R' = R /\ ContentRecvd' = ContentRecvd /\ sent' = sent
  BY SenderBase DEF SenderStep
<1>2. \A k : SenderDone(k)' = SenderDone(k) BY <1>1 DEF SenderDone
<1>3. /\ active_fds'["r"] = active_fds["r"] /\ stage'["r"] = stage["r"] /\ recv_req' = recv_req
  BY DEF SenderStep, RecvSame
<1>4. R \in Nat /\ S \in Nat BY SenderBase
<1> QED BY <1>1, <1>2, <1>3, <1>4 DEF TurnInv, At

(* The content under way does not change. *)
LEMMA SenderAhead ==
  ASSUME TransferInv, SenderStep,
         stage["s"] # "SEND_MISSING_CONTENT", stage'["s"] # "SEND_MISSING_CONTENT",
         \A k : k = R /\ At("r", "RECV_MISSING_CONTENT") => SenderDone(k)' = SenderDone(k)
  PROVE  ContentAhead' = ContentAhead
<1>1. Missing' = Missing /\ ContentRecvd' = ContentRecvd /\ R' = R BY SenderBase
<1>2. At("r", "RECV_MISSING_CONTENT")' = At("r", "RECV_MISSING_CONTENT")
  BY DEF At, SenderStep, RecvSame
<1>3. At("r", "RECV_MISSING_CONTENT") => ContentSent' = ContentSent
  <2>1. SenderDone(R)' = (R' < S' \/ (R' = S' /\ stage'["s"] = "SEND_COMPLETE"))
    BY DEF SenderDone
  <2>2. At("r", "RECV_MISSING_CONTENT") => SenderDone(R)' = SenderDone(R)
    BY <1>1, <2>1 DEF SenderDone
  <2> QED BY <1>1, <2>2 DEF ContentSent
<1> QED BY <1>1, <1>2, <1>3 DEF ContentAhead

(* The sender puts n tokens of the stream on the wire. *)
LEMMA SenderPush ==
  ASSUME TransferInv, SenderStep, ContentAhead' = ContentAhead,
         NEW n \in Nat, Grows(fwd, n, fwd'),
         SPos' = StartOf(S) + SendAt', SendAt' = SendAt + n, SendAt' <= MsgLen(sent[S]),
         HoldsStream(fwd', Len(fwd), n, sent[S], SendAt)
  PROVE  FwdInv'
<1>1. /\ Missing' = Missing /\ ContentRecvd' = ContentRecvd /\ RPos' = RPos /\ S' = S
      /\ S \in Nat \ {0} /\ sent[S] \in Messages /\ sent' = sent
  BY SenderBase DEF SenderStep
<1>2. /\ IsSeq(fwd) /\ sent \in Seq(Messages)
      /\ FwdOK(fwd, ContentAhead, Missing, ContentRecvd, sent, RPos, SPos)
      /\ ContentAhead \in Nat /\ RPos \in Nat /\ SPos \in Nat
  BY FwdFacts
<1>3. SendAt \in Nat /\ SPos = StartOf(S) + SendAt BY SenderBase, SendPosition DEF SenderStep
<1>4. PICK start \in Nat : Is(start, StartAt(sent, S))
  <2>1. S \in 1 .. S + 1 BY <1>1
  <2> QED BY <2>1, SenderBase, Counts DEF Is, StartOf
<1>5. PICK len \in Nat : Is(len, MsgLen(sent[S])) BY <1>1, MsgFacts DEF Is
<1>6. SendAt + n <= len BY <1>5 DEF Is
<1>7. SPos = start + SendAt BY <1>3, <1>4 DEF Is, StartOf
<1>8. Is(S, Len(sent)) /\ S > 0 BY <1>1 DEF Is, S
<1>9. SPos' = SPos + n BY <1>3, <1>4 DEF Is, StartOf
<1>10. FwdOK(fwd', ContentAhead, Missing, ContentRecvd, sent, RPos, SPos + n)
  BY <1>1, <1>2, <1>3, <1>4, <1>5, <1>6, <1>7, <1>8, StreamPush
<1> QED BY <1>1, <1>9, <1>10 DEF FwdInv, FwdOK

(* process_send_header: the first token of a message.                      *)
LEMMA SendHeaderKeeps ==
  ASSUME TransferInv, SendHeader
  PROVE  TransferInv'
<1> DEFINE size == Size(send_req.chunks)
           header == [is_fingerprint |-> size > Threshold, content_size |-> size]
           next == IF header.is_fingerprint THEN "COMPUTE_FINGERPRINTS" ELSE "SEND_REG_DATA"
<1>1. /\ active_fds["s"] /\ stage["s"] = "SEND_HEADER" /\ Len(fwd) < SockBuf
      /\ fwd' = fwd \o Tokens("header", <<header>>)
      /\ stage' = [stage EXCEPT !["s"] = next]
      /\ sent' = sent /\ delivered' = delivered /\ rev' = rev /\ CacheSame /\ torn' = torn
      /\ active_fds' = active_fds /\ i' = i /\ send_req' = send_req /\ recv_req' = recv_req
  BY DEF SendHeader, At, Goto, cacheVars, CacheSame
<1>2. TypeOK BY DEF TransferInv
<1>3. stage'["s"] = next /\ stage'["r"] = stage["r"] BY <1>1, <1>2 DEF TypeOK, Ends
<1>4. SenderStep BY <1>1, <1>3 DEF SenderStep, RecvSame
<1>5. SendInv /\ RevInv /\ S \in Nat \ {0} /\ S' = S /\ sent[S] \in Messages BY <1>4, SenderBase
<1>6. /\ send_req.chunks = ChunksOf[sent[S]] /\ header = HeaderOf(sent[S]) /\ send_req.offset = 0
      /\ next = IF IsFingerprinted(sent[S]) THEN "COMPUTE_FINGERPRINTS" ELSE "SEND_REG_DATA"
  BY <1>1, <1>5 DEF SendInv, HeaderOf, IsFingerprinted
<1>7. next \in {"COMPUTE_FINGERPRINTS", "SEND_REG_DATA"} OBVIOUS
<1> HIDE DEF header, next
<1>8. /\ IsSocket(fwd') /\ Grows(fwd, 1, fwd')
      /\ fwd'[Len(fwd) + 1] = [type |-> "header", val |-> header]
  <2>1. IsSocket(fwd) BY <1>2 DEF TypeOK
  <2>2. Puts(fwd, "header", header, fwd') BY <1>1 DEF Puts
  <2> QED BY <2>1, <2>2, PutEffect
<1>9. TypeOK'
  <2>1. stage' \in [Ends -> SendStages \cup RecvStages] /\ stage'["s"] \in SendStages
    BY <1>1, <1>2, <1>3, <1>7 DEF TypeOK, SendStages, Ends
  <2> QED BY <1>1, <1>2, <1>3, <1>8, <2>1 DEF TypeOK, CacheSame
<1>10. TurnInv' /\ \A k : SenderDone(k)' = SenderDone(k)
  BY <1>1, <1>3, <1>4, <1>7, SenderTurn
<1>11. FwdInv'
  <2>1. ContentAhead' = ContentAhead
    BY <1>1, <1>3, <1>4, <1>7, <1>10, SenderAhead
  <2>2. SendAt = 0 /\ SendAt' = 1
    BY <1>1, <1>3, <1>6, <1>7 DEF SendAt
  <2>3. SPos' = StartOf(S) + SendAt' BY <1>1, <1>5 DEF SPos, StartOf
  <2>4. MsgLen(sent[S]) \in Nat \ {0} BY <1>5, MsgFacts
  <2>5. HoldsStream(fwd', Len(fwd), 1, sent[S], SendAt)
    <3>1. MsgToken(sent[S], 0 + 1) = [type |-> "header", val |-> header] BY <1>5, <1>6, TokenFacts
    <3> QED BY <1>8, <2>2, <3>1 DEF HoldsStream
  <2> QED BY <1>4, <1>8, <2>1, <2>2, <2>3, <2>4, <2>5, SenderPush
<1>12. RevInv' BY <1>1, <1>3, <1>5, <1>7 DEF RevInv
<1>13. SendInv'
  <2>1. stage'["s"] = "SEND_REG_DATA" => ~ IsFingerprinted(sent[S]) BY <1>3, <1>6
  <2>2. stage'["s"] = "COMPUTE_FINGERPRINTS" => IsFingerprinted(sent[S]) BY <1>3, <1>6
  <2>3. Size(ChunksOf[sent[S]]) \in Nat BY <1>5, MsgFacts
  <2> QED BY <1>1, <1>3, <1>5, <1>6, <1>7, <2>1, <2>2, <2>3 DEF SendInv, SendFpStages
<1>14. AnnouncedInv'
  BY <1>3, <1>4, <1>7, SenderAnnounced DEF Announced, SendFpStages
<1> QED BY <1>4, <1>9, <1>10, <1>11, <1>12, <1>13, <1>14, SenderBase DEF TransferInv

(* The sender is done with a message that is not fingerprinted. *)
LEMMA PlainTurn ==
  ASSUME TransferInv, SenderStep, stage["s"] = "SEND_REG_DATA", stage'["s"] = "SEND_COMPLETE"
  PROVE  TurnInv' /\ ContentAhead' = ContentAhead
<1>1. /\ TurnInv /\ SendInv /\ RecvInv /\ S' = S /\ R' = R /\ sent' = sent /\ S \in Nat \ {0}
      /\ R \in Nat \ {0}
  BY SenderBase DEF SenderStep
<1>2. ~ IsFingerprinted(sent[S]) BY <1>1 DEF SendInv
<1>3. \A k : k # S => SenderDone(k)' = SenderDone(k) BY <1>1 DEF SenderDone
<1>4. SenderDone(S)' BY <1>1 DEF SenderDone
<1>5. /\ active_fds'["r"] = active_fds["r"] /\ stage'["r"] = stage["r"] /\ recv_req' = recv_req
  BY DEF SenderStep, RecvSame
<1>6. TurnInv' BY <1>1, <1>2, <1>3, <1>4, <1>5 DEF TurnInv
<1>7. At("r", "RECV_MISSING_CONTENT") => R # S
  BY <1>1, <1>2 DEF RecvInv, At, RecvFpStages, RecvStages
<1> QED BY <1>3, <1>6, <1>7, SenderAhead

(* process_send_reg_data of an empty message sends nothing.                *)
LEMMA SendRegDataEmptyKeeps ==
  ASSUME TransferInv, SendRegDataEmpty
  PROVE  TransferInv'
<1>1. /\ active_fds["s"] /\ stage["s"] = "SEND_REG_DATA"
      /\ send_req.offset = Size(send_req.chunks)
      /\ stage' = [stage EXCEPT !["s"] = "SEND_COMPLETE"]
      /\ sent' = sent /\ delivered' = delivered /\ fwd' = fwd /\ rev' = rev /\ CacheSame /\ torn' = torn
      /\ active_fds' = active_fds /\ i' = i /\ send_req' = send_req /\ recv_req' = recv_req
  BY DEF SendRegDataEmpty, At, Goto, cacheVars, netVars, CacheSame
<1>2. TypeOK BY DEF TransferInv
<1>3. stage'["s"] = "SEND_COMPLETE" /\ stage'["r"] = stage["r"] BY <1>1, <1>2 DEF TypeOK, Ends
<1>4. SenderStep BY <1>1, <1>3 DEF SenderStep, RecvSame
<1>5. /\ SendInv /\ RevInv /\ S \in Nat \ {0} /\ S' = S /\ sent[S] \in Messages
      /\ RPos' = RPos /\ Missing' = Missing /\ ContentRecvd' = ContentRecvd
  BY <1>4, SenderBase
<1>6. TypeOK'
  <2>1. stage' \in [Ends -> SendStages \cup RecvStages] /\ stage'["s"] \in SendStages
    BY <1>1, <1>2, <1>3 DEF TypeOK, SendStages, Ends
  <2> QED BY <1>1, <1>2, <1>3, <2>1 DEF TypeOK, CacheSame
<1>7. TurnInv' /\ ContentAhead' = ContentAhead BY <1>1, <1>3, <1>4, PlainTurn
<1>8. FwdInv'
  <2>1. ~ IsFingerprinted(sent[S]) /\ send_req.chunks = ChunksOf[sent[S]] BY <1>1, <1>5 DEF SendInv
  <2>2. SendAt = 1 + Size(ChunksOf[sent[S]]) BY <1>1, <2>1 DEF SendAt
  <2>3. SendAt' = MsgLen(sent[S]) BY <1>1, <1>3, <1>5 DEF SendAt
  <2>4. SendAt' = SendAt BY <1>5, <2>1, <2>2, <2>3, MsgFacts
  <2>5. SPos' = SPos BY <1>1, <1>5, <2>4 DEF SPos, StartOf
  <2> QED BY <1>1, <1>5, <1>7, <2>5, FwdStay
<1>9. RevInv' BY <1>1, <1>3, <1>5 DEF RevInv
<1>10. SendInv' BY <1>1, <1>3, <1>5 DEF SendInv, SendFpStages
<1>11. AnnouncedInv' BY <1>3, <1>4, SenderAnnounced DEF Announced, SendFpStages
<1> QED BY <1>4, <1>6, <1>7, <1>8, <1>9, <1>10, <1>11, SenderBase DEF TransferInv

(* n values more of the request are sent. *)
Advances(req, n, req2) == req2 = [req EXCEPT !.offset = @ + n]

(* A piece of something was sent: only the offset of the request moves.    *)
LEMMA AdvanceEffect ==
  ASSUME NEW req \in SendReqs, NEW n \in Nat, NEW req2, Advances(req, n, req2)
  PROVE  /\ req2 \in SendReqs /\ req2.offset = req.offset + n
         /\ req2.chunks = req.chunks /\ req2.packaged = req.packaged
         /\ req2.num_missing = req.num_missing /\ req2.missing = req.missing
         /\ req2.reply_ind = req.reply_ind /\ req2.reply_offset = req.reply_offset
<1>1. req2 = [req EXCEPT !.offset = req.offset + n] BY DEF Advances
<1>2. req.offset + n \in Nat BY DEF SendReqs
<1>3. req2 \in SendReqs BY <1>1, <1>2 DEF SendReqs
<1> QED BY <1>1, <1>3 DEF SendReqs

(* process_send_reg_data: n of the bytes that are left.                    *)
LEMMA SendRegDataKeeps ==
  ASSUME TransferInv, SendRegData
  PROVE  TransferInv'
<1> DEFINE left == Rest(Data(send_req.chunks), send_req.offset)
<1>1. PICK n \in 1 .. SockBuf :
        /\ active_fds["s"] /\ stage["s"] = "SEND_REG_DATA"
        /\ CanSend(fwd, left, n)
        /\ fwd' = fwd \o Tokens("data", SubSeq(left, 1, n))
        /\ send_req' = [send_req EXCEPT !.offset = @ + n]
        /\ stage' = IF n < Len(left) THEN stage ELSE [stage EXCEPT !["s"] = "SEND_COMPLETE"]
        /\ sent' = sent /\ delivered' = delivered /\ rev' = rev /\ CacheSame /\ torn' = torn
        /\ active_fds' = active_fds /\ i' = i /\ recv_req' = recv_req
  BY DEF SendRegData, At, Goto, cacheVars, CacheSame
<1>2. TypeOK BY DEF TransferInv
<1>3. /\ stage'["s"] = IF n < Len(left) THEN "SEND_REG_DATA" ELSE "SEND_COMPLETE"
      /\ stage'["r"] = stage["r"]
  BY <1>1, <1>2 DEF TypeOK, Ends
<1>4. SenderStep BY <1>1, <1>3 DEF SenderStep, RecvSame
<1>5. SendInv /\ RevInv /\ S \in Nat \ {0} /\ S' = S /\ sent[S] \in Messages BY <1>4, SenderBase
<1>6. /\ send_req.chunks = ChunksOf[sent[S]] /\ ~ IsFingerprinted(sent[S])
      /\ send_req.offset <= Size(ChunksOf[sent[S]])
  BY <1>1, <1>5 DEF SendInv
<1>7. /\ ChunksOf[sent[S]] \in Seq(Fingerprints) /\ Size(ChunksOf[sent[S]]) \in Nat
      /\ MsgLen(sent[S]) = 1 + Size(ChunksOf[sent[S]])
  BY <1>5, <1>6, MsgFacts
<1>8. send_req.offset \in Nat BY <1>2 DEF TypeOK, SendReqs
<1>9. /\ IsSeq(left) /\ Len(left) = Size(ChunksOf[sent[S]]) - send_req.offset
      /\ \A k \in 1 .. Len(left) : left[k] = Data(ChunksOf[sent[S]])[send_req.offset + k]
  <2>1. IsSeq(Data(send_req.chunks)) /\ Len(Data(send_req.chunks)) = Size(ChunksOf[sent[S]])
    BY <1>6, <1>7, DataSeq
  <2>2. send_req.offset \in 0 .. Len(Data(send_req.chunks)) BY <1>6, <1>7, <1>8, <2>1
  <2>3. /\ IsSeq(left) /\ Len(left) = Len(Data(send_req.chunks)) - send_req.offset
        /\ \A k \in 1 .. Len(Data(send_req.chunks)) - send_req.offset :
             left[k] = Data(send_req.chunks)[send_req.offset + k]
    BY <2>1, <2>2, RestSeq
  <2> HIDE DEF left
  <2> QED BY <1>6, <2>1, <2>3
<1> HIDE DEF left
<1>10. /\ n \in Nat \ {0} /\ n <= Len(left) /\ IsSocket(fwd') /\ Grows(fwd, n, fwd')
       /\ \A k \in 1 .. n : fwd'[Len(fwd) + k] = [type |-> "data", val |-> left[k]]
  <2>1. IsSocket(fwd) BY <1>2 DEF TypeOK
  <2>2. Sends(fwd, "data", left, n, fwd') BY <1>1 DEF Sends
  <2>3. IsSeq(left) BY <1>9
  <2>4. SentTo(fwd, "data", left, n, fwd') BY <2>1, <2>2, <2>3, SendEffect, Zenon
  <2> QED BY <2>4, Zenon DEF SentTo
<1>11. /\ send_req'.offset = send_req.offset + n /\ send_req' \in SendReqs
       /\ send_req'.chunks = send_req.chunks
  <2>1. Advances(send_req, n, send_req') BY <1>1 DEF Advances
  <2>2. send_req \in SendReqs /\ n \in Nat BY <1>2, <1>10 DEF TypeOK
  <2> QED BY <2>1, <2>2, AdvanceEffect
<1>12. TypeOK'
  <2>1. stage' \in [Ends -> SendStages \cup RecvStages] /\ stage'["s"] \in SendStages
    BY <1>1, <1>2, <1>3 DEF TypeOK, SendStages, Ends
  <2> QED BY <1>1, <1>2, <1>3, <1>10, <1>11, <2>1 DEF TypeOK, CacheSame
<1>13. TurnInv' /\ ContentAhead' = ContentAhead
  <2>1. CASE n < Len(left)
    <3>1. stage'["s"] = "SEND_REG_DATA" BY <1>3, <2>1
    <3>2. TurnInv' /\ \A k : SenderDone(k)' = SenderDone(k) BY <1>1, <1>4, <3>1, SenderTurn
    <3> QED BY <1>1, <1>4, <3>1, <3>2, SenderAhead
  <2>2. CASE ~ (n < Len(left))
    <3>1. stage'["s"] = "SEND_COMPLETE" BY <1>3, <2>2
    <3> QED BY <1>1, <1>4, <3>1, PlainTurn
  <2> QED BY <2>1, <2>2
<1>14. FwdInv'
  <2>1. SendAt = 1 + send_req.offset BY <1>1 DEF SendAt
  <2>2. SendAt' = SendAt + n
    <3>1. CASE n < Len(left)
      <4>1. SendAt' = 1 + send_req'.offset BY <1>3, <3>1 DEF SendAt
      <4> QED BY <1>8, <1>11, <2>1, <4>1
    <3>2. CASE ~ (n < Len(left))
      <4>1. SendAt' = MsgLen(sent[S]) BY <1>1, <1>3, <1>5, <3>2 DEF SendAt
      <4> QED BY <1>7, <1>8, <1>9, <1>10, <2>1, <3>2, <4>1
    <3> QED BY <3>1, <3>2
  <2>3. SendAt' <= MsgLen(sent[S]) BY <1>7, <1>8, <1>9, <1>10, <2>1, <2>2
  <2>4. SPos' = StartOf(S) + SendAt' BY <1>1, <1>5 DEF SPos, StartOf
  <2>5. HoldsStream(fwd', Len(fwd), n, sent[S], SendAt)
    <3> SUFFICES ASSUME NEW k \in 1 .. n
                 PROVE  fwd'[Len(fwd) + k] = MsgToken(sent[S], SendAt + k)
      BY DEF HoldsStream
    <3>1. send_req.offset + k \in 1 .. Size(ChunksOf[sent[S]]) /\ k \in 1 .. Len(left)
      BY <1>7, <1>8, <1>9, <1>10
    <3>2. SendAt + k = 1 + (send_req.offset + k) BY <1>8, <2>1
    <3>3. MsgToken(sent[S], 1 + (send_req.offset + k))
            = [type |-> "data", val |-> Data(ChunksOf[sent[S]])[send_req.offset + k]]
      BY <1>5, <1>6, <3>1, TokenFacts
    <3> QED BY <1>9, <1>10, <3>1, <3>2, <3>3
  <2> QED BY <1>4, <1>10, <1>13, <2>2, <2>3, <2>4, <2>5, SenderPush
<1>15. RevInv' BY <1>1, <1>3, <1>5 DEF RevInv
<1>16. SendInv'
  <2>1. send_req'.offset <= Size(ChunksOf[sent[S]]) BY <1>7, <1>8, <1>9, <1>10, <1>11
  <2> QED BY <1>1, <1>3, <1>5, <1>6, <1>11, <2>1 DEF SendInv, SendFpStages
<1>17. AnnouncedInv' BY <1>3, <1>4, SenderAnnounced DEF Announced, SendFpStages
<1> QED BY <1>4, <1>12, <1>13, <1>14, <1>15, <1>16, <1>17, SenderBase DEF TransferInv

(* A step of the sender keeps the types.                                   *)
LEMMA SenderType ==
  ASSUME TypeOK, SenderStep, active_fds' = active_fds, stage'["s"] \in SendStages,
         stage' = stage \/ \E st : stage' = [stage EXCEPT !["s"] = st],
         IsSocket(fwd'), IsSocket(rev'), send_req' \in SendReqs
  PROVE  TypeOK'
<1>1. stage \in [Ends -> SendStages \cup RecvStages] /\ stage["r"] \in RecvStages BY DEF TypeOK
<1>2. stage' \in [Ends -> SendStages \cup RecvStages] /\ stage'["r"] \in RecvStages
  <2>1. CASE stage' = stage BY <1>1, <2>1
  <2>2. ASSUME NEW st, stage' = [stage EXCEPT !["s"] = st]
        PROVE  stage' \in [Ends -> SendStages \cup RecvStages] /\ stage'["r"] \in RecvStages
    <3>1. stage'["s"] = st /\ stage'["r"] = stage["r"] BY <1>1, <2>2 DEF Ends
    <3> QED BY <1>1, <2>2, <3>1
  <2> QED BY <2>1, <2>2
<1> QED BY <1>2 DEF TypeOK, SenderStep, RecvSame, CacheSame

(* The receiver has not read what the sender has not sent. *)
LEMMA ReceiverBehind ==
  ASSUME TransferInv, active_fds["s"], SendAt < MsgLen(sent[S])
  PROVE  /\ R <= S
         /\ R = S /\ active_fds["r"] =>
              stage["r"] \in {"RECV_HEADER", "RECV_REG_DATA", "RECV_FINGERPRINT_HEADER",
                              "RECV_PACKAGED_FINGERPRINTS"}
<1>1. TypeOK /\ DeliveredAsSent /\ SendInv /\ RecvInv BY DEF TransferInv
<1>2. /\ S > 0 /\ S \in Nat /\ R \in Nat \ {0} /\ R <= S + 1
      /\ StartOf(S + 1) = StartOf(S) + MsgLen(sent[S])
      /\ StartOf(S) \in Nat /\ MsgLen(sent[S]) \in Nat
  <2>1. S > 0 /\ S \in Nat /\ R \in Nat \ {0} /\ R <= S + 1 BY <1>1, SendPosition, Counts
  <2>2. S \in 1 .. S /\ S \in 1 .. S + 1 BY <2>1
  <2> QED BY <1>1, <2>1, <2>2, Counts
<1>3. SendAt \in Nat /\ SPos = StartOf(S) + SendAt BY <1>1, SendPosition
<1>4. RPos <= SPos /\ RPos \in Nat BY FwdFacts
<1>5. RPos < StartOf(S + 1) BY <1>2, <1>3, <1>4
<1>6. R <= S
  <2> SUFFICES ASSUME R = S + 1 PROVE FALSE BY <1>2
  <2>1. ~ (active_fds["r"] /\ stage["r"] # "RECV_HEADER") BY <1>1, <1>2 DEF RecvInv
  <2>2. RPos = StartOf(S + 1) BY <1>1, <2>1, RecvPosition
  <2> QED BY <1>4, <1>5, <2>2
<1>7. ASSUME R = S, active_fds["r"]
      PROVE  stage["r"] \in {"RECV_HEADER", "RECV_REG_DATA", "RECV_FINGERPRINT_HEADER",
                             "RECV_PACKAGED_FINGERPRINTS"}
  <2> SUFFICES ASSUME stage["r"] \notin {"RECV_HEADER", "RECV_REG_DATA", "RECV_FINGERPRINT_HEADER",
                                         "RECV_PACKAGED_FINGERPRINTS"}
               PROVE  FALSE
    OBVIOUS
  <2>1. RecvAt = MsgLen(sent[S]) BY <1>7 DEF RecvAt
  <2>2. RPos = StartOf(S) + RecvAt BY <1>7 DEF RPos
  <2> QED BY <1>2, <1>5, <2>1, <2>2
<1> QED BY <1>6, <1>7

(* What process_compute_fingerprints makes of the request. *)
Packages(req, req2) ==
  req2 = [req EXCEPT !.packaged = req.chunks, !.offset = 0, !.num_missing = 0,
                     !.missing = <<>>, !.reply_ind = 1, !.reply_offset = 0]

(* The request after its fingerprints are computed.                        *)
LEMMA PackageEffect ==
  ASSUME NEW req \in SendReqs, NEW req2, Packages(req, req2)
  PROVE  /\ req2 \in SendReqs /\ req2.chunks = req.chunks /\ req2.packaged = req.chunks
         /\ req2.offset = 0 /\ req2.missing = <<>> /\ req2.reply_ind = 1 /\ req2.reply_offset = 0
<1>1. <<>> \in Seq(Nat) BY EmptySeq
<1>2. req.chunks \in Seq(Fingerprints) BY DEF SendReqs
<1>3. req2 \in SendReqs BY <1>1, <1>2 DEF SendReqs, Packages
<1> QED BY <1>3 DEF SendReqs, Packages

(* process_compute_fingerprints moves nothing.                             *)
LEMMA ComputeFingerprintsKeeps ==
  ASSUME TransferInv, ComputeFingerprints
  PROVE  TransferInv'
<1>1. /\ active_fds["s"] /\ stage["s"] = "COMPUTE_FINGERPRINTS"
      /\ Packages(send_req, send_req')
      /\ stage' = [stage EXCEPT !["s"] = "INSERT_OUTBOUND_FINGERPRINTS"]
      /\ sent' = sent /\ delivered' = delivered /\ fwd' = fwd /\ rev' = rev /\ CacheSame /\ torn' = torn
      /\ active_fds' = active_fds /\ i' = i /\ recv_req' = recv_req
  BY DEF ComputeFingerprints, At, Goto, cacheVars, netVars, CacheSame, Packages
<1>2. TypeOK BY DEF TransferInv
<1>3. stage'["s"] = "INSERT_OUTBOUND_FINGERPRINTS" /\ stage'["r"] = stage["r"]
  BY <1>1, <1>2 DEF TypeOK, Ends
<1>4. SenderStep BY <1>1, <1>3 DEF SenderStep, RecvSame
<1>5. /\ SendInv /\ RevInv /\ S \in Nat \ {0} /\ S' = S /\ sent[S] \in Messages
      /\ RPos' = RPos /\ Missing' = Missing /\ ContentRecvd' = ContentRecvd
  BY <1>4, SenderBase
<1>6. /\ send_req' \in SendReqs /\ send_req'.chunks = send_req.chunks
      /\ send_req'.packaged = send_req.chunks /\ send_req'.offset = 0
      /\ send_req'.missing = <<>> /\ send_req'.reply_ind = 1 /\ send_req'.reply_offset = 0
  <2>1. send_req \in SendReqs /\ Packages(send_req, send_req') BY <1>1, <1>2 DEF TypeOK
  <2> QED BY <2>1, PackageEffect
<1>7. TypeOK'
  <2>1. IsSocket(fwd') /\ IsSocket(rev') BY <1>1, <1>2 DEF TypeOK
  <2>2. stage'["s"] \in SendStages BY <1>3 DEF SendStages
  <2> QED BY <1>1, <1>2, <1>4, <1>6, <2>1, <2>2, SenderType
<1>8. TurnInv' /\ \A k : SenderDone(k)' = SenderDone(k) BY <1>1, <1>3, <1>4, SenderTurn
<1>9. FwdInv'
  <2>1. ContentAhead' = ContentAhead BY <1>1, <1>3, <1>4, <1>8, SenderAhead
  <2>2. SendAt = 1 /\ SendAt' = 1 BY <1>1, <1>3 DEF SendAt
  <2>3. SPos' = SPos BY <1>1, <1>5, <2>2 DEF SPos, StartOf
  <2> QED BY <1>1, <1>5, <2>1, <2>3, FwdStay
<1>10. RevInv' BY <1>1, <1>3, <1>5 DEF RevInv
<1>11. SendInv'
  <2>1. send_req.chunks = ChunksOf[sent[S]] /\ IsFingerprinted(sent[S])
    BY <1>1, <1>5 DEF SendInv, SendFpStages, SendStages
  <2> QED BY <1>1, <1>3, <1>5, <1>6, <2>1 DEF SendInv, SendFpStages
<1>12. AnnouncedInv' BY <1>3, <1>4, SenderAnnounced DEF Announced
<1> QED BY <1>4, <1>7, <1>8, <1>9, <1>10, <1>11, <1>12, SenderBase DEF TransferInv

(* process_send_fingerprint_header: how many fingerprints follow.          *)
LEMMA SendFingerprintHeaderKeeps ==
  ASSUME TransferInv, SendFingerprintHeader
  PROVE  TransferInv'
<1>1. /\ active_fds["s"] /\ stage["s"] = "SEND_FINGERPRINT_HEADER"
      /\ Puts(fwd, "fingerprint_header", Len(send_req.packaged), fwd')
      /\ stage' = [stage EXCEPT !["s"] = "SEND_PACKAGED_FINGERPRINTS"]
      /\ sent' = sent /\ delivered' = delivered /\ rev' = rev /\ CacheSame /\ torn' = torn
      /\ active_fds' = active_fds /\ i' = i /\ send_req' = send_req /\ recv_req' = recv_req
  BY DEF SendFingerprintHeader, At, Goto, cacheVars, CacheSame, Puts
<1>2. TypeOK BY DEF TransferInv
<1>3. stage'["s"] = "SEND_PACKAGED_FINGERPRINTS" /\ stage'["r"] = stage["r"]
  BY <1>1, <1>2 DEF TypeOK, Ends
<1>4. SenderStep BY <1>1, <1>3 DEF SenderStep, RecvSame
<1>5. SendInv /\ RevInv /\ S \in Nat \ {0} /\ S' = S /\ sent[S] \in Messages BY <1>4, SenderBase
<1>6. /\ IsFingerprinted(sent[S]) /\ send_req.offset = 0
      /\ send_req.chunks = ChunksOf[sent[S]] /\ send_req.packaged = ChunksOf[sent[S]]
      /\ send_req.reply_ind = 1 /\ send_req.reply_offset = 0 /\ send_req.missing = <<>>
  BY <1>1, <1>5 DEF SendInv, SendFpStages, SendStages
<1>7. Len(ChunksOf[sent[S]]) \in Nat \ {0} /\ MsgLen(sent[S]) = 2 + Len(ChunksOf[sent[S]])
  BY <1>5, <1>6, MsgFacts
<1>8. /\ IsSocket(fwd') /\ Grows(fwd, 1, fwd')
      /\ fwd'[Len(fwd) + 1]
           = [type |-> "fingerprint_header", val |-> Len(send_req.packaged)]
  <2>1. IsSocket(fwd) BY <1>2 DEF TypeOK
  <2>2. Puts(fwd, "fingerprint_header", Len(send_req.packaged), fwd') BY <1>1
  <2> QED BY <2>1, <2>2, PutEffect
<1>9. TypeOK'
  <2>1. IsSocket(rev') /\ send_req' \in SendReqs BY <1>1, <1>2 DEF TypeOK
  <2>2. stage'["s"] \in SendStages BY <1>3 DEF SendStages
  <2> QED BY <1>1, <1>2, <1>4, <1>8, <2>1, <2>2, SenderType
<1>10. TurnInv' /\ \A k : SenderDone(k)' = SenderDone(k) BY <1>1, <1>3, <1>4, SenderTurn
<1>11. FwdInv'
  <2>1. ContentAhead' = ContentAhead BY <1>1, <1>3, <1>4, <1>10, SenderAhead
  <2>2. SendAt = 1 /\ SendAt' = 2 BY <1>1, <1>3, <1>6 DEF SendAt
  <2>3. SPos' = StartOf(S) + SendAt' BY <1>1, <1>5 DEF SPos, StartOf
  <2>4. HoldsStream(fwd', Len(fwd), 1, sent[S], SendAt)
    <3>1. MsgToken(sent[S], 1 + 1) = [type |-> "fingerprint_header", val |-> Len(send_req.packaged)]
      BY <1>5, <1>6, TokenFacts
    <3> QED BY <1>8, <2>2, <3>1 DEF HoldsStream
  <2>5. SendAt' = SendAt + 1 /\ SendAt' <= MsgLen(sent[S]) BY <1>7, <2>2
  <2> QED BY <1>4, <1>8, <2>1, <2>3, <2>4, <2>5, SenderPush
<1>12. RevInv' BY <1>1, <1>3, <1>5 DEF RevInv
<1>13. SendInv' BY <1>1, <1>3, <1>5, <1>6, <1>7 DEF SendInv, SendFpStages
<1>14. AnnouncedInv' BY <1>1, <1>3, <1>4, SenderAnnounced DEF Announced, SendFpStages, SendStages
<1> QED BY <1>4, <1>9, <1>10, <1>11, <1>12, <1>13, <1>14, SenderBase DEF TransferInv

(* process_send_packaged_fingerprints: n of those that are left.           *)
LEMMA SendPackagedFingerprintsKeeps ==
  ASSUME TransferInv, SendPackagedFingerprints
  PROVE  TransferInv'
<1> DEFINE left == Rest(send_req.packaged, send_req.offset)
           last == "RECV_MISSING_FINGERPRINT_HEADER"
<1>1. PICK n \in 1 .. SockBuf :
        /\ active_fds["s"] /\ stage["s"] = "SEND_PACKAGED_FINGERPRINTS"
        /\ Sends(fwd, "fingerprint", left, n, fwd')
        /\ Advances(send_req, n, send_req')
        /\ stage' = IF n < Len(left) THEN stage ELSE [stage EXCEPT !["s"] = last]
        /\ sent' = sent /\ delivered' = delivered /\ rev' = rev /\ CacheSame /\ torn' = torn
        /\ active_fds' = active_fds /\ i' = i /\ recv_req' = recv_req
  BY DEF SendPackagedFingerprints, At, Goto, cacheVars, CacheSame, Sends, Advances
<1>2. TypeOK BY DEF TransferInv
<1>3. /\ stage'["s"] = IF n < Len(left) THEN "SEND_PACKAGED_FINGERPRINTS" ELSE last
      /\ stage'["r"] = stage["r"]
  BY <1>1, <1>2 DEF TypeOK, Ends
<1>4. SenderStep BY <1>1, <1>3 DEF SenderStep, RecvSame
<1>5. SendInv /\ RevInv /\ S \in Nat \ {0} /\ S' = S /\ R' = R /\ sent[S] \in Messages
  BY <1>4, SenderBase
<1>6. /\ IsFingerprinted(sent[S]) /\ send_req.offset < Len(ChunksOf[sent[S]])
      /\ send_req.chunks = ChunksOf[sent[S]] /\ send_req.packaged = ChunksOf[sent[S]]
      /\ send_req.reply_ind = 1 /\ send_req.reply_offset = 0 /\ send_req.missing = <<>>
  BY <1>1, <1>5 DEF SendInv, SendFpStages, SendStages
<1>7. /\ ChunksOf[sent[S]] \in Seq(Fingerprints) /\ Len(ChunksOf[sent[S]]) \in Nat
      /\ MsgLen(sent[S]) = 2 + Len(ChunksOf[sent[S]])
  BY <1>5, <1>6, MsgFacts
<1>8. send_req.offset \in Nat BY <1>2 DEF TypeOK, SendReqs
<1>9. /\ IsSeq(left) /\ Len(left) = Len(ChunksOf[sent[S]]) - send_req.offset
      /\ \A k \in 1 .. Len(left) : left[k] = ChunksOf[sent[S]][send_req.offset + k]
  <2>1. IsSeq(send_req.packaged) BY <1>6, <1>7, SeqIsSeq
  <2>2. send_req.offset \in 0 .. Len(send_req.packaged) BY <1>6, <1>7, <1>8
  <2>3. /\ IsSeq(left) /\ Len(left) = Len(send_req.packaged) - send_req.offset
        /\ \A k \in 1 .. Len(send_req.packaged) - send_req.offset :
             left[k] = send_req.packaged[send_req.offset + k]
    BY <2>1, <2>2, RestSeq
  <2> HIDE DEF left
  <2> QED BY <1>6, <2>3
<1> HIDE DEF left
<1>10. /\ n \in Nat \ {0} /\ n <= Len(left) /\ IsSocket(fwd') /\ Grows(fwd, n, fwd')
       /\ \A k \in 1 .. n : fwd'[Len(fwd) + k] = [type |-> "fingerprint", val |-> left[k]]
  <2>1. IsSocket(fwd) BY <1>2 DEF TypeOK
  <2>2. Sends(fwd, "fingerprint", left, n, fwd') BY <1>1
  <2>3. IsSeq(left) BY <1>9
  <2>4. SentTo(fwd, "fingerprint", left, n, fwd') BY <2>1, <2>2, <2>3, SendEffect, Zenon
  <2> QED BY <2>4, Zenon DEF SentTo
<1>11. /\ send_req'.offset = send_req.offset + n /\ send_req' \in SendReqs
       /\ send_req'.chunks = send_req.chunks /\ send_req'.packaged = send_req.packaged
       /\ send_req'.reply_ind = 1 /\ send_req'.reply_offset = 0 /\ send_req'.missing = <<>>
  <2>1. Advances(send_req, n, send_req') BY <1>1
  <2>2. send_req \in SendReqs /\ n \in Nat BY <1>2, <1>10 DEF TypeOK
  <2>3. /\ send_req' \in SendReqs /\ send_req'.offset = send_req.offset + n
        /\ send_req'.chunks = send_req.chunks /\ send_req'.packaged = send_req.packaged
        /\ send_req'.missing = send_req.missing /\ send_req'.reply_ind = send_req.reply_ind
        /\ send_req'.reply_offset = send_req.reply_offset
    BY <2>1, <2>2, AdvanceEffect
  <2> QED BY <1>6, <2>3
<1>12. TypeOK'
  <2>1. IsSocket(rev') BY <1>1, <1>2 DEF TypeOK
  <2>2. stage'["s"] \in SendStages BY <1>3 DEF SendStages
  <2>3. stage' = stage \/ \E st : stage' = [stage EXCEPT !["s"] = st] BY <1>1
  <2> QED BY <1>1, <1>2, <1>4, <1>10, <1>11, <2>1, <2>2, <2>3, SenderType
<1>13. TurnInv' /\ \A k : SenderDone(k)' = SenderDone(k)
  BY <1>1, <1>3, <1>4, SenderTurn
<1>14. FwdInv'
  <2>0. ContentAhead' = ContentAhead BY <1>1, <1>3, <1>4, <1>13, SenderAhead
  <2>1. SendAt = 2 + send_req.offset BY <1>1 DEF SendAt
  <2>2. SendAt' = SendAt + n
    <3>1. CASE n < Len(left)
      <4>1. SendAt' = 2 + send_req'.offset BY <1>3, <3>1 DEF SendAt
      <4> QED BY <1>8, <1>11, <2>1, <4>1
    <3>2. CASE ~ (n < Len(left))
      <4>1. SendAt' = MsgLen(sent[S]) BY <1>1, <1>3, <1>5, <3>2 DEF SendAt
      <4>2. n = Len(left) BY <1>9, <1>10, <3>2, <1>7, <1>8
      <4>3. n = Len(ChunksOf[sent[S]]) - send_req.offset BY <1>9, <4>2
      <4>4. Len(ChunksOf[sent[S]]) \in Nat /\ MsgLen(sent[S]) = 2 + Len(ChunksOf[sent[S]]) BY <1>7
      <4> QED BY <1>8, <2>1, <4>1, <4>3, <4>4
    <3> QED BY <3>1, <3>2
  <2>3. SendAt' <= MsgLen(sent[S]) BY <1>7, <1>8, <1>9, <1>10, <2>1, <2>2
  <2>4. SPos' = StartOf(S) + SendAt' BY <1>1, <1>5 DEF SPos, StartOf
  <2>5. HoldsStream(fwd', Len(fwd), n, sent[S], SendAt)
    <3> SUFFICES ASSUME NEW k \in 1 .. n
                 PROVE  fwd'[Len(fwd) + k] = MsgToken(sent[S], SendAt + k)
      BY DEF HoldsStream
    <3>1. send_req.offset + k \in 1 .. Len(ChunksOf[sent[S]]) /\ k \in 1 .. Len(left)
      BY <1>7, <1>8, <1>9, <1>10, SMTT(30)
    <3>2. SendAt + k = 2 + (send_req.offset + k) BY <1>8, <2>1
    <3>3. MsgToken(sent[S], 2 + (send_req.offset + k))
            = [type |-> "fingerprint", val |-> ChunksOf[sent[S]][send_req.offset + k]]
      BY <1>5, <1>6, <3>1, TokenFacts
    <3> QED BY <1>9, <1>10, <3>1, <3>2, <3>3
  <2> QED BY <1>4, <1>10, <2>0, <2>2, <2>3, <2>4, <2>5, SenderPush
<1>15. RevInv'
  <2>1. rev' = <<>> BY <1>1, <1>5 DEF RevInv
  <2>2. SendAt < MsgLen(sent[S])
    <3>1. SendAt = 2 + send_req.offset BY <1>1 DEF SendAt
    <3> QED BY <1>6, <1>7, <1>8, <3>1
  <2>3. ~ (R = S /\ Asking) /\ ~ AskedNothing(S)
    <3>1. /\ R <= S
          /\ R = S /\ active_fds["r"] =>
               stage["r"] \in {"RECV_HEADER", "RECV_REG_DATA", "RECV_FINGERPRINT_HEADER",
                               "RECV_PACKAGED_FINGERPRINTS"}
      BY <1>1, <2>2, ReceiverBehind
    <3> QED BY <1>5, <3>1 DEF Asking, AskedNothing, At
  <2>4. ~ (R = S /\ Asking)' /\ ~ (R' = S' + 1)
        /\ ~ (R' = S' /\ At("r", "RECV_COMPLETE")' /\ recv_req'.num_missing = 0)
    BY <1>1, <1>3, <1>5, <2>3 DEF Asking, AskedNothing, At
  <2> QED BY <1>3, <2>1, <2>4 DEF RevInv, AskedNothing
<1>16. SendInv'
  <2>1. stage'["s"] = "SEND_PACKAGED_FINGERPRINTS" => send_req'.offset < Len(send_req'.packaged)
    BY <1>3, <1>6, <1>7, <1>8, <1>9, <1>10, <1>11
  <2> QED BY <1>1, <1>3, <1>5, <1>6, <1>11, <2>1 DEF SendInv, SendFpStages
<1>17. AnnouncedInv'
  BY <1>1, <1>3, <1>4, <1>11, SenderAnnounced DEF Announced, SendFpStages, SendStages
<1> QED BY <1>4, <1>12, <1>13, <1>14, <1>15, <1>16, <1>17, SenderBase DEF TransferInv

(* The number of missing chunks is noted.                                  *)
LEMMA SendFieldEffect ==
  ASSUME NEW req \in SendReqs, NEW req2, NEW v \in Nat,
         Is(req2, [req EXCEPT !.num_missing = v])
  PROVE  /\ req2 \in SendReqs /\ req2.num_missing = v
         /\ req2.offset = req.offset /\ req2.chunks = req.chunks /\ req2.packaged = req.packaged
         /\ req2.missing = req.missing
         /\ req2.reply_ind = req.reply_ind /\ req2.reply_offset = req.reply_offset
<1>1. req2 \in SendReqs BY DEF SendReqs, Is
<1> QED BY <1>1 DEF SendReqs, Is

(* Both ends are at the same message, and the receiver asks for something. *)
LEMMA AskingFacts ==
  ASSUME TransferInv, Asking
  PROVE  /\ active_fds["r"] /\ stage["r"] \in RecvKnown
         /\ recv_req.num_missing = Len(recv_req.missing)
         /\ recv_req.offset \in Nat /\ recv_req.missing \in Seq(Nat)
         /\ Len(recv_req.missing) \in Nat \ {0}
         /\ recv_req.offset <= Len(recv_req.missing)
         /\ At("r", "SEND_MISSING_FINGERPRINTS") <=> recv_req.offset < Len(recv_req.missing)
<1>1. TypeOK /\ RecvInv BY DEF TransferInv
<1>2. active_fds["r"] /\ stage["r"] \in RecvKnown
  BY DEF Asking, At, RecvKnown, RecvFpStages, RecvFirst, RecvStages
<1>3. ListInv /\ ProgressInv BY <1>1, <1>2 DEF RecvInv
<1>4. recv_req.offset \in Nat /\ recv_req.missing \in Seq(Nat) BY <1>1 DEF TypeOK, RecvReqs
<1>5. Len(recv_req.missing) \in Nat BY <1>4
<1> QED BY <1>2, <1>3, <1>4, <1>5 DEF ListInv, ProgressInv, Asking, At

(* Empty sequences. *)
LEMMA LenZero == ASSUME NEW s, IsSeq(s) PROVE s = <<>> <=> Len(s) = 0
BY DEF IsSeq

(* process_recv_missing_fingerprint_header: the sender learns how many     *)
(* chunks are missing, and is done when there are none.                    *)
LEMMA RecvMissingFingerprintHeaderKeeps ==
  ASSUME TransferInv, RecvMissingFingerprintHeader
  PROVE  TransferInv'
<1> DEFINE next == IF Head(rev).val = 0 THEN "SEND_COMPLETE" ELSE "RECV_MISSING_FINGERPRINTS"
<1>1. /\ active_fds["s"] /\ stage["s"] = "RECV_MISSING_FINGERPRINT_HEADER"
      /\ rev # <<>> /\ TakesOne(rev, rev')
      /\ Is(send_req', [send_req EXCEPT !.num_missing = Head(rev).val])
      /\ stage' = [stage EXCEPT !["s"] = next]
      /\ sent' = sent /\ delivered' = delivered /\ fwd' = fwd /\ CacheSame /\ torn' = torn
      /\ active_fds' = active_fds /\ i' = i /\ recv_req' = recv_req
  BY DEF RecvMissingFingerprintHeader, At, Goto, cacheVars, CacheSame, TakesOne, Is
<1>2. TypeOK BY DEF TransferInv
<1>3. stage'["s"] = next /\ stage'["r"] = stage["r"] BY <1>1, <1>2 DEF TypeOK, Ends
<1> HIDE DEF next
<1>4. SenderStep BY <1>1, <1>3 DEF SenderStep, RecvSame
<1>5. /\ SendInv /\ RevInv /\ RecvInv /\ TurnInv /\ S \in Nat \ {0} /\ S' = S
      /\ R \in Nat \ {0} /\ R' = R /\ sent[S] \in Messages
      /\ RPos' = RPos /\ Missing' = Missing /\ ContentRecvd' = ContentRecvd
  BY <1>4, SenderBase
<1>6. /\ IsFingerprinted(sent[S]) /\ send_req.chunks = ChunksOf[sent[S]]
      /\ send_req.packaged = send_req.chunks
      /\ send_req.reply_ind = 1 /\ send_req.reply_offset = 0 /\ send_req.missing = <<>>
  BY <1>1, <1>5 DEF SendInv, SendFpStages, SendStages
<1>7. /\ Len(rev) > 0 /\ Head(rev) = rev[1] /\ IsSocket(rev') /\ Shifts(rev, 1, rev')
  <2>1. IsSocket(rev) /\ TakesOne(rev, rev') BY <1>1, <1>2 DEF TypeOK
  <2> QED BY <2>1, HeadEffect
<1>8. IsSeq(rev) /\ IsSeq(rev') /\ Len(rev) \in Nat /\ Len(rev') = Len(rev) - 1
  <2>1. IsSocket(rev) BY <1>2 DEF TypeOK
  <2>2. IsSeq(rev) /\ IsSeq(rev') BY <1>7, <2>1, SocketSeq
  <2> QED BY <1>7, <2>2 DEF Shifts, IsSeq
<1>9. \/ /\ R = S /\ Asking /\ Len(rev) = 1 + recv_req.offset
         /\ rev[1] = [type |-> "missing_header", val |-> recv_req.num_missing]
         /\ \A j \in 1 .. recv_req.offset :
              rev[1 + j] = [type |-> "missing", val |-> recv_req.missing[j]]
      \/ AskedNothing(S) /\ Len(rev) = 1 /\ rev[1] = [type |-> "missing_header", val |-> 0]
  BY <1>1, <1>5 DEF RevInv
<1>10. Head(rev).val \in Nat
  <2>1. recv_req.num_missing \in Nat BY <1>2 DEF TypeOK, RecvReqs
  <2> QED BY <1>7, <1>9, <2>1
<1>11. /\ send_req' \in SendReqs /\ send_req'.num_missing = Head(rev).val
       /\ send_req'.chunks = send_req.chunks /\ send_req'.packaged = send_req.packaged
       /\ send_req'.missing = send_req.missing
       /\ send_req'.reply_ind = send_req.reply_ind
       /\ send_req'.reply_offset = send_req.reply_offset
  <2>1. send_req \in SendReqs BY <1>2 DEF TypeOK
  <2>2. Is(send_req', [send_req EXCEPT !.num_missing = Head(rev).val]) BY <1>1
  <2> QED BY <1>10, <2>1, <2>2, SendFieldEffect
<1>12. TypeOK'
  <2>1. IsSocket(fwd') BY <1>1, <1>2 DEF TypeOK
  <2>2. stage'["s"] \in SendStages BY <1>3 DEF SendStages, next
  <2> QED BY <1>1, <1>2, <1>4, <1>7, <1>11, <2>1, <2>2, SenderType
<1>13. SPos' = SPos
  <2>1. SendAt = MsgLen(sent[S]) BY <1>1 DEF SendAt
  <2>2. SendAt' = MsgLen(sent[S]) BY <1>1, <1>3, <1>5 DEF SendAt, next
  <2> QED BY <1>1, <1>5, <2>1, <2>2 DEF SPos, StartOf
<1>14. SendInv'
  <2>1. stage'["s"] \in {"SEND_COMPLETE", "RECV_MISSING_FINGERPRINTS"} BY <1>3 DEF next
  <2> QED BY <1>1, <1>5, <1>6, <1>11, <2>1 DEF SendInv, SendFpStages
<1>15. AnnouncedInv'
  <2>1. stage["s"] \in Announced BY <1>1 DEF Announced, SendFpStages, SendStages
  <2> QED BY <1>1, <1>4, <1>11, <2>1, SenderAnnounced
<1>16. At("r", "RECV_MISSING_CONTENT")' = At("r", "RECV_MISSING_CONTENT") BY <1>1, <1>3 DEF At
<1>17. TurnInv' /\ RevInv' /\ ContentAhead' = ContentAhead
  <2>1. CASE /\ R = S /\ Asking /\ Len(rev) = 1 + recv_req.offset
             /\ rev[1] = [type |-> "missing_header", val |-> recv_req.num_missing]
             /\ \A j \in 1 .. recv_req.offset :
                  rev[1 + j] = [type |-> "missing", val |-> recv_req.missing[j]]
    <3>1. /\ recv_req.num_missing \in Nat \ {0} /\ recv_req.offset \in Nat
      BY <2>1, AskingFacts
    <3>2. Head(rev).val = recv_req.num_missing BY <1>7, <2>1
    <3>3. stage'["s"] = "RECV_MISSING_FINGERPRINTS" BY <1>3, <3>1, <3>2 DEF next
    <3>4. TurnInv' /\ \A k : SenderDone(k)' = SenderDone(k)
      BY <1>1, <1>4, <1>5, <2>1, <3>3, SenderTurn
    <3>5. ContentAhead' = ContentAhead BY <1>1, <1>4, <3>3, <3>4, SenderAhead
    <3>6. Asking' BY <1>1, <1>3, <2>1 DEF Asking, At
    <3>7. Len(send_req'.missing) = 0 BY <1>6, <1>11
    <3>8. Len(rev') = recv_req.offset BY <1>8, <2>1, <3>1
    <3>9. \A j \in 1 .. Len(rev') :
            rev'[j] = [type |-> "missing", val |-> recv_req.missing[0 + j]]
      <4> TAKE j \in 1 .. Len(rev')
      <4>1. j \in 1 .. recv_req.offset /\ j \in 1 .. Len(rev) - 1 /\ 0 + j = j
        BY <1>8, <3>1, <3>8
      <4>2. rev'[j] = rev[1 + j] BY <1>7, <4>1 DEF Shifts
      <4> QED BY <2>1, <4>1, <4>2
    <3>10. RevInv'
      <4>1. send_req'.num_missing = recv_req'.num_missing BY <1>1, <1>11, <3>2
      <4>2. Len(send_req'.missing) < send_req'.num_missing BY <1>11, <3>1, <3>2, <3>7
      <4>3. Len(send_req'.missing) + Len(rev') = recv_req'.offset BY <1>1, <3>1, <3>7, <3>8
      <4>4. R' = S' BY <1>1, <1>5, <2>1
      <4>5. \A j \in 1 .. Len(rev') :
              rev'[j] = [type |-> "missing", val |-> recv_req'.missing[Len(send_req'.missing) + j]]
        BY <1>1, <3>7, <3>9
      <4> QED BY <3>3, <3>6, <3>7, <4>1, <4>2, <4>3, <4>4, <4>5 DEF RevInv
    <3> QED BY <3>4, <3>5, <3>10
  <2>2. CASE AskedNothing(S) /\ Len(rev) = 1 /\ rev[1] = [type |-> "missing_header", val |-> 0]
    <3>1. stage'["s"] = "SEND_COMPLETE" BY <1>3, <1>7, <2>2 DEF next
    <3>2. rev' = <<>> BY <1>8, <2>2, LenZero
    <3>3. RevInv' BY <3>1, <3>2 DEF RevInv
    <3>4. ~ At("r", "RECV_MISSING_CONTENT")
      BY <1>5, <2>2 DEF AskedNothing, At, RecvInv
    <3>5. ContentAhead' = ContentAhead BY <1>16, <3>4 DEF ContentAhead
    <3>6. \A k : k # S => SenderDone(k)' = SenderDone(k) BY <1>5 DEF SenderDone
    <3>7. SenderDone(S)' BY <1>5, <3>1 DEF SenderDone
    <3>8. \A k \in R .. S : SenderDone(k)' /\ IsFingerprinted(sent[k]) =>
            /\ k = R /\ active_fds["r"]
            /\ stage["r"] \in {"RECV_MISSING_CONTENT", "INSERT_INBOUND_FINGERPRINTS",
                               "RECV_COMPLETE"}
      <4> SUFFICES ASSUME NEW k \in R .. S, SenderDone(k)', IsFingerprinted(sent[k])
                   PROVE  /\ k = R /\ active_fds["r"]
                          /\ stage["r"] \in {"RECV_MISSING_CONTENT", "INSERT_INBOUND_FINGERPRINTS",
                                             "RECV_COMPLETE"}
        OBVIOUS
      <4>1. CASE k = S BY <1>5, <2>2, <4>1 DEF AskedNothing, At
      <4>2. CASE k # S
        <5>1. SenderDone(k) BY <3>6, <4>2
        <5> QED BY <1>5, <5>1 DEF TurnInv
      <4> QED BY <4>1, <4>2
    <3>9. TurnInv' BY <1>1, <1>3, <1>5, <3>7, <3>8 DEF TurnInv
    <3> QED BY <3>3, <3>5, <3>9
  <2> QED BY <1>9, <2>1, <2>2
<1>18. FwdInv' BY <1>1, <1>5, <1>13, <1>17, FwdStay
<1> QED BY <1>4, <1>12, <1>14, <1>15, <1>17, <1>18, SenderBase DEF TransferInv

(* The list of missing chunks gets longer.                                 *)
LEMMA SendListEffect ==
  ASSUME NEW req \in SendReqs, NEW req2, NEW v \in Seq(Nat),
         Is(req2, [req EXCEPT !.missing = v])
  PROVE  /\ req2 \in SendReqs /\ req2.missing = v
         /\ req2.offset = req.offset /\ req2.chunks = req.chunks /\ req2.packaged = req.packaged
         /\ req2.num_missing = req.num_missing
         /\ req2.reply_ind = req.reply_ind /\ req2.reply_offset = req.reply_offset
<1>1. req2 \in SendReqs BY DEF SendReqs, Is
<1> QED BY <1>1 DEF SendReqs, Is

(* Two sequences with the same elements.                                   *)
LEMMA SameSeq ==
  ASSUME NEW s, NEW t, IsSeq(s), IsSeq(t), Len(s) = Len(t),
         \A k \in 1 .. Len(s) : s[k] = t[k]
  PROVE  s = t
BY DEF IsSeq

(* process_recv_missing_fingerprints: n more indices, and after the last   *)
(* of them the two lists are one.                                          *)
LEMMA RecvMissingFingerprintsKeeps ==
  ASSUME TransferInv, RecvMissingFingerprints
  PROVE  TransferInv'
<1> DEFINE left == send_req.num_missing - Len(send_req.missing)
           last == "SEND_MISSING_CONTENT"
<1>0. PICK n \in 1 .. SockBuf :
        /\ active_fds["s"] /\ stage["s"] = "RECV_MISSING_FINGERPRINTS"
        /\ Takes(rev, left, n, rev', Vals(SubSeq(rev, 1, n)))
        /\ Is(send_req', [send_req EXCEPT !.missing = send_req.missing \o Vals(SubSeq(rev, 1, n))])
        /\ stage' = IF n < left THEN stage ELSE [stage EXCEPT !["s"] = last]
        /\ sent' = sent /\ delivered' = delivered /\ fwd' = fwd /\ CacheSame /\ torn' = torn
        /\ active_fds' = active_fds /\ i' = i /\ recv_req' = recv_req
  BY DEF RecvMissingFingerprints, At, Goto, cacheVars, CacheSame, Takes, Is
<1> DEFINE vals == Vals(SubSeq(rev, 1, n))
           list == send_req.missing \o vals
<1>1. /\ active_fds["s"] /\ stage["s"] = "RECV_MISSING_FINGERPRINTS"
      /\ Takes(rev, left, n, rev', vals)
      /\ Is(send_req', [send_req EXCEPT !.missing = list])
      /\ stage' = IF n < left THEN stage ELSE [stage EXCEPT !["s"] = last]
      /\ sent' = sent /\ delivered' = delivered /\ fwd' = fwd /\ CacheSame /\ torn' = torn
      /\ active_fds' = active_fds /\ i' = i /\ recv_req' = recv_req
  BY <1>0
<1> HIDE DEF vals
<1>2. TypeOK BY DEF TransferInv
<1>3. /\ stage'["s"] = IF n < left THEN "RECV_MISSING_FINGERPRINTS" ELSE last
      /\ stage'["r"] = stage["r"]
  BY <1>1, <1>2 DEF TypeOK, Ends
<1>4. SenderStep BY <1>1, <1>3 DEF SenderStep, RecvSame
<1>5. /\ SendInv /\ RevInv /\ RecvInv /\ DeliveredAsSent /\ S \in Nat \ {0} /\ S' = S
      /\ R \in Nat \ {0} /\ R' = R /\ sent[S] \in Messages
      /\ RPos' = RPos /\ Missing' = Missing /\ ContentRecvd' = ContentRecvd
  BY <1>4, SenderBase
<1>6. /\ IsFingerprinted(sent[S]) /\ send_req.chunks = ChunksOf[sent[S]]
      /\ send_req.packaged = send_req.chunks
      /\ send_req.reply_ind = 1 /\ send_req.reply_offset = 0
  BY <1>1, <1>5 DEF SendInv, SendFpStages, SendStages
<1>7. /\ R = S /\ Asking /\ send_req.num_missing = recv_req.num_missing
      /\ Len(send_req.missing) < send_req.num_missing
      /\ Len(send_req.missing) + Len(rev) = recv_req.offset
      /\ \A j \in 1 .. Len(send_req.missing) : send_req.missing[j] = recv_req.missing[j]
      /\ \A j \in 1 .. Len(rev) :
           rev[j] = [type |-> "missing", val |-> recv_req.missing[Len(send_req.missing) + j]]
  BY <1>1, <1>5 DEF RevInv
<1>8. /\ active_fds["r"] /\ stage["r"] \in RecvKnown
      /\ recv_req.num_missing = Len(recv_req.missing)
      /\ recv_req.offset \in Nat /\ recv_req.missing \in Seq(Nat)
      /\ Len(recv_req.missing) \in Nat \ {0} /\ recv_req.offset <= Len(recv_req.missing)
      /\ At("r", "SEND_MISSING_FINGERPRINTS") <=> recv_req.offset < Len(recv_req.missing)
  BY <1>7, AskingFacts
<1>9. send_req.missing \in Seq(Nat) /\ Len(send_req.missing) \in Nat /\ send_req.num_missing \in Nat
  BY <1>2 DEF TypeOK, SendReqs
<1>10. /\ n \in Nat \ {0} /\ n <= left /\ IsSocket(rev') /\ Shifts(rev, n, rev')
       /\ IsSeq(vals) /\ Len(vals) = n /\ \A k \in 1 .. n : vals[k] = rev[k].val
  <2>1. IsSocket(rev) BY <1>2 DEF TypeOK
  <2>2. Takes(rev, left, n, rev', vals) BY <1>1
  <2>3. left \in Int BY <1>9
  <2> HIDE DEF left
  <2>4. TakenFrom(rev, left, n, rev', vals) BY <2>1, <2>2, <2>3, RecvEffect, Zenon
  <2> QED BY <2>4, Zenon DEF TakenFrom
<1>11. IsSeq(rev) /\ IsSeq(rev') /\ Len(rev) \in Nat /\ n <= Len(rev) /\ Len(rev') = Len(rev) - n
  <2>1. IsSocket(rev) BY <1>2 DEF TypeOK
  <2>2. IsSeq(rev) /\ IsSeq(rev') BY <1>10, <2>1, SocketSeq
  <2> QED BY <1>10, <2>2 DEF Shifts, IsSeq
<1>12. /\ IsSeq(list) /\ Len(list) = Len(send_req.missing) + n
       /\ \A k \in 1 .. Len(send_req.missing) : list[k] = send_req.missing[k]
       /\ \A k \in 1 .. n : list[Len(send_req.missing) + k] = vals[k]
  <2>1. IsSeq(send_req.missing) /\ IsSeq(vals) BY <1>9, <1>10, SeqIsSeq
  <2>2. /\ IsSeq(list) /\ Len(list) = Len(send_req.missing) + Len(vals)
        /\ \A k \in 1 .. Len(send_req.missing) : list[k] = send_req.missing[k]
        /\ \A k \in 1 .. Len(vals) : list[Len(send_req.missing) + k] = vals[k]
    BY <2>1, ConcatSeq
  <2> HIDE DEF list
  <2> QED BY <1>10, <2>2
<1> HIDE DEF list
<1>13. \A k \in 1 .. Len(list) : list[k] = recv_req.missing[k]
  <2> TAKE k \in 1 .. Len(list)
  <2>1. CASE k <= Len(send_req.missing)
    <3>1. k \in 1 .. Len(send_req.missing) BY <1>9, <1>12, <2>1
    <3> QED BY <1>7, <1>12, <3>1
  <2>2. CASE k > Len(send_req.missing)
    <3> DEFINE q == k - Len(send_req.missing)
    <3>0. /\ Len(send_req.missing) \in Nat /\ n \in Nat /\ n <= Len(rev) /\ Len(rev) \in Nat
          /\ k \in 1 .. Len(send_req.missing) + n
      BY <1>9, <1>10, <1>11, <1>12
    <3>1. q \in 1 .. n /\ q \in 1 .. Len(rev) /\ Len(send_req.missing) + q = k
      BY <2>2, <3>0
    <3> HIDE DEF q
    <3>2. list[Len(send_req.missing) + q] = rev[q].val BY <1>10, <1>12, <3>1
    <3>3. rev[q].val = recv_req.missing[Len(send_req.missing) + q]
      <4>1. rev[q] = [type |-> "missing", val |-> recv_req.missing[Len(send_req.missing) + q]]
        BY <1>7, <3>1
      <4> QED BY <4>1
    <3> QED BY <3>1, <3>2, <3>3
  <2> QED BY <1>9, <1>12, <2>1, <2>2
<1>14. Len(list) <= Len(recv_req.missing) /\ Len(list) \in Nat
  BY <1>7, <1>8, <1>9, <1>10, <1>12
<1>15. list \in Seq(Nat)
  <2>1. \A k \in 1 .. Len(list) : list[k] \in Nat BY <1>8, <1>13, <1>14
  <2> QED BY <1>12, <2>1, SeqOfMembers
<1>16. /\ send_req' \in SendReqs /\ send_req'.missing = list
       /\ send_req'.chunks = send_req.chunks /\ send_req'.packaged = send_req.packaged
       /\ send_req'.num_missing = send_req.num_missing
       /\ send_req'.reply_ind = send_req.reply_ind
       /\ send_req'.reply_offset = send_req.reply_offset
  <2>1. send_req \in SendReqs BY <1>2 DEF TypeOK
  <2>2. Is(send_req', [send_req EXCEPT !.missing = list]) BY <1>1
  <2> QED BY <1>15, <2>1, <2>2, SendListEffect
<1>17. TypeOK'
  <2>1. IsSocket(fwd') BY <1>1, <1>2 DEF TypeOK
  <2>2. stage'["s"] \in SendStages BY <1>3 DEF SendStages
  <2>3. stage' = stage \/ \E st : stage' = [stage EXCEPT !["s"] = st] BY <1>1
  <2> QED BY <1>1, <1>2, <1>4, <1>10, <1>16, <2>1, <2>2, <2>3, SenderType
<1>18. SPos' = SPos
  <2>1. SendAt = MsgLen(sent[S]) BY <1>1 DEF SendAt
  <2>2. SendAt' = MsgLen(sent[S]) BY <1>1, <1>3, <1>5 DEF SendAt
  <2> QED BY <1>1, <1>5, <2>1, <2>2 DEF SPos, StartOf
<1>19. AnnouncedInv'
  <2>1. stage["s"] \in Announced BY <1>1 DEF Announced, SendFpStages, SendStages
  <2> QED BY <1>1, <1>4, <1>16, <2>1, SenderAnnounced
<1>20. TurnInv' /\ \A k : SenderDone(k)' = SenderDone(k) BY <1>1, <1>3, <1>4, SenderTurn
<1>21. At("r", "RECV_MISSING_CONTENT")' = At("r", "RECV_MISSING_CONTENT") /\ Asking'
  BY <1>1, <1>3, <1>7 DEF At, Asking
<1>22. SendInv' /\ RevInv' /\ ContentAhead' = ContentAhead
  <2>1. CASE n < left
    <3>1. stage'["s"] = "RECV_MISSING_FINGERPRINTS" BY <1>3, <2>1
    <3>2. ContentAhead' = ContentAhead BY <1>1, <1>4, <1>20, <3>1, SenderAhead
    <3>3. SendInv' BY <1>1, <1>5, <1>6, <1>16, <3>1 DEF SendInv, SendFpStages
    <3>4. Len(list) < send_req.num_missing BY <1>9, <1>10, <1>12, <2>1
    <3>5. Len(list) + Len(rev') = recv_req.offset BY <1>7, <1>8, <1>9, <1>10, <1>11, <1>12
    <3>6. \A j \in 1 .. Len(rev') :
            rev'[j] = [type |-> "missing", val |-> recv_req.missing[Len(list) + j]]
      <4> TAKE j \in 1 .. Len(rev')
      <4>1. n + j \in 1 .. Len(rev) /\ j \in 1 .. Len(rev) - n BY <1>10, <1>11
      <4>2. rev'[j] = rev[n + j] BY <1>10, <4>1 DEF Shifts
      <4>3. rev[n + j] = [type |-> "missing",
                          val |-> recv_req.missing[Len(send_req.missing) + (n + j)]]
        BY <1>7, <4>1
      <4>4. Len(send_req.missing) + (n + j) = Len(list) + j
        <5>1. PICK a \in Nat : a = Len(send_req.missing) BY <1>9
        <5>2. n \in Nat /\ j \in Nat /\ Len(list) = a + n BY <1>10, <1>11, <1>12, <5>1
        <5>3. a + (n + j) = (a + n) + j BY <5>2
        <5> QED BY <5>1, <5>2, <5>3
      <4> QED BY <4>2, <4>3, <4>4
    <3>7. RevInv'
      BY <1>1, <1>5, <1>7, <1>13, <1>16, <1>21, <3>1, <3>4, <3>5, <3>6 DEF RevInv
    <3> QED BY <3>2, <3>3, <3>7
  <2>2. CASE ~ (n < left)
    <3>1. stage'["s"] = "SEND_MISSING_CONTENT" BY <1>3, <2>2
    <3>2. n = left BY <1>9, <1>10, <2>2
    <3>3. Len(list) = Len(recv_req.missing) BY <1>7, <1>8, <1>9, <1>10, <1>12, <3>2
    <3>4. recv_req.offset = Len(recv_req.missing) /\ Len(rev') = 0
      BY <1>7, <1>8, <1>9, <1>10, <1>11, <1>12, <3>3, SMTT(30)
    <3>5. At("r", "RECV_MISSING_CONTENT") BY <1>7, <1>8, <3>4 DEF Asking
    <3>6. rev' = <<>> BY <1>11, <3>4, LenZero
    <3>7. RevInv' BY <3>1, <3>6 DEF RevInv
    <3>8. list = recv_req.missing
      <4>1. IsSeq(recv_req.missing) BY <1>8, SeqIsSeq
      <4> QED BY <1>12, <1>13, <3>3, <4>1, SameSeq
    <3>9. /\ Missing \in Seq(Fingerprints) /\ Len(Missing) = Len(recv_req.missing)
      BY <1>2, <1>5, <1>8, MissingFacts
    <3>10. 1 \in 1 .. Len(Missing) /\ ContentSize[Missing[1]] \in Nat \ {0}
      <4>1. 1 \in 1 .. Len(Missing) BY <1>8, <3>9
      <4> QED BY <3>9, <4>1, SizesFacts
    <3>11. SendContentInv'
      BY <1>1, <1>5, <1>6, <1>7, <1>16, <1>21, <3>5, <3>8, <3>10 DEF SendContentInv
    <3>12. SendInv' BY <1>1, <1>5, <1>6, <1>16, <3>1, <3>11 DEF SendInv, SendFpStages
    <3>13. ContentSent = 0 BY <1>1, <1>5, <1>7 DEF ContentSent, SenderDone
    <3>14. ContentSent' = 0
      <4>1. ContentSent' = OffsetOf(Missing', send_req'.reply_ind) + send_req'.reply_offset
        BY <1>5, <1>7, <3>1 DEF ContentSent, SenderDone
      <4>2. OffsetOf(Missing, 1) = 0 BY <3>9, OffsetFacts
      <4> QED BY <1>5, <1>6, <1>16, <4>1, <4>2
    <3>15. ContentAhead' = ContentAhead BY <1>5, <1>21, <3>13, <3>14 DEF ContentAhead
    <3> QED BY <3>7, <3>12, <3>15
  <2> QED BY <2>1, <2>2
<1>23. FwdInv' BY <1>1, <1>5, <1>18, <1>22, FwdStay
<1> QED BY <1>4, <1>17, <1>19, <1>20, <1>22, <1>23, SenderBase DEF TransferInv

(* What one send() of the content makes of the request. *)
Replies(req, whole, n, req2) ==
  req2 = IF whole THEN [req EXCEPT !.reply_ind = @ + 1, !.reply_offset = 0]
                  ELSE [req EXCEPT !.reply_offset = @ + n]

(* A piece of a missing chunk was sent: to its end or not.                 *)
LEMMA ReplyEffect ==
  ASSUME NEW req \in SendReqs, NEW whole, NEW n \in Nat, NEW req2, Replies(req, whole, n, req2)
  PROVE  /\ req2 \in SendReqs
         /\ req2.offset = req.offset /\ req2.chunks = req.chunks /\ req2.packaged = req.packaged
         /\ req2.num_missing = req.num_missing /\ req2.missing = req.missing
         /\ whole => req2.reply_ind = req.reply_ind + 1 /\ req2.reply_offset = 0
         /\ ~ whole => req2.reply_ind = req.reply_ind /\ req2.reply_offset = req.reply_offset + n
<1>1. req.reply_ind \in Nat /\ req.reply_offset \in Nat BY DEF SendReqs
<1>2. CASE whole
  <2>1. PICK v \in Nat : Is(v, req.reply_ind + 1) BY <1>1 DEF Is
  <2>2. req2 = [req EXCEPT !.reply_ind = v, !.reply_offset = 0] BY <1>2, <2>1 DEF Replies, Is
  <2>3. req2 \in SendReqs BY <2>2 DEF SendReqs
  <2>4. req2.reply_ind = v BY <2>2 DEF SendReqs
  <2> QED BY <1>2, <2>1, <2>2, <2>3, <2>4 DEF SendReqs, Is
<1>3. CASE ~ whole
  <2>1. PICK v \in Nat : Is(v, req.reply_offset + n) BY <1>1 DEF Is
  <2>2. req2 = [req EXCEPT !.reply_offset = v] BY <1>3, <2>1 DEF Replies, Is
  <2>3. req2 \in SendReqs BY <2>2 DEF SendReqs
  <2>4. req2.reply_offset = v BY <2>2 DEF SendReqs
  <2> QED BY <1>3, <2>1, <2>2, <2>3, <2>4 DEF SendReqs, Is
<1> QED BY <1>2, <1>3

(* The rest of chunk j of a message, from position at of the chunk on. *)
LEMMA ChunkRest ==
  ASSUME NEW fps \in Seq(Fingerprints), NEW j \in 1 .. Len(fps), NEW at \in Nat,
         at < ContentSize[fps[j]], NEW left,
         Is(left, SubSeq(Data(fps), OffsetOf(fps, j) + at + 1,
                         OffsetOf(fps, j) + ContentSize[fps[j]]))
  PROVE  /\ IsSeq(left) /\ Len(left) = ContentSize[fps[j]] - at
         /\ \A k \in 1 .. Len(left) : left[k] = <<fps[j], at + k>>
<1>1. PICK size \in Nat : Is(size, ContentSize[fps[j]]) /\ at < size BY SizesFacts DEF Is
<1>2. PICK off \in Nat : Is(off, OffsetOf(fps, j))
  <2>1. j \in 1 .. Len(fps) + 1 OBVIOUS
  <2> QED BY <2>1, OffsetFacts DEF Is
<1>3. Data(fps) \in Seq(Units)
  <2>1. /\ IsSeq(Data(fps)) /\ Len(Data(fps)) = Size(fps)
        /\ \A p \in 1 .. Size(fps) : Data(fps)[p] \in Units
    BY DataSeq
  <2> QED BY <2>1, SeqOfMembers
<1>4. \A q \in 1 .. size : off + q \in 1 .. Len(Data(fps)) /\ Data(fps)[off + q] = <<fps[j], q>>
  BY <1>1, <1>2, DataAt, DataSeq DEF Is
<1>5. Is(left, SubSeq(Data(fps), off + at + 1, off + size)) BY <1>1, <1>2 DEF Is
<1>6. \A k \in off + at + 1 .. off + size : k \in 1 .. Len(Data(fps))
  <2> TAKE k \in off + at + 1 .. off + size
  <2>1. k - off \in 1 .. size /\ off + (k - off) = k BY <1>1
  <2> QED BY <1>4, <2>1
<1>8. /\ left \in Seq(Units) /\ Len(left) = (off + size) - (off + at + 1) + 1
      /\ \A k \in 1 .. (off + size) - (off + at + 1) + 1 :
           left[k] = Data(fps)[off + at + 1 + k - 1]
  <2> DEFINE d == Data(fps)
             a == off + at + 1
             b == off + size
  <2>1. a \in Int /\ b \in Int /\ \A k \in a .. b : d[k] \in Units BY <1>3, <1>6
  <2>2. Is(left, SubSeq(d, a, b)) BY <1>5
  <2>3. a <= b BY <1>1
  <2> HIDE DEF d, a, b
  <2>4. /\ left \in Seq(Units) /\ Len(left) = b - a + 1
        /\ \A k \in 1 .. b - a + 1 : left[k] = d[a + k - 1]
    <3>1. /\ SubSeq(d, a, b) \in Seq(Units)
          /\ Len(SubSeq(d, a, b)) = IF a <= b THEN b - a + 1 ELSE 0
          /\ \A k \in 1 .. b - a + 1 : SubSeq(d, a, b)[k] = d[a + k - 1]
      BY <2>1, SubSeqProperties
    <3> QED BY <2>2, <2>3, <3>1, Zenon DEF Is
  <2> QED BY <2>4 DEF d, a, b
<1>9. Len(left) = size - at BY <1>1, <1>8
<1>10. \A k \in 1 .. size - at : left[k] = <<fps[j], at + k>>
  <2> TAKE k \in 1 .. size - at
  <2>1. k \in 1 .. (off + size) - (off + at + 1) + 1 BY <1>1
  <2>2. off + at + 1 + k - 1 = off + (at + k) BY <1>1
  <2>3. at + k \in 1 .. size BY <1>1
  <2> QED BY <1>4, <1>8, <2>1, <2>2, <2>3
<1>11. IsSeq(left) BY <1>8, SeqIsSeq
<1> QED BY <1>1, <1>9, <1>10, <1>11 DEF Is

(* process_send_missing_content: n units of one chunk, and after the last  *)
(* chunk the sender is done.                                               *)
LEMMA SendMissingContentKeeps ==
  ASSUME TransferInv, SendMissingContent
  PROVE  TransferInv'
<1> DEFINE ind == send_req.missing[send_req.reply_ind]
           f == send_req.packaged[ind]
           at == send_req.reply_offset
           left == SubSeq(Data(send_req.chunks), OffsetOf(send_req.packaged, ind) + at + 1,
                          OffsetOf(send_req.packaged, ind) + ContentSize[f])
<1>1. PICK n \in 1 .. SockBuf :
        /\ active_fds["s"] /\ stage["s"] = "SEND_MISSING_CONTENT"
        /\ Sends(fwd, "data", left, n, fwd')
        /\ n < Len(left) \/ n = Len(left)
        /\ Replies(send_req, ~ (n < Len(left)), n, send_req')
        /\ n < Len(left) => stage' = stage
        /\ ~ (n < Len(left)) => stage' = IF send_req.reply_ind < send_req.num_missing
                                           THEN stage ELSE [stage EXCEPT !["s"] = "SEND_COMPLETE"]
        /\ sent' = sent /\ delivered' = delivered /\ rev' = rev /\ CacheSame /\ torn' = torn
        /\ active_fds' = active_fds /\ i' = i /\ recv_req' = recv_req
  <2>1. PICK n \in 1 .. SockBuf :
        /\ active_fds["s"] /\ stage["s"] = "SEND_MISSING_CONTENT"
        /\ CanSend(fwd, left, n)
        /\ fwd' = fwd \o Tokens("data", SubSeq(left, 1, n))
        /\ \/ /\ n < Len(left)
              /\ send_req' = [send_req EXCEPT !.reply_offset = @ + n]
              /\ UNCHANGED stage
           \/ /\ n = Len(left)
              /\ send_req' = [send_req EXCEPT !.reply_ind = @ + 1,
                                              !.reply_offset = 0]
              /\ IF send_req.reply_ind < send_req.num_missing
                   THEN UNCHANGED stage ELSE Goto("s", "SEND_COMPLETE")
        /\ sent' = sent /\ delivered' = delivered /\ rev' = rev /\ CacheSame /\ torn' = torn
        /\ active_fds' = active_fds /\ i' = i /\ recv_req' = recv_req
    BY DEF SendMissingContent, At, cacheVars, CacheSame
  <2> HIDE DEF left
  <2>2. Sends(fwd, "data", left, n, fwd') BY <2>1 DEF Sends
  <2>3. n = Len(left) => ~ (n < Len(left)) OBVIOUS
  <2> QED BY <2>1, <2>2, <2>3 DEF Replies, Goto
<1>2. TypeOK BY DEF TransferInv
<1>3. /\ stage'["s"] = IF n < Len(left) \/ send_req.reply_ind < send_req.num_missing
                         THEN "SEND_MISSING_CONTENT" ELSE "SEND_COMPLETE"
      /\ stage'["r"] = stage["r"] /\ (stage' = stage \/ \E st : stage' = [stage EXCEPT !["s"] = st])
  <2> HIDE DEF left
  <2> QED BY <1>1, <1>2 DEF TypeOK, Ends
<1>4. SenderStep BY <1>1, <1>3 DEF SenderStep, RecvSame
<1>5. /\ SendInv /\ RevInv /\ RecvInv /\ TurnInv /\ DeliveredAsSent /\ S \in Nat \ {0} /\ S' = S
      /\ R \in Nat \ {0} /\ R' = R /\ sent[S] \in Messages
      /\ RPos' = RPos /\ Missing' = Missing /\ ContentRecvd' = ContentRecvd
  BY <1>4, SenderBase
<1>6. /\ IsFingerprinted(sent[S]) /\ send_req.chunks = ChunksOf[sent[S]]
      /\ send_req.packaged = send_req.chunks
      /\ R = S /\ At("r", "RECV_MISSING_CONTENT")
      /\ send_req.missing = recv_req.missing /\ send_req.num_missing = recv_req.num_missing
      /\ send_req.reply_ind \in 1 .. Len(Missing)
      /\ send_req.reply_offset < ContentSize[Missing[send_req.reply_ind]]
  BY <1>1, <1>5 DEF SendInv, SendFpStages, SendStages, SendContentInv
<1>7. /\ active_fds["r"] /\ stage["r"] = "RECV_MISSING_CONTENT" /\ stage["r"] \in RecvKnown
      /\ recv_req.num_missing = Len(recv_req.missing)
  BY <1>5, <1>6 DEF At, RecvKnown, RecvFpStages, RecvFirst, RecvStages, RecvInv, ListInv
<1>8. /\ recv_req.packaged = ChunksOf[sent[S]] /\ recv_req.packaged \in Seq(Fingerprints)
      /\ \A k \in 1 .. Len(recv_req.missing) : recv_req.missing[k] \in 1 .. Len(recv_req.packaged)
      /\ Missing \in Seq(Fingerprints) /\ Len(Missing) = Len(recv_req.missing)
      /\ Len(Missing) \in Nat
      /\ \A k \in 1 .. Len(Missing) : Missing[k] = recv_req.packaged[recv_req.missing[k]]
  BY <1>2, <1>5, <1>6, <1>7, MissingFacts
<1>9. /\ ind \in 1 .. Len(send_req.packaged) /\ f = Missing[send_req.reply_ind]
      /\ send_req.packaged \in Seq(Fingerprints)
  BY <1>6, <1>8
<1>10. /\ ContentAhead \in Nat /\ RPos \in Nat /\ SPos \in Nat
       /\ ContentAhead = ContentSent - ContentRecvd
       /\ FwdOK(fwd, ContentAhead, Missing, ContentRecvd, sent, RPos, SPos)
       /\ IsSeq(fwd) /\ IsSocket(fwd)
  BY <1>6, FwdFacts
<1>11. /\ ContentRecvd \in Nat /\ ContentSent \in Nat /\ Size(Missing) \in Nat
  BY <1>2, <1>5, <1>6, ContentFacts
<1>12. PICK size \in Nat : Is(size, ContentSize[f]) /\ at < size
  <2>1. ContentSize[Missing[send_req.reply_ind]] \in Nat BY <1>6, <1>8, SizesFacts
  <2> QED BY <1>6, <1>9, <2>1 DEF Is
<1>13. PICK off \in Nat : Is(off, OffsetOf(Missing, send_req.reply_ind))
  <2>1. send_req.reply_ind \in 1 .. Len(Missing) + 1 BY <1>6, <1>8
  <2> QED BY <1>8, <2>1, OffsetFacts DEF Is
<1>14. at \in Nat BY <1>2 DEF TypeOK, SendReqs
<1>15. /\ IsSeq(left) /\ Len(left) = size - at
       /\ \A k \in 1 .. Len(left) : left[k] = <<f, at + k>>
  <2>1. Is(left, SubSeq(Data(send_req.packaged), OffsetOf(send_req.packaged, ind) + at + 1,
                        OffsetOf(send_req.packaged, ind) + ContentSize[send_req.packaged[ind]]))
    BY <1>6 DEF Is
  <2>2. at < ContentSize[send_req.packaged[ind]] BY <1>12 DEF Is
  <2> HIDE DEF left, ind, at
  <2>3. /\ IsSeq(left) /\ Len(left) = ContentSize[send_req.packaged[ind]] - at
        /\ \A k \in 1 .. Len(left) : left[k] = <<send_req.packaged[ind], at + k>>
    <3>1. ind \in 1 .. Len(send_req.packaged) /\ send_req.packaged \in Seq(Fingerprints) BY <1>9
    <3> QED BY <1>14, <2>1, <2>2, <3>1, ChunkRest
  <2> QED BY <1>12, <2>3 DEF Is
<1> HIDE DEF left, f
<1>16. /\ n \in Nat \ {0} /\ n <= Len(left) /\ IsSocket(fwd') /\ Grows(fwd, n, fwd')
       /\ \A k \in 1 .. n : fwd'[Len(fwd) + k] = [type |-> "data", val |-> left[k]]
  <2>1. Sends(fwd, "data", left, n, fwd') BY <1>1
  <2>2. IsSeq(left) /\ IsSocket(fwd) BY <1>10, <1>15
  <2>3. SentTo(fwd, "data", left, n, fwd') BY <2>1, <2>2, SendEffect, Zenon
  <2> QED BY <2>3, Zenon DEF SentTo
<1>17. /\ send_req' \in SendReqs
       /\ send_req'.chunks = send_req.chunks /\ send_req'.packaged = send_req.packaged
       /\ send_req'.num_missing = send_req.num_missing /\ send_req'.missing = send_req.missing
       /\ ~ (n < Len(left)) =>
            send_req'.reply_ind = send_req.reply_ind + 1 /\ send_req'.reply_offset = 0
       /\ n < Len(left) =>
            send_req'.reply_ind = send_req.reply_ind /\ send_req'.reply_offset = at + n
  <2>1. send_req \in SendReqs /\ n \in Nat BY <1>2, <1>16 DEF TypeOK
  <2>2. Replies(send_req, ~ (n < Len(left)), n, send_req') BY <1>1
  <2>3. \A whole : Replies(send_req, whole, n, send_req') =>
          /\ send_req' \in SendReqs
          /\ send_req'.chunks = send_req.chunks /\ send_req'.packaged = send_req.packaged
          /\ send_req'.num_missing = send_req.num_missing /\ send_req'.missing = send_req.missing
          /\ whole => send_req'.reply_ind = send_req.reply_ind + 1 /\ send_req'.reply_offset = 0
          /\ ~ whole => send_req'.reply_ind = send_req.reply_ind
                          /\ send_req'.reply_offset = send_req.reply_offset + n
    BY <2>1, ReplyEffect
  <2> QED BY <2>2, <2>3
<1>18. TypeOK'
  <2>1. IsSocket(rev') BY <1>1, <1>2 DEF TypeOK
  <2>2. stage'["s"] \in SendStages BY <1>3 DEF SendStages
  <2> QED BY <1>1, <1>2, <1>3, <1>4, <1>16, <1>17, <2>1, <2>2, SenderType
<1>19. SPos' = SPos /\ SPos = RPos
  <2>1. SendAt = MsgLen(sent[S]) /\ RecvAt = MsgLen(sent[S]) BY <1>1, <1>6, <1>7 DEF SendAt, RecvAt
  <2>2. SendAt' = MsgLen(sent[S]) BY <1>1, <1>3, <1>5 DEF SendAt
  <2> QED BY <1>1, <1>5, <1>6, <1>7, <2>1, <2>2 DEF SPos, RPos, StartOf
<1>20. AnnouncedInv'
  <2>1. stage["s"] \in Announced BY <1>1 DEF Announced, SendFpStages, SendStages
  <2> QED BY <1>1, <1>4, <1>17, <2>1, SenderAnnounced
<1>21. RevInv' BY <1>1, <1>3, <1>5 DEF RevInv
<1>22. At("r", "RECV_MISSING_CONTENT")' BY <1>1, <1>3, <1>6 DEF At
<1>23. ContentSent = off + at
  BY <1>1, <1>5, <1>6, <1>13 DEF ContentSent, SenderDone, Is
<1>24. SendInv' /\ TurnInv' /\ ContentSent' = ContentSent + n
  <2>1. CASE n < Len(left)
    <3>1. stage'["s"] = "SEND_MISSING_CONTENT" BY <1>3, <2>1
    <3>2. TurnInv' /\ \A k : SenderDone(k)' = SenderDone(k) BY <1>1, <1>4, <3>1, SenderTurn
    <3>3. send_req'.reply_ind = send_req.reply_ind /\ send_req'.reply_offset = at + n
      BY <1>17, <2>1
    <3>4. at + n < size BY <1>12, <1>14, <1>15, <1>16, <2>1
    <3>5. SendContentInv'
      <4>1. send_req'.reply_offset < ContentSize[Missing'[send_req'.reply_ind]]
        BY <1>5, <1>9, <1>12, <3>3, <3>4 DEF Is
      <4> QED BY <1>1, <1>5, <1>6, <1>17, <1>22, <3>3, <4>1 DEF SendContentInv
    <3>6. SendInv' BY <1>1, <1>5, <1>6, <1>17, <3>1, <3>5 DEF SendInv, SendFpStages
    <3>7. ContentSent' = off + (at + n)
      BY <1>5, <1>6, <1>13, <3>1, <3>3 DEF ContentSent, SenderDone, Is
    <3> QED BY <1>14, <1>16, <1>23, <3>2, <3>6, <3>7
  <2>2. CASE ~ (n < Len(left))
    <3>1. at + n = size BY <1>12, <1>14, <1>15, <1>16, <2>2
    <3>2. OffsetOf(Missing, send_req.reply_ind + 1) = off + size
      BY <1>6, <1>8, <1>9, <1>12, <1>13, OffsetFacts DEF Is
    <3>3. send_req'.reply_ind = send_req.reply_ind + 1 /\ send_req'.reply_offset = 0
      BY <1>17, <2>2
    <3>4. off + size = ContentSent + n BY <1>14, <1>16, <1>23, <3>1
    <3>5. send_req.num_missing = Len(Missing) BY <1>6, <1>7, <1>8
    <3>6. CASE send_req.reply_ind < send_req.num_missing
      <4>1. stage'["s"] = "SEND_MISSING_CONTENT" BY <1>3, <3>6
      <4>2. TurnInv' /\ \A k : SenderDone(k)' = SenderDone(k) BY <1>1, <1>4, <4>1, SenderTurn
      <4>3. send_req.reply_ind + 1 \in 1 .. Len(Missing) BY <1>6, <1>8, <3>5, <3>6
      <4>4. ContentSize[Missing[send_req.reply_ind + 1]] \in Nat \ {0} BY <1>8, <4>3, SizesFacts
      <4>5. SendContentInv'
        BY <1>1, <1>5, <1>6, <1>17, <1>22, <3>3, <4>3, <4>4 DEF SendContentInv
      <4>6. SendInv' BY <1>1, <1>5, <1>6, <1>17, <4>1, <4>5 DEF SendInv, SendFpStages
      <4>7. ContentSent' = OffsetOf(Missing, send_req.reply_ind + 1) + 0
        BY <1>5, <1>6, <3>3, <4>1 DEF ContentSent, SenderDone
      <4> QED BY <1>11, <1>16, <3>2, <3>4, <4>2, <4>6, <4>7
    <3>7. CASE ~ (send_req.reply_ind < send_req.num_missing)
      <4>1. stage'["s"] = "SEND_COMPLETE" BY <1>3, <2>2, <3>7
      <4>2. SendInv' BY <1>1, <1>5, <1>6, <1>17, <4>1 DEF SendInv, SendFpStages
      <4>3. SenderDone(S)' BY <1>5, <4>1 DEF SenderDone
      <4>4. TurnInv' BY <1>1, <1>3, <1>5, <1>6, <1>7, <4>3 DEF TurnInv
      <4>5. send_req.reply_ind = Len(Missing) BY <1>6, <1>8, <3>5, <3>7
      <4>6. ContentSent' = Size(Missing) BY <1>5, <1>6, <4>1 DEF ContentSent, SenderDone
      <4>7. OffsetOf(Missing, Len(Missing) + 1) = Size(Missing) BY <1>8, OffsetFacts
      <4> QED BY <3>2, <3>4, <4>2, <4>4, <4>5, <4>6, <4>7
    <3> QED BY <3>6, <3>7
  <2> QED BY <2>1, <2>2
<1>25. FwdInv'
  <2>1. ContentAhead' = ContentAhead + n
    BY <1>5, <1>10, <1>11, <1>16, <1>22, <1>24 DEF ContentAhead
  <2>2. HoldsContent(fwd', Len(fwd), n, Missing[send_req.reply_ind], at)
    <3> SUFFICES ASSUME NEW k \in 1 .. n
                 PROVE  fwd'[Len(fwd) + k]
                          = [type |-> "data", val |-> <<Missing[send_req.reply_ind], at + k>>]
      BY DEF HoldsContent
    <3>1. k \in 1 .. Len(left) BY <1>12, <1>14, <1>15, <1>16
    <3> QED BY <1>9, <1>15, <1>16, <3>1
  <2>3. FwdOK(fwd', ContentAhead + n, Missing, ContentRecvd, sent, RPos, RPos)
    <3>1. FwdOK(fwd, ContentAhead, Missing, ContentRecvd, sent, RPos, RPos) BY <1>10, <1>19
    <3>2. Is(size, ContentSize[Missing[send_req.reply_ind]]) BY <1>9, <1>12 DEF Is
    <3>3. at + n <= size BY <1>12, <1>14, <1>15, <1>16
    <3>4. ContentAhead + ContentRecvd = off + at BY <1>10, <1>11, <1>23
    <3>5. n \in Nat /\ Grows(fwd, n, fwd') BY <1>16
    <3>6. IsSeq(fwd) /\ Missing \in Seq(Fingerprints) /\ ContentRecvd \in Nat
          /\ ContentAhead \in Nat /\ RPos \in Nat /\ send_req.reply_ind \in 1 .. Len(Missing)
      BY <1>6, <1>8, <1>10, <1>11
    <3> HIDE DEF at
    <3> QED BY <1>13, <1>14, <2>2, <3>1, <3>2, <3>3, <3>4, <3>5, <3>6, ContentPush
  <2> QED BY <1>1, <1>5, <1>19, <2>1, <2>3 DEF FwdInv, FwdOK
<1> QED BY <1>4, <1>18, <1>20, <1>21, <1>24, <1>25, SenderBase DEF TransferInv

(* test reports a complete send and frees the request.                     *)
LEMMA TestSendKeeps ==
  ASSUME TransferInv, TestSend
  PROVE  TransferInv'
<1>1. /\ active_fds["s"] /\ stage["s"] = "SEND_COMPLETE"
      /\ active_fds' = [active_fds EXCEPT !["s"] = FALSE]
      /\ sent' = sent /\ delivered' = delivered /\ fwd' = fwd /\ rev' = rev /\ CacheSame /\ torn' = torn
      /\ stage' = stage /\ i' = i /\ send_req' = send_req /\ recv_req' = recv_req
  BY DEF TestSend, At, cacheVars, netVars, CacheSame
<1>2. TypeOK BY DEF TransferInv
<1>3. active_fds' \in [Ends -> BOOLEAN] /\ ~ active_fds'["s"] /\ active_fds'["r"] = active_fds["r"]
  BY <1>1, <1>2 DEF TypeOK, Ends
<1>4. SenderStep BY <1>1, <1>3 DEF SenderStep, RecvSame
<1>5. /\ SendInv /\ RevInv /\ TurnInv /\ DeliveredAsSent /\ S \in Nat \ {0} /\ S' = S /\ R' = R
      /\ sent[S] \in Messages
      /\ RPos' = RPos /\ Missing' = Missing /\ ContentRecvd' = ContentRecvd
  BY <1>4, SenderBase
<1>6. TypeOK' BY <1>1, <1>2, <1>3 DEF TypeOK, CacheSame
<1>7. \A k : SenderDone(k)' = SenderDone(k) BY <1>1, <1>5 DEF SenderDone
<1>8. TurnInv' BY <1>1, <1>3, <1>5, <1>7 DEF TurnInv, At
<1>9. FwdInv'
  <2>1. ContentAhead' = ContentAhead BY <1>1, <1>4, <1>7, SenderAhead
  <2>2. SPos = StartOf(S) + MsgLen(sent[S]) BY <1>1 DEF SPos, SendAt
  <2>3. SPos' = StartOf(S + 1) BY <1>1, <1>3, <1>5 DEF SPos, StartOf
  <2>4. StartOf(S + 1) = StartOf(S) + MsgLen(sent[S])
    <3>1. S \in 1 .. S BY <1>5
    <3> QED BY <1>2, <1>5, <3>1, Counts
  <2>5. SPos' = SPos BY <2>2, <2>3, <2>4
  <2> QED BY <1>1, <1>5, <2>1, <2>5, FwdStay
<1>10. RevInv' BY <1>1, <1>5 DEF RevInv
<1>11. SendInv' BY <1>1, <1>3, <1>5 DEF SendInv, SendFpStages
<1>12. AnnouncedInv' BY <1>1, <1>4, SenderAnnounced DEF Announced, SendFpStages
<1> QED BY <1>4, <1>6, <1>8, <1>9, <1>10, <1>11, <1>12, SenderBase DEF TransferInv

-----------------------------------------------------------------------------
(* The insert stages and the other connections keep the invariant.         *)

(* A cache only grows. *)
CacheGrows ==
  \A h \in Hosts, f \in Fingerprints : cache[h][f] # Absent => cache'[h][f] # Absent

(* What the steps on the cache leave alone. *)
Still ==
  /\ sent' = sent /\ delivered' = delivered /\ fwd' = fwd /\ rev' = rev /\ torn' = torn
  /\ active_fds' = active_fds /\ send_req' = send_req /\ recv_req' = recv_req

(* The invariant but for the types and the caches. *)
ProtocolInv == DeliveredAsSent /\ FwdInv /\ RevInv /\ SendInv /\ RecvInv /\ TurnInv

(* A step that changes caches and locks only.                              *)
LEMMA QuietFrame ==
  ASSUME TransferInv, Still, stage' = stage, i' = i
  PROVE  ProtocolInv'
<1>1. TypeOK /\ ProtocolInv BY DEF TransferInv, ProtocolInv
<1>2. RecvSame /\ SendSame /\ SentGrows BY DEF RecvSame, SendSame, Still, SentGrows
<1>3. /\ R' = R /\ RPos' = RPos /\ Missing' = Missing /\ ContentRecvd' = ContentRecvd /\ RecvInv'
  BY <1>1, <1>2, RecvFrame DEF ProtocolInv
<1>4. stage["s"] = "SEND_MISSING_CONTENT" => SendContentInv'
  <2>1. stage["s"] = "SEND_MISSING_CONTENT" => SendContentInv BY <1>1 DEF ProtocolInv, SendInv
  <2>2. S' = S BY DEF S, Still
  <2> QED BY <1>3, <2>1, <2>2 DEF SendContentInv, At, Still
<1>5. S' = S /\ SPos' = SPos /\ SendInv' /\ \A k : SenderDone(k)' = SenderDone(k)
  BY <1>1, <1>2, <1>4, SendFrame DEF ProtocolInv
<1>6. ContentAhead' = ContentAhead
  <2>1. ContentSent' = ContentSent BY <1>3, <1>5 DEF ContentSent, SenderDone, Still
  <2> QED BY <1>3, <2>1 DEF ContentAhead, At, Still
<1>7. FwdInv' BY <1>3, <1>5, <1>6, FwdStay DEF Still
<1>8. RevInv' BY <1>1, <1>3, <1>5 DEF ProtocolInv, RevInv, Asking, AskedNothing, At, Still
<1>9. TurnInv' BY <1>1, <1>3, <1>5 DEF ProtocolInv, TurnInv, At, Still
<1>10. DeliveredAsSent' BY <1>1 DEF ProtocolInv, DeliveredAsSent, Still
<1> QED BY <1>3, <1>5, <1>7, <1>8, <1>9, <1>10 DEF ProtocolInv

(* The sender in its insert stage: nothing moves between the ends.         *)
LEMMA InsertFrameSend ==
  ASSUME TransferInv, Still, active_fds["s"], stage["s"] = "INSERT_OUTBOUND_FINGERPRINTS",
         stage'["s"] \in {"INSERT_OUTBOUND_FINGERPRINTS", "SEND_FINGERPRINT_HEADER"},
         stage'["r"] = stage["r"], i'["r"] = i["r"]
  PROVE  ProtocolInv'
<1>1. TypeOK /\ DeliveredAsSent /\ FwdInv /\ RevInv /\ SendInv /\ RecvInv /\ TurnInv
  BY DEF TransferInv
<1>2. RecvSame /\ SentGrows BY DEF RecvSame, Still, SentGrows
<1>3. /\ R' = R /\ RPos' = RPos /\ Missing' = Missing /\ ContentRecvd' = ContentRecvd /\ RecvInv'
  BY <1>1, <1>2, RecvFrame
<1>4. S' = S /\ R \in Nat /\ S \in Nat BY <1>1, Counts DEF S, Still
<1>5. \A k : SenderDone(k)' = SenderDone(k) BY <1>4 DEF SenderDone
<1>6. SPos' = SPos
  <2>1. SendAt = 1 /\ SendAt' = 1 BY DEF SendAt
  <2> QED BY <1>4, <2>1 DEF SPos, StartOf, Still
<1>7. ContentAhead' = ContentAhead
  <2>1. ContentSent' = ContentSent BY <1>3, <1>4 DEF ContentSent, SenderDone
  <2> QED BY <1>3, <2>1 DEF ContentAhead, At, Still
<1>8. FwdInv' BY <1>3, <1>6, <1>7, FwdStay DEF Still
<1>9. RevInv' BY <1>1 DEF RevInv, Still
<1>10. TurnInv' BY <1>1, <1>3, <1>4, <1>5 DEF TurnInv, At, Still
<1>11. SendInv' BY <1>1, <1>4 DEF SendInv, SendFpStages, SendStages, Still
<1>12. DeliveredAsSent' BY <1>1 DEF DeliveredAsSent, Still
<1> QED BY <1>3, <1>8, <1>9, <1>10, <1>11, <1>12 DEF ProtocolInv

(* When all that was missing is received, the buffer is the message. *)
LEMMA BufferComplete ==
  ASSUME TypeOK, DeliveredAsSent, RecvInv, active_fds["r"], stage["r"] \in RecvKnown,
         stage["r"] # "POPULATE_FROM_NET_CACHE",
         recv_req.content_ind = Len(recv_req.missing) + 1, recv_req.content_offset = 0
  PROVE  CompleteInv
<1>1. /\ sent[R] \in Messages /\ recv_req.packaged = ChunksOf[sent[R]]
      /\ recv_req.packaged \in Seq(Fingerprints)
      /\ Missing \in Seq(Fingerprints) /\ Len(Missing) = Len(recv_req.missing)
      /\ Len(Missing) \in Nat
  BY MissingFacts
<1>2. FilledInv BY DEF RecvInv
<1>3. LookedUp = Len(recv_req.packaged) /\ Len(recv_req.packaged) \in Nat BY <1>1 DEF LookedUp
<1>4. \A j \in 1 .. Len(recv_req.packaged) : \A q : Filled(j, q)
  BY <1>1, <1>3 DEF Filled
<1>5. \A p \in 1 .. Size(ChunksOf[sent[R]]) :
        \/ recv_req.app_buffer[p] = Data(ChunksOf[sent[R]])[p]
        \/ R \in torn /\ recv_req.app_buffer[p] = Junk
  <2> TAKE p \in 1 .. Size(ChunksOf[sent[R]])
  <2> DEFINE fps == recv_req.packaged
  <2>1. p \in 1 .. Size(fps) /\ fps \in Seq(Fingerprints) BY <1>1
  <2>2. \A j \in 1 .. Len(fps) : \A q \in 1 .. ContentSize[fps[j]] :
          \/ recv_req.app_buffer[OffsetOf(fps, j) + q] = <<fps[j], q>>
          \/ R \in torn /\ recv_req.app_buffer[OffsetOf(fps, j) + q] = Junk
    BY <1>2, <1>4 DEF FilledInv
  <2> HIDE DEF fps
  <2>3. PICK j \in 1 .. Len(fps) : \E q \in 1 .. ContentSize[fps[j]] : p = OffsetOf(fps, j) + q
    BY <2>1, ByteWhere
  <2>4. PICK q \in 1 .. ContentSize[fps[j]] : p = OffsetOf(fps, j) + q BY <2>3
  <2>5. Data(fps)[p] = <<fps[j], q>> BY <2>1, <2>4, DataAt
  <2>6. \/ recv_req.app_buffer[p] = <<fps[j], q>>
        \/ R \in torn /\ recv_req.app_buffer[p] = Junk
    BY <2>2, <2>4
  <2> QED BY <1>1, <2>5, <2>6 DEF fps
<1>6. recv_req.app_filled_size = Size(ChunksOf[sent[R]])
  <2>1. ContentRecvd = Size(Missing) /\ Size(Missing) \in Nat
    <3>1. OffsetOf(Missing, Len(Missing) + 1) = Size(Missing) /\ Size(Missing) \in Nat
      BY <1>1, OffsetFacts
    <3> QED BY <1>1, <3>1 DEF ContentRecvd
  <2>2. recv_req.app_filled_size + (Size(Missing) - ContentRecvd)
          = SizeUpTo(recv_req.packaged, LookedUp)
    BY <1>2 DEF FilledInv
  <2>3. recv_req.app_filled_size \in Nat BY DEF TypeOK, RecvReqs
  <2>4. recv_req.app_filled_size = SizeUpTo(recv_req.packaged, LookedUp) BY <2>1, <2>2, <2>3
  <2> QED BY <1>1, <1>3, <2>4 DEF Size
<1> QED BY <1>5, <1>6 DEF CompleteInv

(* The receiver in its insert stage: nothing moves between the ends.       *)
LEMMA InsertFrameRecv ==
  ASSUME TransferInv, Still, active_fds["r"], stage["r"] = "INSERT_INBOUND_FINGERPRINTS",
         stage'["r"] \in {"INSERT_INBOUND_FINGERPRINTS", "RECV_COMPLETE"},
         stage'["s"] = stage["s"], i'["s"] = i["s"]
  PROVE  ProtocolInv'
<1>1. TypeOK /\ DeliveredAsSent /\ FwdInv /\ RevInv /\ SendInv /\ RecvInv /\ TurnInv
  BY DEF TransferInv
<1>2. stage["r"] \in RecvKnown BY DEF RecvKnown, RecvFpStages, RecvFirst, RecvStages
<1>3. R' = R /\ R \in Nat \ {0} /\ S \in Nat /\ R <= S BY <1>1, Counts DEF R, Still, RecvInv
<1>4. stage["s"] # "SEND_MISSING_CONTENT"
  BY <1>1 DEF SendInv, SendContentInv, At
<1>5. SendSame BY DEF SendSame, Still
<1>6. S' = S /\ SPos' = SPos /\ SendInv' /\ \A k : SenderDone(k)' = SenderDone(k)
  BY <1>1, <1>4, <1>5, SendFrame
<1>7. RPos' = RPos
  <2>1. RecvAt = MsgLen(sent[R]) /\ RecvAt' = MsgLen(sent[R]) BY <1>3 DEF RecvAt, Still
  <2> QED BY <1>3, <2>1 DEF RPos, StartOf, Still
<1>8. ContentAhead' = ContentAhead BY DEF ContentAhead, At
<1>9. Missing' = Missing /\ ContentRecvd' = ContentRecvd BY DEF Missing, ContentRecvd, Still
<1>10. FwdInv' BY <1>6, <1>7, <1>8, <1>9, FwdStay DEF Still
<1>11. ~ SenderDone(S) /\ S > 0 /\ IsFingerprinted(sent[S]) => R < S BY <1>1, <1>3 DEF TurnInv
<1>12. TurnInv'
  <2>1. \A k \in R' .. S' : SenderDone(k)' /\ IsFingerprinted(sent'[k]) =>
          /\ k = R' /\ active_fds'["r"]
          /\ stage'["r"] \in {"RECV_MISSING_CONTENT", "INSERT_INBOUND_FINGERPRINTS",
                              "RECV_COMPLETE"}
    BY <1>1, <1>3, <1>6 DEF TurnInv, Still
  <2>2. ~ SenderDone(S)' /\ S' > 0 /\ IsFingerprinted(sent'[S']) => R' < S'
    BY <1>3, <1>6, <1>11 DEF Still, SenderDone
  <2> QED BY <2>1, <2>2 DEF TurnInv
<1>13. RevInv'
  <2>1. CASE stage["s"] = "RECV_MISSING_FINGERPRINT_HEADER"
    <3>1. IsFingerprinted(sent[S]) /\ ~ SenderDone(S)
      BY <1>1, <1>3, <2>1 DEF SendInv, SendFpStages, SendStages, SenderDone
    <3>2. R < S BY <1>3, <1>11, <3>1
    <3>3. rev = <<>> BY <1>1, <1>3, <2>1, <3>2 DEF RevInv, AskedNothing
    <3> QED BY <1>3, <1>6, <2>1, <3>2, <3>3 DEF RevInv, AskedNothing, Still
  <2>2. CASE stage["s"] = "RECV_MISSING_FINGERPRINTS"
    BY <1>1, <2>2 DEF RevInv, Asking, At
  <2>3. CASE stage["s"] \notin {"RECV_MISSING_FINGERPRINT_HEADER", "RECV_MISSING_FINGERPRINTS"}
    BY <1>1, <2>3 DEF RevInv, Still
  <2> QED BY <2>1, <2>2, <2>3
<1>14. RecvInv'
  <2>1. ListInv /\ FilledInv /\ ProgressInv /\ IsFingerprinted(sent[R])
        /\ recv_req.header = HeaderOf(sent[R])
    BY <1>1, <1>2 DEF RecvInv, RecvKnown
  <2>2. CASE stage'["r"] = "INSERT_INBOUND_FINGERPRINTS"
    <3>1. LookedUp' = LookedUp BY <2>2 DEF LookedUp, Still
    <3>2. \A j, q : Filled(j, q)' = Filled(j, q) BY <3>1 DEF Filled, Still
    <3>3. ListInv' BY <1>3, <2>1, <2>2, <3>1 DEF ListInv, Still
    <3>4. FilledInv' BY <1>3, <1>9, <2>1, <3>1, <3>2 DEF FilledInv, Still
    <3>5. ProgressInv' BY <2>1, <2>2 DEF ProgressInv, Still
    <3> QED BY <1>2, <1>3, <1>6, <2>1, <2>2, <3>3, <3>4, <3>5
        DEF RecvInv, RecvFirst, At, Still, RecvFpStages, RecvStages
  <2>3. CASE stage'["r"] = "RECV_COMPLETE"
    <3>1. recv_req.content_ind = Len(recv_req.missing) + 1 /\ recv_req.content_offset = 0
      BY <2>1 DEF ProgressInv
    <3>2. CompleteInv BY <1>1, <1>2, <3>1, BufferComplete
    <3>3. CompleteInv' BY <1>3, <3>2 DEF CompleteInv, Still
    <3> QED BY <1>3, <1>6, <2>1, <2>3, <3>3
        DEF RecvInv, RecvFirst, RecvKnown, RecvFpStages, At, Still
  <2> QED BY <2>2, <2>3
<1>15. DeliveredAsSent' BY <1>1 DEF DeliveredAsSent, Still
<1> QED BY <1>6, <1>10, <1>12, <1>13, <1>14, <1>15 DEF ProtocolInv

(* The content of a chunk. *)
LEMMA ContentSeq ==
  ASSUME NEW f \in Fingerprints
  PROVE  Content(f) \in Seq(Units) /\ Len(Content(f)) = ContentSize[f] /\ Content(f) # Absent
<1>1. ContentSize[f] \in Nat \ {0} BY TransferAssumption
<1>2. Content(f) \in [1 .. ContentSize[f] -> Units] BY <1>1 DEF Content, Units
<1>3. Len(Content(f)) = ContentSize[f] BY <1>1, <1>2
<1>4. IsSeq(Content(f)) BY <1>1, <1>2, <1>3 DEF IsSeq
<1>5. Content(f) \in Seq(Units) BY <1>2, <1>3, <1>4, SeqOfMembers
<1>6. Content(f) # <<>> BY <1>1, <1>3, <1>4, LenZero
<1> QED BY <1>3, <1>5, <1>6 DEF Absent

(* What an insertion of the right content does to the caches. *)
LEMMA InsertEffect ==
  ASSUME TypeOK, CachesRight, NEW h \in Hosts, NEW f \in Fingerprints, NEW content,
         content = Content(f), Insert(h, f, content)
  PROVE  /\ cache' \in [Hosts -> [Fingerprints -> Seq(Units)]]
         /\ CachesRight' /\ CacheGrows /\ cache'[h][f] # Absent
<1>1. cache \in [Hosts -> [Fingerprints -> Seq(Units)]] BY DEF TypeOK
<1> DEFINE new == IF cache[h][f] = Absent THEN Content(f) ELSE cache[h][f]
<1>2. new \in Seq(Units) /\ new \in {Absent, Content(f)} /\ new # Absent
  BY <1>1, ContentSeq DEF CachesRight
<1>3. cache' = [cache EXCEPT ![h] = [cache[h] EXCEPT ![f] = new]] BY DEF Insert
<1> HIDE DEF new
<1>4. cache' \in [Hosts -> [Fingerprints -> Seq(Units)]] BY <1>1, <1>2, <1>3
<1>5. \A g \in Hosts : \A d \in Fingerprints :
        cache'[g][d] = IF g = h /\ d = f THEN new ELSE cache[g][d]
  BY <1>1, <1>3
<1>6. CachesRight' BY <1>2, <1>5 DEF CachesRight
<1>7. CacheGrows BY <1>2, <1>5 DEF CacheGrows
<1> QED BY <1>2, <1>4, <1>5, <1>6, <1>7

(* The content that a step of an insert stage inserts; the receiver inserts *)
(* what was missing, and that is never torn.                               *)
LEMMA InsertedContent ==
  ASSUME TransferInv, NEW e \in Ends, At(e, InsertStage(e)), i[e] \in 1 .. Len(ToInsert(e))
  PROVE  /\ ToInsert(e)[i[e]] \in Fingerprints
         /\ [k \in 1 .. ContentSize[ToInsert(e)[i[e]]] |-> BufferToInsert(e)[SlotToInsert(e) + k]]
              = Content(ToInsert(e)[i[e]])
<1>1. TypeOK /\ DeliveredAsSent /\ SendInv /\ RecvInv BY DEF TransferInv
<1>2. CASE e = "s"
  <2> DEFINE fps == send_req.packaged
             j == i["s"]
  <2>1. send_req.packaged = send_req.chunks /\ fps \in Seq(Fingerprints)
    BY <1>1, <1>2 DEF SendInv, At, InsertStage, SendFpStages, SendStages, TypeOK, SendReqs
  <2>2. /\ ToInsert(e) = fps /\ BufferToInsert(e) = Data(fps) /\ SlotToInsert(e) = OffsetOf(fps, j)
        /\ j \in 1 .. Len(fps) /\ i[e] = j
    BY <1>2, <2>1 DEF ToInsert, BufferToInsert, SlotToInsert
  <2> HIDE DEF fps, j
  <2>3. fps[j] \in Fingerprints BY <2>1, <2>2
  <2>4. \A q \in 1 .. ContentSize[fps[j]] : Data(fps)[OffsetOf(fps, j) + q] = <<fps[j], q>>
    BY <2>1, <2>2, DataAt
  <2> QED BY <2>2, <2>3, <2>4 DEF Content
<1>3. CASE e = "r"
  <2> DEFINE fps == recv_req.packaged
             c == i["r"]
             j == recv_req.missing[c]
  <2>1. active_fds["r"] /\ stage["r"] = "INSERT_INBOUND_FINGERPRINTS" /\ stage["r"] \in RecvKnown
    BY <1>3 DEF At, InsertStage, RecvKnown, RecvFpStages, RecvFirst, RecvStages
  <2>2. /\ fps \in Seq(Fingerprints) /\ recv_req.missing \in Seq(Nat)
        /\ \A k \in 1 .. Len(recv_req.missing) : recv_req.missing[k] \in 1 .. Len(fps)
    BY <1>1, <2>1, MissingFacts DEF TypeOK, RecvReqs
  <2>3. ListInv /\ FilledInv /\ ProgressInv BY <1>1, <2>1 DEF RecvInv
  <2>4. /\ recv_req.num_missing = Len(recv_req.missing) /\ Len(recv_req.missing) \in Nat
        /\ recv_req.content_ind = Len(recv_req.missing) + 1
    BY <2>1, <2>2, <2>3 DEF ListInv, ProgressInv
  <2>5. Len(ToInsert(e)) = Len(recv_req.missing) BY <1>3, <2>4 DEF ToInsert
  <2>6. c \in 1 .. Len(recv_req.missing) BY <1>3, <2>5
  <2>7. /\ ToInsert(e)[i[e]] = fps[j] /\ BufferToInsert(e) = recv_req.app_buffer
        /\ SlotToInsert(e) = OffsetOf(fps, j)
    BY <1>3, <2>4, <2>6 DEF ToInsert, BufferToInsert, SlotToInsert
  <2>8. j \in 1 .. Len(fps) /\ fps[j] \in Fingerprints BY <2>2, <2>6
  <2>9. \A q : Filled(j, q)
    <3>1. LookedUp = Len(fps) BY <2>1 DEF LookedUp
    <3> QED BY <2>2, <2>4, <2>8, <3>1 DEF Filled
  <2>10. \A q \in 1 .. ContentSize[fps[j]] :
           recv_req.app_buffer[OffsetOf(fps, j) + q] = <<fps[j], q>>
    BY <2>3, <2>6, <2>8, <2>9 DEF FilledInv
  <2> HIDE DEF fps, j
  <2> QED BY <2>7, <2>8, <2>10 DEF Content
<1> QED BY <1>2, <1>3 DEF Ends

(* The steps on the cache, by what they do to it. *)
LEMMA AnnouncedStays ==
  ASSUME TransferInv, Still, CacheGrows,
         to_skip_insert_cache["s"] => to_skip_insert_cache'["s"],
         \A j : PastInsert(j)' => PastInsert(j)
  PROVE  AnnouncedInv'
<1>1. TypeOK /\ AnnouncedInv BY DEF TransferInv
<1>2. HostHasAll' BY <1>1 DEF AnnouncedInv, HostHasAll, Still
<1>3. ASSUME active_fds'["s"], ~ to_skip_insert_cache'["s"],
             NEW j \in 1 .. Len(send_req'.packaged), PastInsert(j)'
      PROVE  cache'[HostOf["s"]][send_req'.packaged[j]] # Absent
  <2>1. PastInsert(j) BY <1>3
  <2>2. send_req.packaged \in Seq(Fingerprints) BY <1>1 DEF TypeOK, SendReqs
  <2>3. j \in 1 .. Len(send_req.packaged) BY DEF Still
  <2>4. send_req.packaged[j] \in Fingerprints BY <2>2, <2>3
  <2>5. cache[HostOf["s"]][send_req.packaged[j]] # Absent
    BY <1>1, <1>3, <2>1, <2>3 DEF AnnouncedInv, Still
  <2>6. HostOf["s"] \in Hosts BY DEF Hosts, Ends
  <2> QED BY <2>4, <2>5, <2>6 DEF CacheGrows, Still
<1> QED BY <1>2, <1>3 DEF AnnouncedInv

(* Other connections of a host take the lock, insert, and give it back, or *)
(* stop the inserts of their process.                                      *)
LEMMA OthersStepKeeps ==
  ASSUME TransferInv, OthersStep
  PROVE  TransferInv'
<1>1. TypeOK /\ CachesRight /\ LockInv BY DEF TransferInv
<1>2. \/ \E h \in SharedHosts :
            \/ LockByOthers(h) \/ UnlockByOthers(h)
            \/ \E f \in Fingerprints : InsertByOthers(h, f)
      \/ \E e \in Ends : SkipByOthers(e)
  BY DEF OthersStep
<1>3. SharedHosts \subseteq Hosts BY TransferAssumption
<1>4. Still /\ stage' = stage /\ i' = i /\ trying' = trying /\ astray' = astray
  BY <1>2 DEF LockByOthers, UnlockByOthers, InsertByOthers, SkipByOthers, Still, netVars
<1>5. ProtocolInv' BY <1>4, QuietFrame
<1>6. /\ cache' \in [Hosts -> [Fingerprints -> Seq(Units)]] /\ CachesRight' /\ CacheGrows
  <2>1. CASE cache' = cache BY <1>1, <2>1 DEF TypeOK, CachesRight, CacheGrows
  <2>2. ASSUME NEW h \in SharedHosts, NEW f \in Fingerprints, InsertByOthers(h, f)
        PROVE  /\ cache' \in [Hosts -> [Fingerprints -> Seq(Units)]]
               /\ CachesRight' /\ CacheGrows
    <3>1. Insert(h, f, Content(f)) BY <2>2 DEF InsertByOthers
    <3>2. h \in Hosts BY <1>3
    <3> QED BY <1>1, <3>1, <3>2, InsertEffect
  <2> QED BY <1>2, <2>1, <2>2 DEF LockByOthers, UnlockByOthers, SkipByOthers
<1>7. /\ cache_lock' \in [Hosts -> Ends \cup {Free, Others}]
      /\ \A g \in Hosts : cache_lock'[g] \in Ends => cache_lock'[g] = cache_lock[g]
  <2>1. CASE cache_lock' = cache_lock BY <1>1, <2>1 DEF TypeOK
  <2>2. CASE \E h \in SharedHosts, v \in {Free, Others} : cache_lock' = [cache_lock EXCEPT ![h] = v]
    BY <1>1, <1>3, <2>2, TransferAssumption DEF TypeOK
  <2> QED BY <1>2, <2>1, <2>2 DEF LockByOthers, UnlockByOthers, InsertByOthers, SkipByOthers
<1>8. /\ to_skip_insert_cache' \in [Ends -> BOOLEAN]
      /\ \A e \in Ends : to_skip_insert_cache[e] => to_skip_insert_cache'[e]
  <2>1. to_skip_insert_cache \in [Ends -> BOOLEAN] BY <1>1 DEF TypeOK
  <2>2. \/ to_skip_insert_cache' = to_skip_insert_cache
        \/ \E e \in Ends : to_skip_insert_cache' = [to_skip_insert_cache EXCEPT ![e] = TRUE]
    BY <1>2 DEF LockByOthers, UnlockByOthers, InsertByOthers, SkipByOthers
  <2> QED BY <2>1, <2>2, Zenon
<1>9. TypeOK' BY <1>1, <1>4, <1>6, <1>7, <1>8 DEF TypeOK, Still
<1>10. \A e \in Ends : HostOf[e] \in Hosts BY DEF Hosts
<1>11. LockInv' BY <1>1, <1>4, <1>7, <1>10 DEF LockInv, At, Still
<1>12. \A j : PastInsert(j)' => PastInsert(j)
  BY <1>4, <1>7, <1>10 DEF PastInsert, Ends
<1>13. AnnouncedInv' BY <1>4, <1>6, <1>8, <1>12, AnnouncedStays DEF Ends
<1> QED BY <1>5, <1>6, <1>9, <1>11, <1>13 DEF TransferInv, ProtocolInv

(* The insert stages of both ends, with the lock tried, taken and given    *)
(* back.                                                                   *)
LEMMA InsertStepKeeps ==
  ASSUME TransferInv, NEW e \in Ends, InsertStep(e)
  PROVE  TransferInv'
<1>1. /\ TypeOK /\ CachesRight /\ LockInv /\ AnnouncedInv /\ SendInv
  BY DEF TransferInv
<1>2. At(e, InsertStage(e))
  BY <1>1 DEF InsertStep, TestSkip, TryLock, TryLockFails, InsertFingerprint, CacheIsFull, Unlock, LockInv
<1>3. Still
  BY DEF InsertStep, TestSkip, TryLock, TryLockFails, InsertFingerprint, CacheIsFull, Unlock, Still, netVars
<1>4. /\ stage' = stage \/ stage' = [stage EXCEPT ![e] = AfterInsert(e)]
      /\ i' = i \/ i' = [i EXCEPT ![e] = 1] \/ i' = [i EXCEPT ![e] = i[e] + 1]
  BY DEF InsertStep, TestSkip, TryLock, TryLockFails, InsertFingerprint, CacheIsFull, Unlock, Goto
<1>5. /\ stage \in [Ends -> SendStages \cup RecvStages] /\ i \in [Ends -> Nat]
      /\ stage["s"] \in SendStages /\ stage["r"] \in RecvStages
  BY <1>1 DEF TypeOK
<1>6. AfterInsert("s") \in SendStages /\ AfterInsert("r") \in RecvStages
      /\ AfterInsert(e) \in SendStages \cup RecvStages
  BY DEF AfterInsert, SendStages, RecvStages, Ends
<1>7. /\ stage'[e] \in {InsertStage(e), AfterInsert(e)}
      /\ \A d \in Ends : d # e => stage'[d] = stage[d] /\ i'[d] = i[d]
  BY <1>2, <1>4, <1>5 DEF At
<1>8. stage' \in [Ends -> SendStages \cup RecvStages] BY <1>4, <1>5, <1>6
<1>9. i' \in [Ends -> Nat]
  <2>1. i[e] + 1 \in Nat BY <1>5
  <2> QED BY <1>4, <1>5, <2>1
<1>10. stage'["s"] \in SendStages /\ stage'["r"] \in RecvStages
  BY <1>4, <1>5, <1>6 DEF Ends
<1>11. ProtocolInv'
  <2>1. CASE e = "s" BY <1>2, <1>3, <1>7, <2>1, InsertFrameSend DEF At, InsertStage, AfterInsert, Ends
  <2>2. CASE e = "r" BY <1>2, <1>3, <1>7, <2>2, InsertFrameRecv DEF At, InsertStage, AfterInsert, Ends
  <2> QED BY <2>1, <2>2 DEF Ends
<1>12. HostOf["s"] \in Hosts /\ HostOf[e] \in Hosts /\ \A d \in Ends : HostOf[d] \in Hosts
  BY DEF Hosts, Ends
<1>13. InsertFingerprint(e) =>
         /\ i[e] \in 1 .. Len(ToInsert(e)) /\ ToInsert(e)[i[e]] \in Fingerprints
         /\ cache' \in [Hosts -> [Fingerprints -> Seq(Units)]] /\ CachesRight' /\ CacheGrows
         /\ cache'[HostOf[e]][ToInsert(e)[i[e]]] # Absent
  <2> SUFFICES ASSUME InsertFingerprint(e)
               PROVE  /\ i[e] \in 1 .. Len(ToInsert(e)) /\ ToInsert(e)[i[e]] \in Fingerprints
                      /\ cache' \in [Hosts -> [Fingerprints -> Seq(Units)]]
                      /\ CachesRight' /\ CacheGrows
                      /\ cache'[HostOf[e]][ToInsert(e)[i[e]]] # Absent
    OBVIOUS
  <2>1. i[e] \in 1 .. Len(ToInsert(e))
    <3>1. i[e] > 0 /\ i[e] <= Len(ToInsert(e)) BY <1>1 DEF InsertFingerprint, LockInv
    <3> QED BY <1>5, <3>1
  <2>2. Insert(HostOf[e], ToInsert(e)[i[e]],
               [k \in 1 .. ContentSize[ToInsert(e)[i[e]]] |-> BufferToInsert(e)[SlotToInsert(e) + k]])
    BY DEF InsertFingerprint
  <2>3. /\ ToInsert(e)[i[e]] \in Fingerprints
        /\ [k \in 1 .. ContentSize[ToInsert(e)[i[e]]] |-> BufferToInsert(e)[SlotToInsert(e) + k]]
             = Content(ToInsert(e)[i[e]])
    BY <1>2, <2>1, InsertedContent
  <2>4. Insert(HostOf[e], ToInsert(e)[i[e]], Content(ToInsert(e)[i[e]])) BY <2>2, <2>3, Zenon
  <2> QED BY <1>1, <1>12, <2>1, <2>3, <2>4, InsertEffect
<1>14. /\ cache' \in [Hosts -> [Fingerprints -> Seq(Units)]] /\ CachesRight' /\ CacheGrows
  <2>1. cache' = cache \/ InsertFingerprint(e)
    BY DEF InsertStep, TestSkip, TryLock, TryLockFails, CacheIsFull, Unlock, cacheVars
  <2>2. CASE cache' = cache BY <1>1, <2>2 DEF TypeOK, CachesRight, CacheGrows
  <2> QED BY <1>13, <2>1, <2>2
<1>15. /\ cache_lock \in [Hosts -> Ends \cup {Free, Others}]
       /\ to_skip_insert_cache \in [Ends -> BOOLEAN]
  BY <1>1 DEF TypeOK
<1>16. \/ cache_lock' = cache_lock
       \/ cache_lock' = [cache_lock EXCEPT ![HostOf[e]] = e] /\ TryLock(e)
       \/ cache_lock' = [cache_lock EXCEPT ![HostOf[e]] = Free]
  BY DEF InsertStep, TestSkip, TryLock, TryLockFails, InsertFingerprint, CacheIsFull, Unlock, cacheVars
<1>17. \/ to_skip_insert_cache' = to_skip_insert_cache
       \/ to_skip_insert_cache' = [to_skip_insert_cache EXCEPT ![e] = TRUE] /\ CacheIsFull(e)
  BY DEF InsertStep, TestSkip, TryLock, TryLockFails, InsertFingerprint, CacheIsFull, Unlock, cacheVars
<1>18. /\ cache_lock' \in [Hosts -> Ends \cup {Free, Others}]
       /\ to_skip_insert_cache' \in [Ends -> BOOLEAN]
       /\ \A d \in Ends : d # e => to_skip_insert_cache'[d] = to_skip_insert_cache[d]
  <2>1. cache_lock' \in [Hosts -> Ends \cup {Free, Others}] BY <1>12, <1>15, <1>16
  <2>2. to_skip_insert_cache' \in [Ends -> BOOLEAN]
    BY <1>15, <1>17, Zenon
  <2>3. \A d \in Ends : d # e => to_skip_insert_cache'[d] = to_skip_insert_cache[d]
    BY <1>15, <1>17, Zenon
  <2> QED BY <2>1, <2>2, <2>3
<1>19. TypeOK'
  <2>1. trying' \in SUBSET Ends /\ astray' \in [Ends -> BOOLEAN]
    BY <1>1 DEF TypeOK, InsertStep, TestSkip, TryLock, TryLockFails, InsertFingerprint,
                CacheIsFull, Unlock
  <2> QED BY <1>1, <1>3, <1>8, <1>9, <1>10, <1>14, <1>18, <2>1 DEF TypeOK, Still
<1>20. \A d \in Ends : d # e /\ cache_lock'[HostOf[d]] = d => cache_lock[HostOf[d]] = d
  BY <1>12, <1>15, <1>16, TransferAssumption
<1>21. LockInv'
  <2>1. ASSUME NEW d \in Ends, d # e
        PROVE  /\ d \in trying' => At(d, InsertStage(d))'
               /\ cache_lock'[HostOf[d]] = d => At(d, InsertStage(d))' /\ i'[d] > 0 /\ d \notin trying'
    <3>1. d \in trying' <=> d \in trying
      BY <2>1 DEF InsertStep, TestSkip, TryLock, TryLockFails, InsertFingerprint, CacheIsFull, Unlock
    <3> QED BY <1>1, <1>3, <1>7, <1>20, <2>1, <3>1 DEF LockInv, At, Still
  <2>2. /\ e \in trying' => At(e, InsertStage(e))'
        /\ cache_lock'[HostOf[e]] = e => At(e, InsertStage(e))' /\ i'[e] > 0 /\ e \notin trying'
    <3>1. CASE TestSkip(e) BY <1>1, <3>1 DEF TestSkip, LockInv, At
    <3>2. CASE TryLock(e) BY <1>2, <1>5, <3>2 DEF TryLock, At
    <3>3. CASE TryLockFails(e) BY <1>1, <3>3 DEF TryLockFails, LockInv
    <3>4. CASE InsertFingerprint(e)
      BY <1>1, <1>2, <1>5, <3>4 DEF InsertFingerprint, At, LockInv
    <3>5. CASE CacheIsFull(e) \/ Unlock(e)
      <4>1. cache_lock'[HostOf[e]] # e
        BY <1>12, <1>15, <3>5, TransferAssumption DEF CacheIsFull, Unlock
      <4>2. e \notin trying' BY <1>1, <3>5 DEF CacheIsFull, Unlock, LockInv
      <4> QED BY <4>1, <4>2
    <3> QED BY <3>1, <3>2, <3>3, <3>4, <3>5 DEF InsertStep
  <2> QED BY <2>1, <2>2 DEF LockInv
<1>22. AnnouncedInv'
  <2>1. CASE e = "r"
    <3>1. \A j : PastInsert(j)' => PastInsert(j)
      BY <1>7, <1>20, <2>1 DEF PastInsert, Ends
    <3>2. to_skip_insert_cache'["s"] = to_skip_insert_cache["s"] BY <1>18, <2>1 DEF Ends
    <3> QED BY <1>3, <1>14, <3>1, <3>2, AnnouncedStays
  <2>2. CASE e = "s"
    <3>1. ASSUME to_skip_insert_cache'["s"] PROVE AnnouncedInv'
      BY <3>1 DEF AnnouncedInv, HostHasAll
    <3>2. CASE TestSkip(e) \/ TryLockFails(e)
      <4>1. to_skip_insert_cache' = to_skip_insert_cache BY <3>2 DEF TestSkip, TryLockFails
      <4>2. to_skip_insert_cache["s"] \/ stage' = stage
        BY <2>2, <3>2 DEF TestSkip, TryLockFails
      <4>3. cache_lock' = cache_lock /\ i' = i BY <3>2 DEF TestSkip, TryLockFails
      <4>4. stage' = stage => \A j : PastInsert(j)' => PastInsert(j) BY <4>3 DEF PastInsert
      <4> QED BY <1>3, <1>14, <3>1, <4>1, <4>2, <4>4, AnnouncedStays
    <3>3. CASE CacheIsFull(e) BY <1>15, <2>2, <3>1, <3>3 DEF CacheIsFull, Ends
    <3>4. CASE TryLock(e)
      <4>1. i'["s"] = 1 BY <1>5, <2>2, <3>4 DEF TryLock, Ends
      <4>2. stage'["s"] = "INSERT_OUTBOUND_FINGERPRINTS"
        BY <1>2, <2>2, <3>4 DEF TryLock, At, InsertStage
      <4>3. \A j \in 1 .. Len(send_req'.packaged) : ~ PastInsert(j)'
        BY <4>1, <4>2 DEF PastInsert
      <4>4. HostHasAll'
        BY <1>1, <3>4 DEF AnnouncedInv, HostHasAll, TryLock
      <4> QED BY <4>3, <4>4 DEF AnnouncedInv
    <3>5. CASE Unlock(e)
      <4>1. /\ cache_lock[HostOf["s"]] = "s" /\ i["s"] > Len(send_req.packaged)
            /\ to_skip_insert_cache' = to_skip_insert_cache
        BY <2>2, <3>5 DEF Unlock, ToInsert
      <4>2. Len(send_req.packaged) \in Nat /\ i["s"] \in Nat
        BY <1>1, <1>5 DEF TypeOK, SendReqs, Ends
      <4>3. \A j \in 1 .. Len(send_req.packaged) : PastInsert(j) BY <4>1, <4>2 DEF PastInsert
      <4>4. \A j \in 1 .. Len(send_req.packaged) :
              active_fds["s"] /\ ~ to_skip_insert_cache["s"] =>
                cache[HostOf["s"]][send_req.packaged[j]] # Absent
        BY <1>1, <4>3 DEF AnnouncedInv
      <4>5. cache' = cache BY <3>5 DEF Unlock
      <4>6. HostHasAll'
        BY <1>1, <1>3, <4>1 DEF AnnouncedInv, HostHasAll, Still
      <4> QED BY <1>3, <4>1, <4>4, <4>5, <4>6 DEF AnnouncedInv, Still
    <3>6. CASE InsertFingerprint(e)
      <4>1. /\ cache_lock[HostOf["s"]] = "s" /\ to_skip_insert_cache' = to_skip_insert_cache
            /\ stage' = stage /\ i'["s"] = i["s"] + 1 /\ cache_lock' = cache_lock
        BY <1>5, <2>2, <3>6 DEF InsertFingerprint, Ends
      <4>2. ToInsert(e) = send_req.packaged BY <2>2 DEF ToInsert
      <4>3. cache'[HostOf["s"]][send_req.packaged[i["s"]]] # Absent
        BY <1>13, <2>2, <3>6, <4>2
      <4>4. HostHasAll'
        BY <1>1, <1>3, <4>1 DEF AnnouncedInv, HostHasAll, Still
      <4>5. ASSUME active_fds["s"], ~ to_skip_insert_cache["s"],
                   NEW j \in 1 .. Len(send_req.packaged), PastInsert(j)'
            PROVE  cache'[HostOf["s"]][send_req.packaged[j]] # Absent
        <5>1. CASE j = i["s"] BY <4>3, <5>1
        <5>2. CASE j # i["s"]
          <6>1. PastInsert(j) BY <1>5, <4>1, <4>5, <5>2 DEF PastInsert, Ends
          <6>2. cache[HostOf["s"]][send_req.packaged[j]] # Absent BY <1>1, <4>5, <6>1 DEF AnnouncedInv
          <6>3. send_req.packaged[j] \in Fingerprints
            <7>1. send_req.packaged \in Seq(Fingerprints) BY <1>1 DEF TypeOK, SendReqs
            <7> QED BY <7>1
          <6> QED BY <1>12, <1>14, <6>2, <6>3 DEF CacheGrows
        <5> QED BY <5>1, <5>2
      <4> QED BY <1>3, <4>1, <4>4, <4>5 DEF AnnouncedInv, Still
    <3> QED BY <3>2, <3>3, <3>4, <3>5, <3>6 DEF InsertStep
  <2> QED BY <2>1, <2>2 DEF Ends
<1> QED BY <1>11, <1>14, <1>19, <1>21, <1>22 DEF TransferInv, ProtocolInv

-----------------------------------------------------------------------------
(* Each step of the receiver keeps the invariant.                          *)

(* What the steps of the receiver have in common. *)
ReceiverStep ==
  /\ SendSame /\ CacheSame /\ stage["r"] # "INSERT_INBOUND_FINGERPRINTS"

(* What every step of process_recv leaves alone.                           *)
LEMMA ReceiverBase ==
  ASSUME TransferInv, ReceiverStep
  PROVE  /\ TypeOK /\ DeliveredAsSent /\ FwdInv /\ RevInv /\ SendInv /\ RecvInv /\ TurnInv
         /\ CachesRight /\ LockInv /\ AnnouncedInv
         /\ S' = S /\ SPos' = SPos /\ sent' = sent /\ stage'["s"] = stage["s"]
         /\ S \in Nat /\ R \in Nat \ {0} /\ R <= S + 1
         /\ \A k : StartOf(k)' = StartOf(k)
         /\ \A k : SenderDone(k)' = SenderDone(k)
         /\ CachesRight' /\ LockInv'
         /\ HostHasAll' => AnnouncedInv'
<1>1. /\ TypeOK /\ DeliveredAsSent /\ FwdInv /\ RevInv /\ SendInv /\ RecvInv /\ TurnInv
      /\ CachesRight /\ LockInv /\ AnnouncedInv
  BY DEF TransferInv
<1>2. S' = S /\ sent' = sent /\ stage'["s"] = stage["s"] BY DEF S, ReceiverStep, SendSame
<1>3. SendAt' = SendAt BY <1>2 DEF SendAt, ReceiverStep, SendSame
<1>4. \A k : StartOf(k)' = StartOf(k) BY <1>2 DEF StartOf
<1>5. SPos' = SPos BY <1>2, <1>3 DEF SPos, StartOf, ReceiverStep, SendSame
<1>6. \A k : SenderDone(k)' = SenderDone(k) BY <1>2 DEF SenderDone
<1>7. CachesRight' BY <1>1 DEF CachesRight, ReceiverStep, CacheSame
<1>8. LockInv'
  <2>1. \A e \in Ends : At(e, InsertStage(e)) => At(e, InsertStage(e))' /\ i'[e] = i[e]
    BY DEF At, InsertStage, Ends, ReceiverStep, SendSame
  <2> QED BY <1>1, <2>1, LockFrame DEF CacheSame, ReceiverStep
<1>9. HostHasAll' => AnnouncedInv'
  <2>1. \A j : PastInsert(j)' = PastInsert(j) BY DEF PastInsert, ReceiverStep, SendSame, CacheSame
  <2> QED BY <1>1, <2>1 DEF AnnouncedInv, ReceiverStep, SendSame, CacheSame
<1> QED BY <1>1, <1>2, <1>4, <1>5, <1>6, <1>7, <1>8, <1>9, Counts

(* The sender does not send content when the receiver does not take any. *)
LEMMA SendStays ==
  ASSUME TransferInv, ReceiverStep, ~ At("r", "RECV_MISSING_CONTENT")
  PROVE  SendInv' /\ stage["s"] # "SEND_MISSING_CONTENT"
<1>1. TypeOK /\ DeliveredAsSent /\ SendInv /\ SendSame BY ReceiverBase DEF ReceiverStep
<1>2. stage["s"] # "SEND_MISSING_CONTENT" BY <1>1 DEF SendInv, SendContentInv
<1> QED BY <1>1, <1>2, SendFrame

(* A step of the receiver keeps the types.                                 *)
LEMMA ReceiverType ==
  ASSUME TypeOK, ReceiverStep, active_fds' = active_fds, delivered' = delivered,
         stage'["r"] \in RecvStages,
         stage' = stage \/ \E st : stage' = [stage EXCEPT !["r"] = st],
         i' \in [Ends -> Nat], IsSocket(fwd'), IsSocket(rev'), recv_req' \in RecvReqs
  PROVE  TypeOK'
<1>1. stage \in [Ends -> SendStages \cup RecvStages] /\ stage["s"] \in SendStages BY DEF TypeOK
<1>2. stage' \in [Ends -> SendStages \cup RecvStages] /\ stage'["s"] \in SendStages
  <2>1. CASE stage' = stage BY <1>1, <2>1
  <2>2. ASSUME NEW st, stage' = [stage EXCEPT !["r"] = st]
        PROVE  stage' \in [Ends -> SendStages \cup RecvStages] /\ stage'["s"] \in SendStages
    <3>1. stage'["r"] = st /\ stage'["s"] = stage["s"] BY <1>1, <2>2 DEF Ends
    <3> QED BY <1>1, <2>2, <3>1
  <2> QED BY <2>1, <2>2
<1>3. torn' \in SUBSET Nat
  <2>1. Len(delivered) + 1 \in Nat /\ torn \in SUBSET Nat BY DEF TypeOK
  <2>2. torn' = torn \/ torn' = torn \cup {Len(delivered) + 1} BY DEF ReceiverStep, CacheSame
  <2> QED BY <2>1, <2>2
<1> QED BY <1>2, <1>3 DEF TypeOK, ReceiverStep, SendSame, CacheSame

(* The receiver takes n tokens of the stream off the wire. *)
LEMMA ReceiverPop ==
  ASSUME TransferInv, ReceiverStep, ~ At("r", "RECV_MISSING_CONTENT"), ContentAhead' = 0,
         NEW n \in Nat, Shifts(fwd, n, fwd'), RPos' = RPos + n
  PROVE  FwdInv'
<1>1. sent' = sent /\ SPos' = SPos BY ReceiverBase
<1>2. /\ IsSeq(fwd) /\ sent \in Seq(Messages) /\ ContentAhead = 0
      /\ FwdOK(fwd, ContentAhead, Missing, ContentRecvd, sent, RPos, SPos)
      /\ RPos \in Nat /\ SPos \in Nat
  BY FwdFacts
<1>3. FwdOK(fwd, 0, Missing, ContentRecvd, sent, RPos, SPos) BY <1>2
<1>4. IsSeq(fwd) /\ sent \in Seq(Messages) /\ RPos \in Nat /\ SPos \in Nat BY <1>2
<1>5. FwdOK(fwd', 0, Missing', ContentRecvd', sent, RPos + n, SPos) BY <1>3, <1>4, StreamPop
<1> QED BY <1>1, <1>5 DEF FwdInv, FwdOK

(* What the receiver reads of its message. *)
LEMMA ReceiverRead ==
  ASSUME TransferInv, ~ At("r", "RECV_MISSING_CONTENT"), active_fds["r"], R <= S,
         RecvAt \in Nat, NEW q \in 1 .. Len(fwd), RecvAt + q <= MsgLen(sent[R])
  PROVE  fwd[q] = MsgToken(sent[R], RecvAt + q)
<1>1. /\ IsSeq(fwd) /\ sent \in Seq(Messages) /\ ContentAhead = 0
      /\ FwdOK(fwd, ContentAhead, Missing, ContentRecvd, sent, RPos, SPos)
      /\ RPos \in Nat /\ SPos \in Nat
  BY FwdFacts
<1>2. FwdOK(fwd, 0, Missing, ContentRecvd, sent, RPos, SPos) BY <1>1
<1>3. IsSeq(fwd) /\ sent \in Seq(Messages) /\ RPos \in Nat /\ SPos \in Nat BY <1>1
<1>4. R \in 1 .. Len(sent)
  <2>1. TypeOK /\ DeliveredAsSent BY DEF TransferInv
  <2> QED BY <2>1, Counts DEF S
<1>5. RPos = StartAt(sent, R) + RecvAt BY DEF RPos, StartOf
<1> QED BY <1>2, <1>3, <1>4, <1>5, StreamRead

(* The stages in which the receiver knows that the sender may be done. *)
Late == {"RECV_MISSING_CONTENT", "INSERT_INBOUND_FINGERPRINTS", "RECV_COMPLETE"}

(* Whose turn it is does not change before the receiver has asked.         *)
LEMMA EarlyTurn ==
  ASSUME TransferInv, ReceiverStep, R' = R, ~ (active_fds["r"] /\ stage["r"] \in Late),
         stage'["r"] # "INSERT_INBOUND_FINGERPRINTS",
         R = S /\ IsFingerprinted(sent[S]) /\ stage'["r"] = "RECV_COMPLETE"
           => recv_req'.num_missing = 0,
         stage'["r"] = "RECV_MISSING_CONTENT" => ContentRecvd' = 0
  PROVE  TurnInv'
<1>1. /\ TurnInv /\ S' = S /\ sent' = sent /\ stage'["s"] = stage["s"]
      /\ \A k : SenderDone(k)' = SenderDone(k)
  BY ReceiverBase
<1>2. \A k \in R .. S : ~ (SenderDone(k) /\ IsFingerprinted(sent[k])) BY <1>1 DEF TurnInv, Late
<1>3. SenderDone(S)' = SenderDone(S) BY <1>1 DEF SenderDone
<1>4. ~ SenderDone(S) /\ S > 0 /\ IsFingerprinted(sent[S]) =>
        R < S \/ R = S \/ (R = S + 1 /\ stage["s"] = "RECV_MISSING_FINGERPRINT_HEADER")
  BY <1>1 DEF TurnInv
<1> QED BY <1>1, <1>2, <1>3, <1>4 DEF TurnInv, At

(* Nothing goes back to the sender before the receiver asks.               *)
LEMMA EarlyRev ==
  ASSUME TransferInv, ReceiverStep, R' = R, rev' = rev, ~ Asking, ~ Asking',
         ~ At("r", "RECV_COMPLETE"),
         ~ (At("r", "RECV_COMPLETE")' /\ R = S /\ IsFingerprinted(sent[S]))
  PROVE  RevInv'
<1>1. /\ RevInv /\ SendInv /\ S' = S /\ stage'["s"] = stage["s"] /\ S \in Nat BY ReceiverBase
<1>2. CASE stage["s"] = "RECV_MISSING_FINGERPRINT_HEADER"
  <2>1. IsFingerprinted(sent[S]) BY <1>1, <1>2 DEF SendInv, SendFpStages, SendStages
  <2>2. AskedNothing(S) <=> R = S + 1 BY DEF AskedNothing
  <2>3. (R' = S' + 1 \/ (R' = S' /\ At("r", "RECV_COMPLETE")' /\ recv_req'.num_missing = 0))
          <=> R = S + 1
    BY <1>1, <2>1
  <2> QED BY <1>1, <1>2, <2>2, <2>3 DEF RevInv, AskedNothing
<1>3. CASE stage["s"] = "RECV_MISSING_FINGERPRINTS" BY <1>1, <1>3 DEF RevInv
<1>4. CASE stage["s"] \notin {"RECV_MISSING_FINGERPRINT_HEADER", "RECV_MISSING_FINGERPRINTS"}
  BY <1>1, <1>4 DEF RevInv
<1> QED BY <1>2, <1>3, <1>4

(* The sender waits for the receiver to tell what is missing. *)
LEMMA SenderWaits ==
  ASSUME TransferInv, active_fds["r"], R <= S, IsFingerprinted(sent[R]), ~ SenderDone(R),
         RecvAt = MsgLen(sent[R]), ~ At("r", "RECV_MISSING_CONTENT"),
         stage["r"] \notin {"RECV_HEADER", "RECV_REG_DATA", "RECV_FINGERPRINT_HEADER",
                            "RECV_PACKAGED_FINGERPRINTS"}
  PROVE  /\ R = S /\ active_fds["s"]
         /\ stage["s"] \in {"RECV_MISSING_FINGERPRINT_HEADER", "RECV_MISSING_FINGERPRINTS"}
         /\ stage["s"] = "RECV_MISSING_FINGERPRINTS" => Asking
<1>1. TypeOK /\ DeliveredAsSent /\ SendInv /\ RecvInv /\ RevInv BY DEF TransferInv
<1>2. S \in Nat /\ R \in Nat \ {0} BY <1>1, Counts
<1>3. R = S /\ stage["s"] # "SEND_COMPLETE" BY <1>2 DEF SenderDone
<1>4. active_fds["s"] BY <1>1, <1>3 DEF SendInv
<1>5. SendAt \in Nat /\ SendAt <= MsgLen(sent[S]) /\ sent[S] \in Messages
  BY <1>1, <1>4, SendPosition
<1>6. MsgLen(sent[S]) \in Nat BY <1>5, MsgFacts
<1>7. SendAt = MsgLen(sent[S]) BY <1>3, <1>4, <1>5, <1>6, ReceiverBehind
<1>8. MsgLen(sent[S]) = 2 + Len(ChunksOf[sent[S]]) /\ Len(ChunksOf[sent[S]]) \in Nat
  BY <1>3, <1>5, MsgFacts
<1>9. stage["s"] \in SendStages BY <1>1 DEF TypeOK
<1>10. stage["s"] # "SEND_MISSING_CONTENT" BY <1>1 DEF SendInv, SendContentInv
<1>11. stage["s"] \notin {"SEND_HEADER", "COMPUTE_FINGERPRINTS", "INSERT_OUTBOUND_FINGERPRINTS",
                          "SEND_FINGERPRINT_HEADER"}
  BY <1>7, <1>8 DEF SendAt
<1>12. stage["s"] # "SEND_REG_DATA" BY <1>1, <1>3 DEF SendInv
<1>13. stage["s"] # "SEND_PACKAGED_FINGERPRINTS"
  <2> SUFFICES ASSUME stage["s"] = "SEND_PACKAGED_FINGERPRINTS" PROVE FALSE OBVIOUS
  <2>1. send_req.offset < Len(ChunksOf[sent[S]]) /\ send_req.offset \in Nat
    BY <1>1, <1>4 DEF SendInv, SendFpStages, SendStages, TypeOK, SendReqs
  <2>2. SendAt = 2 + send_req.offset BY DEF SendAt
  <2> QED BY <1>7, <1>8, <2>1, <2>2
<1>14. stage["s"] \in {"RECV_MISSING_FINGERPRINT_HEADER", "RECV_MISSING_FINGERPRINTS"}
  BY <1>3, <1>9, <1>10, <1>11, <1>12, <1>13 DEF SendStages
<1>15. stage["s"] = "RECV_MISSING_FINGERPRINTS" => Asking BY <1>1 DEF RevInv
<1> QED BY <1>3, <1>4, <1>14, <1>15

(* ... in each stage between the fingerprints and the last question. *)
LEMMA KnownWaits ==
  ASSUME TransferInv, active_fds["r"], stage["r"] \in RecvKnown \ Late
  PROVE  /\ R = S /\ active_fds["s"] /\ ~ SenderDone(S) /\ IsFingerprinted(sent[S])
         /\ stage["s"] \in {"RECV_MISSING_FINGERPRINT_HEADER", "RECV_MISSING_FINGERPRINTS"}
         /\ stage["s"] = "RECV_MISSING_FINGERPRINTS" => Asking
<1>1. TypeOK /\ DeliveredAsSent /\ RecvInv /\ TurnInv BY DEF TransferInv
<1>2. R <= S /\ IsFingerprinted(sent[R])
  BY <1>1 DEF RecvInv, RecvKnown, RecvFpStages, RecvStages
<1>3. R \in R .. S BY <1>1, <1>2, Counts
<1>4. ~ SenderDone(R) BY <1>1, <1>2, <1>3 DEF TurnInv, Late
<1>5. RecvAt = MsgLen(sent[R]) BY DEF RecvAt, RecvKnown, RecvFpStages, RecvFirst, Late
<1> QED BY <1>2, <1>4, <1>5, SenderWaits DEF RecvKnown, RecvFpStages, RecvFirst, Late, At

(* The request that irecv fills in.                                        *)
LEMMA FreshRecvType == FreshRecvReq \in RecvReqs
<1>1. [p \in AppBuf |-> Junk] \in [AppBuf -> Units \cup {Junk}] OBVIOUS
<1>2. <<>> \in Seq(Fingerprints) /\ <<>> \in Seq(Nat) OBVIOUS
<1> QED BY <1>1, <1>2 DEF FreshRecvReq, RecvReqs

(* irecv: the receiver comes to the next message.                          *)
LEMMA IRecvKeeps ==
  ASSUME TransferInv, IRecv
  PROVE  TransferInv'
<1>1. /\ ~ active_fds["r"] /\ active_fds' = [active_fds EXCEPT !["r"] = TRUE]
      /\ recv_req' = FreshRecvReq /\ stage' = [stage EXCEPT !["r"] = "RECV_HEADER"]
      /\ sent' = sent /\ delivered' = delivered /\ fwd' = fwd /\ rev' = rev /\ i' = i
      /\ send_req' = send_req /\ CacheSame /\ torn' = torn
  BY DEF IRecv, Goto, netVars, cacheVars, CacheSame
<1>2. TypeOK /\ RecvInv /\ DeliveredAsSent BY DEF TransferInv
<1>3. stage["r"] = "RECV_COMPLETE" BY <1>1, <1>2 DEF RecvInv
<1>4. /\ active_fds \in [Ends -> BOOLEAN] /\ stage \in [Ends -> SendStages \cup RecvStages]
  BY <1>2 DEF TypeOK
<1>5. /\ stage'["r"] = "RECV_HEADER" /\ stage'["s"] = stage["s"]
      /\ stage' \in [Ends -> SendStages \cup RecvStages]
  BY <1>1, <1>4 DEF Ends, RecvStages
<1>6. active_fds'["r"] /\ active_fds'["s"] = active_fds["s"] /\ active_fds' \in [Ends -> BOOLEAN]
  BY <1>1, <1>4, Zenon DEF Ends
<1>7. ReceiverStep BY <1>1, <1>3, <1>5, <1>6 DEF ReceiverStep, SendSame
<1>8. R' = R BY <1>1 DEF R
<1>9. TypeOK'
  <2>1. "RECV_HEADER" \in RecvStages BY DEF RecvStages
  <2>2. recv_req' \in RecvReqs BY <1>1, FreshRecvType
  <2> QED BY <1>1, <1>2, <1>5, <1>6, <2>1, <2>2 DEF TypeOK, CacheSame
<1>10. ~ At("r", "RECV_MISSING_CONTENT") /\ ~ At("r", "RECV_MISSING_CONTENT")'
       /\ ~ Asking /\ ~ Asking' /\ ~ At("r", "RECV_COMPLETE") /\ ~ At("r", "RECV_COMPLETE")'
  BY <1>1, <1>5 DEF At, Asking
<1>11. RPos' = RPos
  <2>1. RecvAt' = 0 BY <1>5 DEF RecvAt
  <2>2. StartOf(R) \in Nat /\ RPos = StartOf(R) BY <1>1, <1>2, RecvPosition
  <2>3. StartOf(R)' = StartOf(R) BY <1>1, <1>8 DEF StartOf
  <2> QED BY <1>6, <2>1, <2>2, <2>3 DEF RPos
<1>12. FwdInv'
  <2>1. ContentAhead' = ContentAhead /\ ContentAhead = 0 BY <1>10 DEF ContentAhead
  <2> QED BY <1>1, <1>7, <1>11, <2>1, FwdStay, ReceiverBase
<1>13. RevInv' BY <1>1, <1>7, <1>8, <1>10, EarlyRev
<1>14. TurnInv' BY <1>1, <1>5, <1>7, <1>8, EarlyTurn
<1>15. SendInv' BY <1>7, <1>10, SendStays
<1>16. RecvInv'
  BY <1>1, <1>5, <1>6 DEF RecvInv, At, RecvFpStages, RecvFirst, RecvKnown
<1>17. recv_req'.num_missing = 0 BY <1>1 DEF FreshRecvReq
<1>18. HostHasAll' BY <1>17 DEF HostHasAll
<1>19. DeliveredAsSent' BY <1>1, <1>2, DeliveredFrame
<1> QED BY <1>7, <1>9, <1>12, <1>13, <1>14, <1>15, <1>16, <1>18, <1>19, ReceiverBase DEF TransferInv

(* What the receiver's stages do to its request. *)
LEMMA HeaderEffect ==
  ASSUME NEW req \in RecvReqs, NEW req2, NEW v \in [is_fingerprint : BOOLEAN, content_size : Nat],
         Is(req2, [req EXCEPT !.header = v])
  PROVE  /\ req2 \in RecvReqs /\ req2.header = v
         /\ req2.num_fingerprints = req.num_fingerprints /\ req2.packaged = req.packaged
         /\ req2.num_missing = req.num_missing /\ req2.missing = req.missing
         /\ req2.offset = req.offset /\ req2.content_ind = req.content_ind
         /\ req2.content_offset = req.content_offset /\ req2.app_buffer = req.app_buffer
         /\ req2.app_filled_size = req.app_filled_size
<1>1. req2 \in RecvReqs BY DEF RecvReqs, Is
<1> QED BY <1>1 DEF RecvReqs, Is

(* process_recv_header: the header is that of the message, and decides how *)
(* it goes on.                                                             *)
LEMMA RecvHeaderKeeps ==
  ASSUME TransferInv, RecvHeader
  PROVE  TransferInv'
<1> DEFINE st == IF Head(fwd).val.is_fingerprint THEN "RECV_FINGERPRINT_HEADER" ELSE "RECV_REG_DATA"
<1>1. /\ active_fds["r"] /\ stage["r"] = "RECV_HEADER" /\ TakesOne(fwd, fwd')
      /\ Is(recv_req', [recv_req EXCEPT !.header = Head(fwd).val])
      /\ stage' = [stage EXCEPT !["r"] = st]
      /\ sent' = sent /\ delivered' = delivered /\ rev' = rev /\ i' = i
      /\ active_fds' = active_fds /\ send_req' = send_req /\ CacheSame /\ torn' = torn
  BY DEF RecvHeader, Goto, At, TakesOne, Is, cacheVars, CacheSame
<1>2. TypeOK /\ RecvInv /\ DeliveredAsSent /\ SendInv BY DEF TransferInv
<1>3. /\ stage'["r"] = st /\ stage'["s"] = stage["s"]
  <2>1. stage \in [Ends -> SendStages \cup RecvStages] BY <1>2 DEF TypeOK
  <2> QED BY <1>1, <2>1 DEF Ends
<1>4. ReceiverStep BY <1>1, <1>3 DEF ReceiverStep, SendSame
<1>5. /\ Len(fwd) > 0 /\ Head(fwd) = fwd[1] /\ IsSocket(fwd') /\ Shifts(fwd, 1, fwd')
  BY <1>1, <1>2, HeadEffect DEF TypeOK
<1>6. ~ At("r", "RECV_MISSING_CONTENT") BY <1>1 DEF At
<1>7. RPos = StartOf(R) /\ RecvAt = 0 BY <1>1, <1>2, RecvPosition DEF RecvAt
<1>8. R <= S /\ R \in Nat \ {0} /\ S \in Nat
  <2>1. R \in Nat \ {0} /\ S \in Nat /\ R <= S + 1 BY <1>2, Counts
  <2>2. RPos < SPos /\ RPos \in Nat /\ SPos \in Nat
    <3>1. /\ ContentAhead = 0 /\ RPos \in Nat /\ SPos \in Nat /\ Len(fwd) = ContentAhead + (SPos - RPos)
      BY <1>6, FwdFacts
    <3> QED BY <1>5, <3>1
  <2>3. SPos <= StartOf(S + 1) BY <1>2, SendPosition
  <2>4. R # S + 1
    <3> SUFFICES ASSUME R = S + 1 PROVE FALSE OBVIOUS
    <3>1. StartOf(R) = StartOf(S + 1) BY Zenon
    <3>2. SPos <= RPos BY <1>7, <2>3, <3>1
    <3> QED BY <2>2, <3>2
  <2> QED BY <2>1, <2>4
<1>9. sent[R] \in Messages
  <2>1. R \in 1 .. S BY <1>8
  <2> QED BY <1>2, <2>1, Counts
<1>10. /\ MsgLen(sent[R]) \in Nat \ {0} /\ Size(ChunksOf[sent[R]]) \in Nat
       /\ IsFingerprinted(sent[R]) \in BOOLEAN
  BY <1>9, MsgFacts
<1>11. Head(fwd).val = HeaderOf(sent[R])
  <2>1. 1 \in 1 .. Len(fwd)
    <3>1. Len(fwd) \in Nat BY FwdFacts DEF IsSeq
    <3> QED BY <1>5, <3>1
  <2>2. RecvAt \in Nat /\ RecvAt + 1 <= MsgLen(sent[R]) /\ RecvAt + 1 = 1 BY <1>7, <1>10
  <2>3. fwd[1] = MsgToken(sent[R], RecvAt + 1) BY <1>1, <1>6, <1>8, <2>1, <2>2, ReceiverRead
  <2>4. MsgToken(sent[R], 1) = [type |-> "header", val |-> HeaderOf(sent[R])] BY <1>9, TokenFacts
  <2> QED BY <1>5, <2>2, <2>3, <2>4
<1>12. HeaderOf(sent[R]) \in [is_fingerprint : BOOLEAN, content_size : Nat]
       /\ HeaderOf(sent[R]).is_fingerprint = IsFingerprinted(sent[R])
  BY <1>10 DEF HeaderOf
<1>13. recv_req \in RecvReqs /\ recv_req = FreshRecvReq
  BY <1>1, <1>2 DEF RecvInv, At, TypeOK
<1>14. /\ recv_req' \in RecvReqs /\ recv_req'.header = HeaderOf(sent[R])
       /\ recv_req'.packaged = recv_req.packaged
       /\ recv_req'.num_missing = recv_req.num_missing /\ recv_req'.missing = recv_req.missing
       /\ recv_req'.offset = recv_req.offset
       /\ recv_req'.app_filled_size = recv_req.app_filled_size
  <2>1. Is(recv_req', [recv_req EXCEPT !.header = HeaderOf(sent[R])]) BY <1>1, <1>11
  <2>2. recv_req \in RecvReqs BY <1>13
  <2> QED BY <1>12, <2>1, <2>2, HeaderEffect
<1>15. /\ recv_req'.packaged = <<>> /\ recv_req'.num_missing = 0 /\ recv_req'.missing = <<>>
       /\ recv_req'.offset = 0 /\ recv_req'.app_filled_size = 0
  BY <1>13, <1>14 DEF FreshRecvReq
<1>16. stage'["r"] = IF IsFingerprinted(sent[R]) THEN "RECV_FINGERPRINT_HEADER" ELSE "RECV_REG_DATA"
  BY <1>3, <1>11, <1>12
<1> HIDE DEF st
<1>17. TypeOK'
  <2>1. stage'["r"] \in RecvStages BY <1>16 DEF RecvStages
  <2>2. \E x : stage' = [stage EXCEPT !["r"] = x] BY <1>1
  <2>3. i' \in [Ends -> Nat] /\ IsSocket(rev') BY <1>1, <1>2 DEF TypeOK
  <2> QED BY <1>1, <1>2, <1>4, <1>5, <1>14, <2>1, <2>2, <2>3, ReceiverType
<1>18. R' = R BY <1>1 DEF R
<1>19. RPos' = RPos + 1
  <2>1. RecvAt' = 1 BY <1>15, <1>16 DEF RecvAt
  <2>2. StartOf(R)' = StartOf(R) BY <1>1, <1>18 DEF StartOf
  <2> QED BY <1>1, <1>7, <2>1, <2>2 DEF RPos
<1>20. FwdInv'
  <2>1. ContentAhead' = 0 BY <1>16 DEF ContentAhead, At
  <2>2. 1 \in Nat OBVIOUS
  <2> QED BY <1>4, <1>5, <1>6, <1>19, <2>1, <2>2, ReceiverPop
<1>21. RevInv'
  <2>1. ~ Asking /\ ~ Asking' /\ ~ At("r", "RECV_COMPLETE") /\ ~ At("r", "RECV_COMPLETE")'
    BY <1>1, <1>16 DEF At, Asking
  <2> QED BY <1>1, <1>4, <1>18, <2>1, EarlyRev
<1>22. TurnInv' BY <1>1, <1>4, <1>16, <1>18, EarlyTurn DEF Late
<1>23. SendInv' BY <1>4, <1>6, SendStays
<1>24. RecvInv'
  <2>1. stage'["r"] = "RECV_REG_DATA" => RegDataInv'
    BY <1>1, <1>10, <1>15, <1>16, <1>18 DEF RegDataInv
  <2>2. stage'["r"] \in RecvFirst => FirstInv' BY <1>15, <1>16 DEF FirstInv, RecvFirst
  <2>3. S' = S BY <1>1 DEF S
  <2> QED BY <1>1, <1>8, <1>14, <1>16, <1>18, <2>1, <2>2, <2>3
      DEF RecvInv, At, RecvFpStages, RecvFirst, RecvKnown
<1>25. HostHasAll' BY <1>15 DEF HostHasAll
<1>26. DeliveredAsSent' BY <1>1, <1>2, DeliveredFrame
<1> QED BY <1>4, <1>17, <1>20, <1>21, <1>22, <1>23, <1>24, <1>25, <1>26, ReceiverBase DEF TransferInv

(* process_recv_reg_data of an empty message waits for nothing.            *)
LEMMA RecvRegDataEmptyKeeps ==
  ASSUME TransferInv, RecvRegDataEmpty
  PROVE  TransferInv'
<1>1. /\ active_fds["r"] /\ stage["r"] = "RECV_REG_DATA"
      /\ recv_req.offset = recv_req.header.content_size
      /\ stage' = [stage EXCEPT !["r"] = "RECV_COMPLETE"]
      /\ sent' = sent /\ delivered' = delivered /\ fwd' = fwd /\ rev' = rev /\ i' = i
      /\ active_fds' = active_fds /\ send_req' = send_req /\ recv_req' = recv_req /\ CacheSame /\ torn' = torn
  BY DEF RecvRegDataEmpty, Goto, At, netVars, cacheVars, CacheSame
<1>2. TypeOK /\ RecvInv /\ DeliveredAsSent /\ AnnouncedInv BY DEF TransferInv
<1>3. stage'["r"] = "RECV_COMPLETE" /\ stage'["s"] = stage["s"]
  <2>1. stage \in [Ends -> SendStages \cup RecvStages] BY <1>2 DEF TypeOK
  <2> QED BY <1>1, <2>1 DEF Ends
<1>4. ReceiverStep BY <1>1, <1>3 DEF ReceiverStep, SendSame
<1>5. ~ At("r", "RECV_MISSING_CONTENT") BY <1>1 DEF At
<1>6. R <= S /\ recv_req.header = HeaderOf(sent[R]) /\ RegDataInv /\ sent[R] \in Messages
  BY <1>1, <1>2, RecvPosition DEF RecvInv
<1>7. /\ recv_req.offset = Size(ChunksOf[sent[R]]) /\ ~ IsFingerprinted(sent[R])
      /\ MsgLen(sent[R]) = 1 + Size(ChunksOf[sent[R]])
  BY <1>1, <1>6, MsgFacts DEF HeaderOf, RegDataInv
<1>8. R' = R /\ S' = S BY <1>1 DEF R, S
<1>9. TypeOK'
  <2>1. stage'["r"] \in RecvStages BY <1>3 DEF RecvStages
  <2>2. \E x : stage' = [stage EXCEPT !["r"] = x] BY <1>1
  <2>3. i' \in [Ends -> Nat] /\ IsSocket(fwd') /\ IsSocket(rev') /\ recv_req' \in RecvReqs
    BY <1>1, <1>2 DEF TypeOK
  <2> QED BY <1>1, <1>2, <1>4, <2>1, <2>2, <2>3, ReceiverType
<1>10. RPos' = RPos
  <2>1. RecvAt' = MsgLen(sent[R]) BY <1>1, <1>3, <1>8 DEF RecvAt
  <2>2. RecvAt = 1 + recv_req.offset BY <1>1 DEF RecvAt
  <2>3. StartOf(R)' = StartOf(R) BY <1>1, <1>8 DEF StartOf
  <2> QED BY <1>1, <1>7, <2>1, <2>2, <2>3 DEF RPos
<1>11. FwdInv'
  <2>1. ContentAhead' = ContentAhead /\ ContentAhead = 0 BY <1>1, <1>3 DEF ContentAhead, At
  <2> QED BY <1>1, <1>4, <1>10, <2>1, FwdStay, ReceiverBase
<1>12. RevInv'
  <2>1. ~ Asking /\ ~ Asking' /\ ~ At("r", "RECV_COMPLETE") BY <1>1, <1>3 DEF At, Asking
  <2>2. ~ (R = S /\ IsFingerprinted(sent[S])) BY <1>7
  <2> QED BY <1>1, <1>4, <1>8, <2>1, <2>2, EarlyRev
<1>13. TurnInv'
  <2>1. ~ (R = S /\ IsFingerprinted(sent[S])) BY <1>7
  <2> QED BY <1>1, <1>3, <1>4, <1>8, <2>1, EarlyTurn DEF Late
<1>14. SendInv' BY <1>4, <1>5, SendStays
<1>15. RecvInv'
  <2>1. CompleteInv' BY <1>1, <1>6, <1>7, <1>8 DEF CompleteInv, RegDataInv
  <2> QED BY <1>1, <1>3, <1>6, <1>8, <2>1
      DEF RecvInv, At, RecvFpStages, RecvFirst, RecvKnown
<1>16. HostHasAll' BY <1>1, <1>2 DEF AnnouncedInv, HostHasAll, CacheSame
<1>17. DeliveredAsSent' BY <1>1, <1>2, DeliveredFrame
<1> QED BY <1>4, <1>9, <1>11, <1>12, <1>13, <1>14, <1>15, <1>16, <1>17, ReceiverBase DEF TransferInv

(* Values written into the application buffer. *)
LEMMA FillEffect ==
  ASSUME NEW buf \in [AppBuf -> Units \cup {Junk}], NEW at \in Nat, NEW vals, IsSeq(vals),
         \A k \in 1 .. Len(vals) : vals[k] \in Units \cup {Junk},
         NEW buf2, Is(buf2, Fill(buf, at, vals))
  PROVE  /\ buf2 \in [AppBuf -> Units \cup {Junk}]
         /\ \A p \in AppBuf : p \in at + 1 .. at + Len(vals) => buf2[p] = vals[p - at]
         /\ \A p \in AppBuf : p \notin at + 1 .. at + Len(vals) => buf2[p] = buf[p]
<1>1. \A p \in AppBuf : p \in Int BY DEF AppBuf
<1>2. Len(vals) \in Nat BY DEF IsSeq
<1>3. \A p \in AppBuf : p \in at + 1 .. at + Len(vals) =>
         vals[p - at] \in Units \cup {Junk}
  <2> SUFFICES ASSUME NEW p \in AppBuf, p \in at + 1 .. at + Len(vals)
               PROVE  vals[p - at] \in Units \cup {Junk}
    OBVIOUS
  <2>1. p - at \in 1 .. Len(vals) BY <1>1, <1>2
  <2> QED BY <2>1
<1> QED BY <1>3 DEF Fill, Is

(* The buffer and the offset of the request move.                          *)
LEMMA RegDataEffect ==
  ASSUME NEW req \in RecvReqs, NEW req2, NEW b \in [AppBuf -> Units \cup {Junk}], NEW v \in Nat,
         Is(req2, [req EXCEPT !.app_buffer = b, !.offset = v])
  PROVE  /\ req2 \in RecvReqs /\ req2.app_buffer = b /\ req2.offset = v
         /\ req2.header = req.header /\ req2.num_missing = req.num_missing
<1>1. req2 \in RecvReqs BY DEF RecvReqs, Is
<1> QED BY <1>1 DEF RecvReqs, Is

(* process_recv_reg_data: n of the bytes that are left, to where they      *)
(* belong.                                                                 *)
LEMMA RecvRegDataKeeps ==
  ASSUME TransferInv, RecvRegData
  PROVE  TransferInv'
<1> DEFINE left == recv_req.header.content_size - recv_req.offset
<1>0. PICK n \in 1 .. SockBuf :
        /\ CanRecv(fwd, left, n)
        /\ recv_req' = [recv_req EXCEPT
             !.app_buffer = Fill(@, recv_req.offset, Vals(SubSeq(fwd, 1, n))), !.offset = @ + n]
        /\ fwd' = Rest(fwd, n)
        /\ IF n < left THEN UNCHANGED stage ELSE Goto("r", "RECV_COMPLETE")
  BY DEF RecvRegData
<1>00. PICK vals : Is(vals, Vals(SubSeq(fwd, 1, n))) BY DEF Is
<1>000. PICK buf2 : Is(buf2, Fill(recv_req.app_buffer, recv_req.offset, vals)) BY DEF Is
<1>1. /\ active_fds["r"] /\ stage["r"] = "RECV_REG_DATA" /\ Takes(fwd, left, n, fwd', vals)
      /\ Is(recv_req', [recv_req EXCEPT !.app_buffer = buf2, !.offset = recv_req.offset + n])
      /\ (n < left /\ stage' = stage) \/ (~ (n < left) /\ stage' = [stage EXCEPT !["r"] = "RECV_COMPLETE"])
      /\ sent' = sent /\ delivered' = delivered /\ rev' = rev /\ i' = i
      /\ active_fds' = active_fds /\ send_req' = send_req /\ CacheSame /\ torn' = torn
  BY <1>0, <1>00, <1>000 DEF RecvRegData, Goto, At, Takes, Is, cacheVars, CacheSame
<1>2. TypeOK /\ RecvInv /\ DeliveredAsSent /\ AnnouncedInv BY DEF TransferInv
<1>3. /\ stage'["r"] = IF n < left THEN "RECV_REG_DATA" ELSE "RECV_COMPLETE"
      /\ stage'["s"] = stage["s"]
  <2>1. stage \in [Ends -> SendStages \cup RecvStages] BY <1>2 DEF TypeOK
  <2> QED BY <1>1, <2>1 DEF Ends
<1>4. ReceiverStep BY <1>1, <1>3 DEF ReceiverStep, SendSame
<1>5. ~ At("r", "RECV_MISSING_CONTENT") BY <1>1 DEF At
<1>6. R <= S /\ recv_req.header = HeaderOf(sent[R]) /\ RegDataInv /\ sent[R] \in Messages
  BY <1>1, <1>2, RecvPosition DEF RecvInv
<1>7. /\ recv_req.offset <= Size(ChunksOf[sent[R]]) /\ ~ IsFingerprinted(sent[R])
      /\ Size(ChunksOf[sent[R]]) \in Nat /\ MsgLen(sent[R]) = 1 + Size(ChunksOf[sent[R]])
      /\ ChunksOf[sent[R]] \in Seq(Fingerprints)
      /\ recv_req.offset \in Nat /\ left = Size(ChunksOf[sent[R]]) - recv_req.offset
  BY <1>2, <1>6, MsgFacts DEF HeaderOf, RegDataInv, TypeOK, RecvReqs
<1> HIDE DEF left
<1>8. /\ n \in Nat \ {0} /\ n <= left /\ IsSocket(fwd') /\ Shifts(fwd, n, fwd')
      /\ IsSeq(vals) /\ Len(vals) = n /\ \A k \in 1 .. n : vals[k] = fwd[k].val
  <2>1. IsSocket(fwd) /\ left \in Int BY <1>2, <1>7 DEF TypeOK
  <2>2. Takes(fwd, left, n, fwd', vals) BY <1>1
  <2>3. TakenFrom(fwd, left, n, fwd', vals) BY <2>1, <2>2, RecvEffect, Zenon
  <2> QED BY <2>3, Zenon DEF TakenFrom
<1>9. \A k \in 1 .. n : vals[k] = Data(ChunksOf[sent[R]])[recv_req.offset + k]
  <2> SUFFICES ASSUME NEW k \in 1 .. n
               PROVE  vals[k] = Data(ChunksOf[sent[R]])[recv_req.offset + k]
    OBVIOUS
  <2>1. RecvAt = 1 + recv_req.offset BY <1>1 DEF RecvAt
  <2>2. RecvAt \in Nat /\ RecvAt + k <= MsgLen(sent[R]) /\ RecvAt + k = 1 + (recv_req.offset + k)
        /\ recv_req.offset + k \in 1 .. Size(ChunksOf[sent[R]])
    <3>1. PICK a \in Nat : Is(a, recv_req.offset) BY <1>7 DEF Is
    <3>2. PICK l \in Nat : Is(l, Size(ChunksOf[sent[R]])) BY <1>7 DEF Is
    <3>3. left = l - a BY <1>7, <3>1, <3>2 DEF Is
    <3>4. a + k \in 1 .. l /\ (1 + a) + k = 1 + (a + k) /\ 1 + (a + k) <= 1 + l BY <1>8, <3>3
    <3>5. RecvAt = 1 + a /\ MsgLen(sent[R]) = 1 + l BY <1>7, <2>1, <3>1, <3>2 DEF Is
    <3>6. RecvAt \in Nat BY <3>5
    <3>7. RecvAt + k = 1 + (a + k) BY <3>4, <3>5
    <3>8. RecvAt + k <= MsgLen(sent[R]) BY <3>4, <3>5, <3>7
    <3> QED BY <3>1, <3>2, <3>4, <3>6, <3>7, <3>8 DEF Is
  <2>3. k \in 1 .. Len(fwd)
    <3>1. Len(fwd) \in Nat /\ n <= Len(fwd) BY <1>8, FwdFacts DEF IsSeq, Shifts
    <3> QED BY <1>8, <3>1
  <2>4. fwd[k] = MsgToken(sent[R], RecvAt + k) BY <1>1, <1>5, <1>6, <2>2, <2>3, ReceiverRead
  <2>5. MsgToken(sent[R], 1 + (recv_req.offset + k))
          = [type |-> "data", val |-> Data(ChunksOf[sent[R]])[recv_req.offset + k]]
    BY <1>6, <1>7, <2>2, TokenFacts
  <2> QED BY <1>8, <2>2, <2>4, <2>5
<1>10. \A k \in 1 .. Len(vals) : vals[k] \in Units
  <2> SUFFICES ASSUME NEW k \in 1 .. n PROVE vals[k] \in Units BY <1>8
  <2>1. recv_req.offset + k \in 1 .. Size(ChunksOf[sent[R]]) BY <1>7, <1>8
  <2> QED BY <1>7, <1>9, <2>1, DataSeq
<1>11. /\ buf2 \in [AppBuf -> Units \cup {Junk}]
       /\ \A p \in AppBuf : p \in recv_req.offset + 1 .. recv_req.offset + Len(vals) =>
            buf2[p] = vals[p - recv_req.offset]
       /\ \A p \in AppBuf : p \notin recv_req.offset + 1 .. recv_req.offset + Len(vals) =>
            buf2[p] = recv_req.app_buffer[p]
  <2>1. recv_req.app_buffer \in [AppBuf -> Units \cup {Junk}] /\ recv_req.offset \in Nat
    BY <1>2 DEF TypeOK, RecvReqs
  <2>2. IsSeq(vals) BY <1>8
  <2> QED BY <1>000, <1>10, <2>1, <2>2, FillEffect
<1>12. /\ recv_req' \in RecvReqs /\ recv_req'.app_buffer = buf2
       /\ recv_req'.offset = recv_req.offset + n /\ recv_req'.header = recv_req.header
       /\ recv_req'.num_missing = recv_req.num_missing
  <2>1. recv_req \in RecvReqs /\ recv_req.offset + n \in Nat BY <1>2, <1>7, <1>8 DEF TypeOK
  <2>2. buf2 \in [AppBuf -> Units \cup {Junk}] BY <1>11
  <2>3. PICK v \in Nat : v = recv_req.offset + n BY <2>1
  <2>4. Is(recv_req', [recv_req EXCEPT !.app_buffer = buf2, !.offset = v]) BY <1>1, <2>3
  <2>5. /\ recv_req' \in RecvReqs /\ recv_req'.app_buffer = buf2 /\ recv_req'.offset = v
        /\ recv_req'.header = recv_req.header /\ recv_req'.num_missing = recv_req.num_missing
    BY <2>1, <2>2, <2>4, RegDataEffect
  <2> QED BY <2>3, <2>5
<1>13. recv_req.offset + n <= Size(ChunksOf[sent[R]])
       /\ (~ (n < left) => recv_req.offset + n = Size(ChunksOf[sent[R]]))
  BY <1>7, <1>8
<1>14. \A p \in 1 .. recv_req.offset + n : buf2[p] = Data(ChunksOf[sent[R]])[p]
  <2> SUFFICES ASSUME NEW p \in 1 .. recv_req.offset + n
               PROVE  buf2[p] = Data(ChunksOf[sent[R]])[p]
    OBVIOUS
  <2>1. p \in AppBuf
    <3>1. p \in 1 .. Size(ChunksOf[sent[R]]) BY <1>7, <1>8, <1>13
    <3> QED BY <1>6, <3>1, AppBufFacts
  <2>2. CASE p <= recv_req.offset
    <3>1. p \in 1 .. recv_req.offset /\ p \notin recv_req.offset + 1 .. recv_req.offset + Len(vals)
      BY <1>7, <1>8, <2>2
    <3> QED BY <1>6, <1>11, <2>1, <3>1 DEF RegDataInv
  <2>3. CASE p > recv_req.offset
    <3>1. p - recv_req.offset \in 1 .. n /\ p \in recv_req.offset + 1 .. recv_req.offset + Len(vals)
          /\ recv_req.offset + (p - recv_req.offset) = p
      BY <1>7, <1>8, <2>3, SMTT(30)
    <3> QED BY <1>9, <1>11, <2>1, <3>1
  <2> QED BY <1>7, <1>8, <2>2, <2>3
<1>15. R' = R /\ S' = S BY <1>1 DEF R, S
<1>16. TypeOK'
  <2>1. stage'["r"] \in RecvStages BY <1>3 DEF RecvStages
  <2>2. stage' = stage \/ \E x : stage' = [stage EXCEPT !["r"] = x] BY <1>1
  <2>3. i' \in [Ends -> Nat] /\ IsSocket(rev') BY <1>1, <1>2 DEF TypeOK
  <2> QED BY <1>1, <1>2, <1>4, <1>8, <1>12, <2>1, <2>2, <2>3, ReceiverType
<1>17. RPos' = RPos + n
  <2>1. RecvAt' = 1 + (recv_req.offset + n)
    <3>1. CASE n < left BY <1>3, <1>12, <3>1 DEF RecvAt
    <3>2. CASE ~ (n < left)
      <4>1. RecvAt' = MsgLen(sent[R]) BY <1>1, <1>3, <1>15, <3>2 DEF RecvAt
      <4> QED BY <1>7, <1>13, <3>2, <4>1
    <3> QED BY <3>1, <3>2
  <2>2. RecvAt = 1 + recv_req.offset BY <1>1 DEF RecvAt
  <2>3. StartOf(R)' = StartOf(R) BY <1>1, <1>15 DEF StartOf
  <2>4. StartOf(R) \in Nat BY <1>2, RecvPosition
  <2> QED BY <1>1, <1>7, <1>8, <2>1, <2>2, <2>3, <2>4 DEF RPos
<1>18. FwdInv'
  <2>1. ContentAhead' = 0 BY <1>3 DEF ContentAhead, At
  <2>2. n \in Nat BY <1>8
  <2> QED BY <1>4, <1>5, <1>8, <1>17, <2>1, <2>2, ReceiverPop
<1>19. RevInv'
  <2>1. ~ Asking /\ ~ Asking' /\ ~ At("r", "RECV_COMPLETE") BY <1>1, <1>3 DEF At, Asking
  <2>2. ~ (R = S /\ IsFingerprinted(sent[S])) BY <1>7
  <2> QED BY <1>1, <1>4, <1>15, <2>1, <2>2, EarlyRev
<1>20. TurnInv'
  <2>1. ~ (R = S /\ IsFingerprinted(sent[S])) BY <1>7
  <2> QED BY <1>1, <1>3, <1>4, <1>15, <2>1, EarlyTurn DEF Late
<1>21. SendInv' BY <1>4, <1>5, SendStays
<1>22. RecvInv'
  <2>1. stage'["r"] = "RECV_REG_DATA" => RegDataInv'
    BY <1>1, <1>7, <1>12, <1>13, <1>14, <1>15 DEF RegDataInv
  <2>2. stage'["r"] = "RECV_COMPLETE" => CompleteInv'
    BY <1>1, <1>3, <1>7, <1>12, <1>13, <1>14, <1>15 DEF CompleteInv
  <2> QED BY <1>1, <1>3, <1>6, <1>12, <1>15, <2>1, <2>2
      DEF RecvInv, At, RecvFpStages, RecvFirst, RecvKnown
<1>23. HostHasAll' BY <1>1, <1>2, <1>12 DEF AnnouncedInv, HostHasAll, CacheSame
<1>24. DeliveredAsSent' BY <1>1, <1>2, DeliveredFrame
<1> QED BY <1>4, <1>16, <1>18, <1>19, <1>20, <1>21, <1>22, <1>23, <1>24, ReceiverBase DEF TransferInv

(* The number of fingerprints is noted.                                    *)
LEMMA CountEffect ==
  ASSUME NEW req \in RecvReqs, NEW req2, NEW v \in Nat,
         Is(req2, [req EXCEPT !.num_fingerprints = v, !.content_ind = 1, !.content_offset = 0])
  PROVE  /\ req2 \in RecvReqs /\ req2.num_fingerprints = v
         /\ req2.content_ind = 1 /\ req2.content_offset = 0
         /\ req2.header = req.header /\ req2.packaged = req.packaged
         /\ req2.num_missing = req.num_missing /\ req2.missing = req.missing
         /\ req2.offset = req.offset /\ req2.app_filled_size = req.app_filled_size
<1>1. req2 \in RecvReqs BY DEF RecvReqs, Is
<1> QED BY <1>1 DEF RecvReqs, Is

(* process_recv_fingerprint_header: how many fingerprints follow.          *)
LEMMA RecvFingerprintHeaderKeeps ==
  ASSUME TransferInv, RecvFingerprintHeader
  PROVE  TransferInv'
<1>1. /\ active_fds["r"] /\ stage["r"] = "RECV_FINGERPRINT_HEADER" /\ TakesOne(fwd, fwd')
      /\ Is(recv_req', [recv_req EXCEPT !.num_fingerprints = Head(fwd).val,
                          !.content_ind = 1, !.content_offset = 0])
      /\ stage' = [stage EXCEPT !["r"] = "RECV_PACKAGED_FINGERPRINTS"]
      /\ sent' = sent /\ delivered' = delivered /\ rev' = rev /\ i' = i
      /\ active_fds' = active_fds /\ send_req' = send_req /\ CacheSame /\ torn' = torn
  BY DEF RecvFingerprintHeader, Goto, At, TakesOne, Is, cacheVars, CacheSame
<1>2. TypeOK /\ RecvInv /\ DeliveredAsSent BY DEF TransferInv
<1>3. stage'["r"] = "RECV_PACKAGED_FINGERPRINTS" /\ stage'["s"] = stage["s"]
  <2>1. stage \in [Ends -> SendStages \cup RecvStages] BY <1>2 DEF TypeOK
  <2> QED BY <1>1, <2>1 DEF Ends
<1>4. ReceiverStep BY <1>1, <1>3 DEF ReceiverStep, SendSame
<1>5. /\ Len(fwd) > 0 /\ Head(fwd) = fwd[1] /\ IsSocket(fwd') /\ Shifts(fwd, 1, fwd')
  BY <1>1, <1>2, HeadEffect DEF TypeOK
<1>6. ~ At("r", "RECV_MISSING_CONTENT") BY <1>1 DEF At
<1>7. /\ R <= S /\ recv_req.header = HeaderOf(sent[R]) /\ FirstInv /\ IsFingerprinted(sent[R])
      /\ sent[R] \in Messages
  BY <1>1, <1>2, RecvPosition DEF RecvInv, RecvFirst, RecvFpStages, RecvStages
<1>8. /\ MsgLen(sent[R]) = 2 + Len(ChunksOf[sent[R]]) /\ Len(ChunksOf[sent[R]]) \in Nat \ {0}
  BY <1>7, MsgFacts
<1>9. Head(fwd).val = Len(ChunksOf[sent[R]])
  <2>1. 1 \in 1 .. Len(fwd)
    <3>1. Len(fwd) \in Nat BY FwdFacts DEF IsSeq
    <3> QED BY <1>5, <3>1
  <2>2. RecvAt = 1 BY <1>1 DEF RecvAt
  <2>3. RecvAt \in Nat /\ RecvAt + 1 <= MsgLen(sent[R]) /\ RecvAt + 1 = 2 BY <1>8, <2>2
  <2>4. fwd[1] = MsgToken(sent[R], RecvAt + 1) BY <1>1, <1>6, <1>7, <2>1, <2>3, ReceiverRead
  <2>5. MsgToken(sent[R], 2) = [type |-> "fingerprint_header", val |-> Len(ChunksOf[sent[R]])]
    BY <1>7, TokenFacts
  <2> QED BY <1>5, <2>3, <2>4, <2>5
<1>10. /\ recv_req' \in RecvReqs /\ recv_req'.num_fingerprints = Len(ChunksOf[sent[R]])
       /\ recv_req'.content_ind = 1 /\ recv_req'.content_offset = 0
       /\ recv_req'.header = recv_req.header /\ recv_req'.packaged = recv_req.packaged
       /\ recv_req'.num_missing = recv_req.num_missing /\ recv_req'.missing = recv_req.missing
       /\ recv_req'.offset = recv_req.offset
       /\ recv_req'.app_filled_size = recv_req.app_filled_size
  <2>1. recv_req \in RecvReqs BY <1>2 DEF TypeOK
  <2>2. PICK v \in Nat : v = Len(ChunksOf[sent[R]]) BY <1>8
  <2>3. Is(recv_req', [recv_req EXCEPT !.num_fingerprints = v,
                         !.content_ind = 1, !.content_offset = 0])
    BY <1>1, <1>9, <2>2
  <2>4. /\ recv_req' \in RecvReqs /\ recv_req'.num_fingerprints = v
        /\ recv_req'.content_ind = 1 /\ recv_req'.content_offset = 0
        /\ recv_req'.header = recv_req.header /\ recv_req'.packaged = recv_req.packaged
        /\ recv_req'.num_missing = recv_req.num_missing /\ recv_req'.missing = recv_req.missing
        /\ recv_req'.offset = recv_req.offset
        /\ recv_req'.app_filled_size = recv_req.app_filled_size
    BY <2>1, <2>3, CountEffect
  <2> QED BY <2>2, <2>4
<1>11. /\ recv_req'.packaged = <<>> /\ recv_req'.num_missing = 0 /\ recv_req'.missing = <<>>
       /\ recv_req'.offset = 0 /\ recv_req'.app_filled_size = 0
  BY <1>1, <1>7, <1>10 DEF FirstInv
<1>12. TypeOK'
  <2>1. stage'["r"] \in RecvStages BY <1>3 DEF RecvStages
  <2>2. \E x : stage' = [stage EXCEPT !["r"] = x] BY <1>1
  <2>3. i' \in [Ends -> Nat] /\ IsSocket(rev') BY <1>1, <1>2 DEF TypeOK
  <2> QED BY <1>1, <1>2, <1>4, <1>5, <1>10, <2>1, <2>2, <2>3, ReceiverType
<1>13. R' = R /\ S' = S BY <1>1 DEF R, S
<1>14. RPos' = RPos + 1
  <2>1. RecvAt' = 2 BY <1>3, <1>11 DEF RecvAt
  <2>2. StartOf(R)' = StartOf(R) BY <1>1, <1>13 DEF StartOf
  <2>3. RecvAt = 1 BY <1>1 DEF RecvAt
  <2>4. StartOf(R) \in Nat BY <1>2, RecvPosition
  <2> QED BY <1>1, <2>1, <2>2, <2>3, <2>4 DEF RPos
<1>15. FwdInv'
  <2>1. ContentAhead' = 0 BY <1>3 DEF ContentAhead, At
  <2>2. 1 \in Nat OBVIOUS
  <2> QED BY <1>4, <1>5, <1>6, <1>14, <2>1, <2>2, ReceiverPop
<1>16. RevInv'
  <2>1. ~ Asking /\ ~ Asking' /\ ~ At("r", "RECV_COMPLETE") /\ ~ At("r", "RECV_COMPLETE")'
    BY <1>1, <1>3 DEF At, Asking
  <2> QED BY <1>1, <1>4, <1>13, <2>1, EarlyRev
<1>17. TurnInv' BY <1>1, <1>3, <1>4, <1>13, EarlyTurn DEF Late
<1>18. SendInv' BY <1>4, <1>6, SendStays
<1>19. RecvInv'
  <2>1. Len(recv_req'.packaged) = 0 BY <1>11
  <2>2. FirstInv' BY <1>1, <1>3, <1>8, <1>10, <1>11, <1>13, <2>1 DEF FirstInv
  <2> QED BY <1>1, <1>3, <1>7, <1>10, <1>13, <2>2
      DEF RecvInv, At, RecvFpStages, RecvFirst, RecvKnown
<1>20. HostHasAll' BY <1>11 DEF HostHasAll
<1>21. DeliveredAsSent' BY <1>1, <1>2, DeliveredFrame
<1> QED BY <1>4, <1>12, <1>15, <1>16, <1>17, <1>18, <1>19, <1>20, <1>21, ReceiverBase DEF TransferInv

(* The list of fingerprints gets longer.                                   *)
LEMMA PackagedEffect ==
  ASSUME NEW req \in RecvReqs, NEW req2, NEW v \in Seq(Fingerprints),
         Is(req2, [req EXCEPT !.packaged = v])
  PROVE  /\ req2 \in RecvReqs /\ req2.packaged = v
         /\ req2.header = req.header /\ req2.num_fingerprints = req.num_fingerprints
         /\ req2.num_missing = req.num_missing /\ req2.missing = req.missing
         /\ req2.offset = req.offset /\ req2.content_ind = req.content_ind
         /\ req2.content_offset = req.content_offset /\ req2.app_buffer = req.app_buffer
         /\ req2.app_filled_size = req.app_filled_size
<1>1. req2 \in RecvReqs BY DEF RecvReqs, Is
<1> QED BY <1>1 DEF RecvReqs, Is

(* process_recv_packaged_fingerprints: n more, and after the last the list *)
(* is the sender's.                                                        *)
LEMMA RecvPackagedFingerprintsKeeps ==
  ASSUME TransferInv, RecvPackagedFingerprints
  PROVE  TransferInv'
<1> DEFINE left == recv_req.num_fingerprints - Len(recv_req.packaged)
           fps == ChunksOf[sent[R]]
<1>0. PICK n \in 1 .. SockBuf :
        /\ CanRecv(fwd, left, n)
        /\ recv_req' = [recv_req EXCEPT !.packaged = @ \o Vals(SubSeq(fwd, 1, n))]
        /\ fwd' = Rest(fwd, n)
        /\ \/ n < left /\ UNCHANGED <<stage, i>>
           \/ /\ n = left
              /\ Goto("r", "POPULATE_FROM_NET_CACHE")
              /\ i' = [i EXCEPT !["r"] = 1]
  BY DEF RecvPackagedFingerprints
<1>00. PICK vals : Is(vals, Vals(SubSeq(fwd, 1, n))) BY DEF Is
<1>000. PICK pack : Is(pack, recv_req.packaged \o vals) BY DEF Is
<1>1. /\ active_fds["r"] /\ stage["r"] = "RECV_PACKAGED_FINGERPRINTS"
      /\ Takes(fwd, left, n, fwd', vals)
      /\ Is(recv_req', [recv_req EXCEPT !.packaged = pack])
      /\ \/ n < left /\ stage' = stage /\ i' = i
         \/ /\ n = left /\ stage' = [stage EXCEPT !["r"] = "POPULATE_FROM_NET_CACHE"]
            /\ i' = [i EXCEPT !["r"] = 1]
      /\ sent' = sent /\ delivered' = delivered /\ rev' = rev
      /\ active_fds' = active_fds /\ send_req' = send_req /\ CacheSame /\ torn' = torn
  BY <1>0, <1>00, <1>000 DEF RecvPackagedFingerprints, Goto, At, Takes, Is, cacheVars, CacheSame
<1>2. TypeOK /\ RecvInv /\ DeliveredAsSent BY DEF TransferInv
<1>3. /\ stage'["r"] = IF n = left THEN "POPULATE_FROM_NET_CACHE" ELSE "RECV_PACKAGED_FINGERPRINTS"
      /\ stage'["s"] = stage["s"] /\ i'["s"] = i["s"] /\ i' \in [Ends -> Nat]
      /\ n = left => i'["r"] = 1
  <2>1. stage \in [Ends -> SendStages \cup RecvStages] /\ i \in [Ends -> Nat] BY <1>2 DEF TypeOK
  <2>2. CASE n < left /\ stage' = stage /\ i' = i
    <3>1. n # left BY <2>2
    <3> QED BY <1>1, <2>1, <2>2, <3>1
  <2>3. CASE /\ n = left /\ stage' = [stage EXCEPT !["r"] = "POPULATE_FROM_NET_CACHE"]
             /\ i' = [i EXCEPT !["r"] = 1]
    BY <2>1, <2>3 DEF Ends
  <2> QED BY <1>1, <2>2, <2>3
<1>4. ReceiverStep BY <1>1, <1>3 DEF ReceiverStep, SendSame
<1>5. ~ At("r", "RECV_MISSING_CONTENT") BY <1>1 DEF At
<1>6. /\ R <= S /\ recv_req.header = HeaderOf(sent[R]) /\ FirstInv /\ IsFingerprinted(sent[R])
      /\ sent[R] \in Messages
  BY <1>1, <1>2, RecvPosition DEF RecvInv, RecvFirst, RecvFpStages, RecvStages
<1>7. /\ MsgLen(sent[R]) = 2 + Len(fps) /\ Len(fps) \in Nat \ {0} /\ fps \in Seq(Fingerprints)
  BY <1>6, MsgFacts
<1>8. /\ recv_req.num_missing = 0 /\ recv_req.missing = <<>>
      /\ recv_req.offset = 0 /\ recv_req.app_filled_size = 0
      /\ recv_req.num_fingerprints = Len(fps) /\ Len(recv_req.packaged) < Len(fps)
      /\ \A j \in 1 .. Len(recv_req.packaged) : recv_req.packaged[j] = fps[j]
      /\ recv_req.content_ind = 1 /\ recv_req.content_offset = 0
      /\ recv_req.packaged \in Seq(Fingerprints) /\ Len(recv_req.packaged) \in Nat
      /\ recv_req \in RecvReqs /\ IsSeq(recv_req.packaged)
  BY <1>1, <1>2, <1>6, SeqIsSeq DEF FirstInv, TypeOK, RecvReqs
<1>9. left = Len(fps) - Len(recv_req.packaged) /\ left \in Nat BY <1>7, <1>8
<1> HIDE DEF left, fps
<1>10. /\ n \in Nat \ {0} /\ n <= left /\ IsSocket(fwd') /\ Shifts(fwd, n, fwd')
       /\ IsSeq(vals) /\ Len(vals) = n /\ \A k \in 1 .. n : vals[k] = fwd[k].val
  <2>1. IsSocket(fwd) /\ left \in Int BY <1>2, <1>9 DEF TypeOK
  <2>2. Takes(fwd, left, n, fwd', vals) BY <1>1
  <2>3. TakenFrom(fwd, left, n, fwd', vals) BY <2>1, <2>2, RecvEffect, Zenon
  <2> QED BY <2>3, Zenon DEF TakenFrom
<1>11. \A k \in 1 .. n : vals[k] = fps[Len(recv_req.packaged) + k]
  <2> SUFFICES ASSUME NEW k \in 1 .. n PROVE vals[k] = fps[Len(recv_req.packaged) + k]
    OBVIOUS
  <2>1. RecvAt = 2 + Len(recv_req.packaged) BY <1>1 DEF RecvAt
  <2>2. /\ RecvAt \in Nat /\ RecvAt + k <= MsgLen(sent[R])
        /\ RecvAt + k = 2 + (Len(recv_req.packaged) + k)
        /\ Len(recv_req.packaged) + k \in 1 .. Len(fps)
    <3>1. PICK a \in Nat : Is(a, Len(recv_req.packaged)) BY <1>8 DEF Is
    <3>2. PICK l \in Nat : Is(l, Len(fps)) BY <1>7 DEF Is
    <3>3. left = l - a BY <1>9, <3>1, <3>2 DEF Is
    <3>4. a + k \in 1 .. l /\ (2 + a) + k = 2 + (a + k) /\ 2 + (a + k) <= 2 + l
      BY <1>10, <3>3
    <3>5. RecvAt = 2 + a /\ MsgLen(sent[R]) = 2 + l BY <1>7, <2>1, <3>1, <3>2 DEF Is
    <3>6. RecvAt \in Nat BY <3>5
    <3>7. RecvAt + k = 2 + (a + k) BY <3>4, <3>5
    <3>8. RecvAt + k <= MsgLen(sent[R]) BY <3>4, <3>5, <3>7
    <3> QED BY <3>1, <3>2, <3>4, <3>6, <3>7, <3>8 DEF Is
  <2>3. k \in 1 .. Len(fwd)
    <3>1. Len(fwd) \in Nat /\ n <= Len(fwd) BY <1>10, FwdFacts DEF IsSeq, Shifts
    <3> QED BY <1>10, <3>1
  <2>4. fwd[k] = MsgToken(sent[R], RecvAt + k) BY <1>1, <1>5, <1>6, <2>2, <2>3, ReceiverRead
  <2>5. MsgToken(sent[R], 2 + (Len(recv_req.packaged) + k))
          = [type |-> "fingerprint", val |-> fps[Len(recv_req.packaged) + k]]
    BY <1>6, <2>2, TokenFacts DEF fps
  <2> QED BY <1>10, <2>2, <2>4, <2>5
<1>12. /\ IsSeq(pack) /\ Len(pack) = Len(recv_req.packaged) + n
       /\ \A k \in 1 .. Len(recv_req.packaged) : pack[k] = recv_req.packaged[k]
       /\ \A k \in 1 .. n : pack[Len(recv_req.packaged) + k] = vals[k]
  <2>1. /\ IsSeq(recv_req.packaged \o vals)
        /\ Len(recv_req.packaged \o vals) = Len(recv_req.packaged) + Len(vals)
        /\ \A k \in 1 .. Len(recv_req.packaged) :
             (recv_req.packaged \o vals)[k] = recv_req.packaged[k]
        /\ \A k \in 1 .. Len(vals) :
             (recv_req.packaged \o vals)[Len(recv_req.packaged) + k] = vals[k]
    <3>1. IsSeq(recv_req.packaged) /\ IsSeq(vals) BY <1>8, <1>10
    <3> QED BY <3>1, ConcatSeq, SMTT(30)
  <2> QED BY <1>000, <1>10, <2>1 DEF Is
<1>13. Len(pack) <= Len(fps) /\ (n = left <=> Len(pack) = Len(fps)) /\ Len(pack) \in Nat
  BY <1>7, <1>8, <1>9, <1>10, <1>12
<1>14. \A k \in 1 .. Len(pack) : pack[k] = fps[k]
  <2> SUFFICES ASSUME NEW k \in 1 .. Len(pack) PROVE pack[k] = fps[k] OBVIOUS
  <2>1. CASE k <= Len(recv_req.packaged)
    <3>1. k \in 1 .. Len(recv_req.packaged) BY <1>8, <2>1
    <3> QED BY <1>8, <1>12, <3>1
  <2>2. CASE k > Len(recv_req.packaged)
    <3>1. /\ k - Len(recv_req.packaged) \in 1 .. n
          /\ Len(recv_req.packaged) + (k - Len(recv_req.packaged)) = k
      BY <1>8, <1>10, <1>12, <2>2
    <3> QED BY <1>11, <1>12, <3>1
  <2> QED BY <1>8, <1>13, <2>1, <2>2
<1>15. pack \in Seq(Fingerprints)
  <2>1. \A k \in 1 .. Len(pack) : pack[k] \in Fingerprints
    <3> SUFFICES ASSUME NEW k \in 1 .. Len(pack) PROVE pack[k] \in Fingerprints OBVIOUS
    <3>1. k \in 1 .. Len(fps) BY <1>7, <1>13
    <3> QED BY <1>7, <1>14, <3>1
  <2> QED BY <1>12, <2>1, SeqOfMembers
<1>16. /\ recv_req' \in RecvReqs /\ recv_req'.packaged = pack
       /\ recv_req'.header = recv_req.header /\ recv_req'.num_fingerprints = recv_req.num_fingerprints
       /\ recv_req'.num_missing = recv_req.num_missing /\ recv_req'.missing = recv_req.missing
       /\ recv_req'.offset = recv_req.offset /\ recv_req'.content_ind = recv_req.content_ind
       /\ recv_req'.content_offset = recv_req.content_offset
       /\ recv_req'.app_filled_size = recv_req.app_filled_size
  <2>1. recv_req \in RecvReqs BY <1>8
  <2>2. Is(recv_req', [recv_req EXCEPT !.packaged = pack]) BY <1>1
  <2> QED BY <1>15, <2>1, <2>2, PackagedEffect
<1>17. R' = R /\ S' = S BY <1>1 DEF R, S
<1>18. TypeOK'
  <2>1. stage'["r"] \in RecvStages BY <1>3 DEF RecvStages
  <2>2. stage' = stage \/ \E x : stage' = [stage EXCEPT !["r"] = x] BY <1>1
  <2>3. IsSocket(rev') BY <1>1, <1>2 DEF TypeOK
  <2> QED BY <1>1, <1>2, <1>3, <1>4, <1>10, <1>16, <2>1, <2>2, <2>3, ReceiverType
<1>19. RPos' = RPos + n
  <2>1. RecvAt' = 2 + (Len(recv_req.packaged) + n)
    <3>1. CASE n # left BY <1>3, <1>12, <1>16, <3>1 DEF RecvAt
    <3>2. CASE n = left
      <4>1. RecvAt' = MsgLen(sent[R]) BY <1>1, <1>3, <1>17, <3>2 DEF RecvAt
      <4> QED BY <1>7, <1>12, <1>13, <3>2, <4>1
    <3> QED BY <3>1, <3>2
  <2>2. RecvAt = 2 + Len(recv_req.packaged) BY <1>1 DEF RecvAt
  <2>3. StartOf(R)' = StartOf(R) BY <1>1, <1>17 DEF StartOf
  <2>4. StartOf(R) \in Nat BY <1>2, RecvPosition
  <2> QED BY <1>1, <1>8, <1>10, <2>1, <2>2, <2>3, <2>4 DEF RPos
<1>20. FwdInv'
  <2>1. ContentAhead' = 0 BY <1>3 DEF ContentAhead, At
  <2>2. n \in Nat BY <1>10
  <2> QED BY <1>4, <1>5, <1>10, <1>19, <2>1, <2>2, ReceiverPop
<1>21. RevInv'
  <2>1. ~ Asking /\ ~ Asking' /\ ~ At("r", "RECV_COMPLETE") /\ ~ At("r", "RECV_COMPLETE")'
    BY <1>1, <1>3 DEF At, Asking
  <2> QED BY <1>1, <1>4, <1>17, <2>1, EarlyRev
<1>22. TurnInv' BY <1>1, <1>3, <1>4, <1>17, EarlyTurn DEF Late
<1>23. SendInv' BY <1>4, <1>5, SendStays
<1>24. fps = ChunksOf[sent[R]] /\ fps' = fps BY <1>1, <1>17 DEF fps
<1>25. stage'["r"] = "RECV_PACKAGED_FINGERPRINTS" => FirstInv'
  <2> SUFFICES ASSUME stage'["r"] = "RECV_PACKAGED_FINGERPRINTS" PROVE FirstInv' OBVIOUS
  <2>1. Len(pack) < Len(fps) BY <1>3, <1>7, <1>13
  <2>2. ChunksOf[sent'[R']] = fps BY <1>1, <1>17, <1>24
  <2> QED BY <1>3, <1>8, <1>14, <1>16, <2>1, <2>2 DEF FirstInv
<1>26. stage'["r"] = "POPULATE_FROM_NET_CACHE" => ListInv' /\ FilledInv' /\ ProgressInv'
  <2> SUFFICES ASSUME stage'["r"] = "POPULATE_FROM_NET_CACHE"
               PROVE  ListInv' /\ FilledInv' /\ ProgressInv'
    OBVIOUS
  <2>1. n = left /\ i'["r"] = 1 BY <1>3
  <2>2. pack = fps BY <1>7, <1>12, <1>13, <1>14, <2>1, SameSeq, SeqIsSeq
  <2>3. LookedUp' = 0 BY <2>1 DEF LookedUp
  <2>4. recv_req'.missing = <<>> /\ Len(recv_req'.missing) = 0 BY <1>8, <1>16
  <2>5. ListInv'
    <3>1. ChunksOf[sent'[R']] = fps BY <1>1, <1>17, <1>24
    <3>2. recv_req'.packaged = ChunksOf[sent'[R']] BY <1>16, <2>2, <3>1
    <3>3. recv_req'.num_fingerprints = Len(recv_req'.packaged) BY <1>8, <1>16, <2>2
    <3>4. i'["r"] \in 1 .. Len(recv_req'.packaged) BY <1>7, <1>16, <2>1, <2>2
    <3>5. recv_req'.num_missing = 0 BY <1>8, <1>16
    <3> QED BY <2>4, <3>2, <3>3, <3>4, <3>5 DEF ListInv
  <2>6. Missing' = <<>> BY <2>4 DEF Missing
  <2>7. <<>> \in Seq(Fingerprints) /\ Len(<<>>) = 0 OBVIOUS
  <2>8. OffsetOf(<<>>, 1) = 0 /\ OffsetOf(<<>>, 0 + 1) = Size(<<>>) BY <2>7, OffsetFacts
  <2>9. Size(Missing)' = 0 /\ ContentRecvd' = 0
    <3>1. recv_req'.content_ind = 1 /\ recv_req'.content_offset = 0 BY <1>8, <1>16
    <3>2. ContentRecvd' = OffsetOf(Missing', 1) + 0 BY <3>1 DEF ContentRecvd
    <3>3. Size(Missing)' = Size(Missing') OBVIOUS
    <3> QED BY <2>6, <2>8, <3>2, <3>3
  <2>10. FilledInv'
    <3>1. \A j \in 1 .. Len(recv_req'.packaged) : \A q : ~ Filled(j, q)'
      BY <2>3 DEF Filled
    <3>2. SizeUpTo(recv_req'.packaged, LookedUp') = 0
      <4>1. SizeUpTo(pack, 0) = OffsetOf(pack, 0 + 1) /\ OffsetOf(pack, 1) = 0
        <5>1. 0 \in 0 .. Len(pack) BY <1>13
        <5> QED BY <1>15, <5>1, OffsetFacts
      <4> QED BY <1>16, <2>3, <4>1
    <3>3. recv_req'.app_filled_size = 0 BY <1>8, <1>16
    <3> QED BY <2>9, <3>1, <3>2, <3>3 DEF FilledInv
  <2>11. ProgressInv' BY <1>8, <1>16 DEF ProgressInv
  <2> QED BY <2>5, <2>10, <2>11
<1>27. RecvInv'
  BY <1>1, <1>3, <1>6, <1>16, <1>17, <1>25, <1>26
  DEF RecvInv, At, RecvFpStages, RecvFirst, RecvKnown
<1>28. HostHasAll' BY <1>8, <1>16 DEF HostHasAll
<1>29. DeliveredAsSent' BY <1>1, <1>2, DeliveredFrame
<1> QED BY <1>4, <1>18, <1>20, <1>21, <1>22, <1>23, <1>27, <1>28, <1>29, ReceiverBase DEF TransferInv

(* One more chunk at the end of a list.                                    *)
LEMMA SizeAppend ==
  ASSUME NEW fps \in Seq(Fingerprints), NEW gps \in Seq(Fingerprints), NEW n \in Nat,
         Is(n, Len(fps)), Len(gps) = n + 1, \A k \in 1 .. n : gps[k] = fps[k]
  PROVE  Size(gps) = Size(fps) + ContentSize[gps[n + 1]] /\ OffsetOf(gps, 1) = 0
<1>1. n <= Len(gps) /\ n <= Len(fps) /\ n + 1 \in 1 .. n + 1 /\ Len(fps) = n BY DEF Is
<1>2. OffsetOf(gps, n + 1) = OffsetOf(fps, n + 1) BY <1>1, OffsetAgree
<1>3. OffsetOf(fps, n + 1) = Size(fps) BY <1>1, OffsetFacts
<1>4. n + 1 \in 1 .. Len(gps) /\ OffsetOf(gps, Len(gps) + 1) = Size(gps) /\ OffsetOf(gps, 1) = 0
  BY OffsetFacts
<1>5. OffsetOf(gps, n + 1 + 1) = OffsetOf(gps, n + 1) + ContentSize[gps[n + 1]]
  BY <1>4, OffsetFacts
<1> QED BY <1>2, <1>3, <1>4, <1>5

(* The buffer and the filled size of the request change.                   *)
LEMMA FoundEffect ==
  ASSUME NEW req \in RecvReqs, NEW req2, NEW b \in [AppBuf -> Units \cup {Junk}], NEW v \in Nat,
         Is(req2, [req EXCEPT !.app_buffer = b, !.app_filled_size = v])
  PROVE  /\ req2 \in RecvReqs /\ req2.app_buffer = b /\ req2.app_filled_size = v
         /\ req2.header = req.header /\ req2.num_fingerprints = req.num_fingerprints
         /\ req2.packaged = req.packaged
         /\ req2.num_missing = req.num_missing /\ req2.missing = req.missing
         /\ req2.offset = req.offset /\ req2.content_ind = req.content_ind
         /\ req2.content_offset = req.content_offset
<1>1. req2 \in RecvReqs BY DEF RecvReqs, Is
<1> QED BY <1>1 DEF RecvReqs, Is

Copies(req, at, vals, n, req2) ==
  req2 = [req EXCEPT !.app_buffer = Fill(@, at, vals), !.app_filled_size = @ + n]

(* A chunk that was found is copied to its offset.                         *)
LEMMA CopyEffect ==
  ASSUME NEW req \in RecvReqs, NEW at \in Nat, NEW vals, IsSeq(vals),
         \A k \in 1 .. Len(vals) : vals[k] \in Units \cup {Junk}, NEW n \in Nat, NEW req2,
         Copies(req, at, vals, n, req2)
  PROVE  /\ req2 \in RecvReqs /\ req2.app_filled_size = req.app_filled_size + n
         /\ \A p \in AppBuf : p \in at + 1 .. at + Len(vals) => req2.app_buffer[p] = vals[p - at]
         /\ \A p \in AppBuf : p \notin at + 1 .. at + Len(vals) =>
              req2.app_buffer[p] = req.app_buffer[p]
         /\ req2.header = req.header /\ req2.num_fingerprints = req.num_fingerprints
         /\ req2.packaged = req.packaged
         /\ req2.num_missing = req.num_missing /\ req2.missing = req.missing
         /\ req2.offset = req.offset /\ req2.content_ind = req.content_ind
         /\ req2.content_offset = req.content_offset
<1>1. PICK b : Is(b, Fill(req.app_buffer, at, vals)) BY DEF Is
<1>2. req.app_buffer \in [AppBuf -> Units \cup {Junk}] /\ req.app_filled_size + n \in Nat
  BY DEF RecvReqs
<1>3. PICK v \in Nat : v = req.app_filled_size + n BY <1>2
<1>4. Is(req2, [req EXCEPT !.app_buffer = b, !.app_filled_size = v])
  BY <1>1, <1>3 DEF Is, Copies
<1>5. /\ b \in [AppBuf -> Units \cup {Junk}]
      /\ \A p \in AppBuf : p \in at + 1 .. at + Len(vals) => b[p] = vals[p - at]
      /\ \A p \in AppBuf : p \notin at + 1 .. at + Len(vals) => b[p] = req.app_buffer[p]
  BY <1>1, <1>2, FillEffect
<1>6. b \in [AppBuf -> Units \cup {Junk}] BY <1>5
<1>7. /\ req2 \in RecvReqs /\ req2.app_buffer = b /\ req2.app_filled_size = v
      /\ req2.header = req.header /\ req2.num_fingerprints = req.num_fingerprints
      /\ req2.packaged = req.packaged
      /\ req2.num_missing = req.num_missing /\ req2.missing = req.missing
      /\ req2.offset = req.offset /\ req2.content_ind = req.content_ind
      /\ req2.content_offset = req.content_offset
  BY <1>4, <1>6, FoundEffect
<1> QED BY <1>3, <1>5, <1>7

(* The list and the number of missing chunks change.                       *)
LEMMA MissEffect ==
  ASSUME NEW req \in RecvReqs, NEW req2, NEW s \in Seq(Nat), NEW v \in Nat,
         Is(req2, [req EXCEPT !.missing = s, !.num_missing = v])
  PROVE  /\ req2 \in RecvReqs /\ req2.missing = s /\ req2.num_missing = v
         /\ req2.header = req.header /\ req2.num_fingerprints = req.num_fingerprints
         /\ req2.packaged = req.packaged
         /\ req2.offset = req.offset /\ req2.content_ind = req.content_ind
         /\ req2.content_offset = req.content_offset /\ req2.app_buffer = req.app_buffer
         /\ req2.app_filled_size = req.app_filled_size
<1>1. req2 \in RecvReqs BY DEF RecvReqs, Is
<1> QED BY <1>1 DEF RecvReqs, Is

Notes(req, j, req2) == req2 = [req EXCEPT !.missing = Append(@, j), !.num_missing = @ + 1]

(* A chunk that was not found is noted.                                    *)
LEMMA NoteEffect ==
  ASSUME NEW req \in RecvReqs, NEW j \in Nat, NEW req2, Notes(req, j, req2)
  PROVE  /\ req2 \in RecvReqs /\ req2.num_missing = req.num_missing + 1
         /\ Len(req2.missing) = Len(req.missing) + 1 /\ req2.missing[Len(req.missing) + 1] = j
         /\ \A k \in 1 .. Len(req.missing) : req2.missing[k] = req.missing[k]
         /\ req2.header = req.header /\ req2.num_fingerprints = req.num_fingerprints
         /\ req2.packaged = req.packaged
         /\ req2.offset = req.offset /\ req2.content_ind = req.content_ind
         /\ req2.content_offset = req.content_offset /\ req2.app_buffer = req.app_buffer
         /\ req2.app_filled_size = req.app_filled_size
<1>1. req.missing \in Seq(Nat) /\ req.num_missing + 1 \in Nat BY DEF RecvReqs
<1>2. PICK miss2 : Is(miss2, Append(req.missing, j)) BY DEF Is
<1>3. /\ miss2 \in Seq(Nat) /\ Len(miss2) = Len(req.missing) + 1
      /\ miss2[Len(req.missing) + 1] = j
      /\ \A k \in 1 .. Len(req.missing) : miss2[k] = req.missing[k]
  BY <1>1, <1>2, AppendProperties DEF Is
<1>4. PICK v \in Nat : v = req.num_missing + 1 BY <1>1
<1>5. Is(req2, [req EXCEPT !.missing = miss2, !.num_missing = v]) BY <1>2, <1>4 DEF Is, Notes
<1>6. miss2 \in Seq(Nat) BY <1>3
<1>7. /\ req2 \in RecvReqs /\ req2.missing = miss2 /\ req2.num_missing = v
      /\ req2.header = req.header /\ req2.num_fingerprints = req.num_fingerprints
      /\ req2.packaged = req.packaged
      /\ req2.offset = req.offset /\ req2.content_ind = req.content_ind
      /\ req2.content_offset = req.content_offset /\ req2.app_buffer = req.app_buffer
      /\ req2.app_filled_size = req.app_filled_size
  BY <1>5, <1>6, MissEffect
<1> QED BY <1>3, <1>4, <1>7

(* What a turn of the lookup loop leaves alone, and how far it comes. *)
LookupStep ==
  /\ recv_req' \in RecvReqs /\ recv_req'.header = recv_req.header
  /\ recv_req'.num_fingerprints = recv_req.num_fingerprints
  /\ recv_req'.packaged = recv_req.packaged
  /\ recv_req'.offset = recv_req.offset /\ recv_req'.content_ind = recv_req.content_ind
  /\ recv_req'.content_offset = recv_req.content_offset

(* In the lookup loop nothing was asked for yet. *)
LEMMA LookupFacts ==
  ASSUME TransferInv, At("r", "POPULATE_FROM_NET_CACHE")
  PROVE  /\ ListInv /\ FilledInv
         /\ recv_req.content_ind = 1 /\ recv_req.content_offset = 0 /\ recv_req.offset = 0
         /\ recv_req \in RecvReqs
         /\ recv_req.packaged \in Seq(Fingerprints) /\ Len(recv_req.packaged) \in Nat
         /\ i["r"] \in 1 .. Len(recv_req.packaged) /\ LookedUp = i["r"] - 1
         /\ recv_req.packaged[i["r"]] \in Fingerprints
         /\ recv_req.packaged = ChunksOf[sent[R]] /\ sent[R] \in Messages
         /\ recv_req.missing \in Seq(Nat) /\ Len(recv_req.missing) \in Nat
         /\ ContentRecvd = 0 /\ Missing \in Seq(Fingerprints) /\ Size(Missing) \in Nat
         /\ recv_req.app_filled_size \in Nat
         /\ recv_req.app_filled_size + Size(Missing) = OffsetOf(recv_req.packaged, i["r"])
<1>1. /\ TypeOK /\ DeliveredAsSent /\ RecvInv /\ active_fds["r"]
      /\ stage["r"] = "POPULATE_FROM_NET_CACHE" /\ stage["r"] \in RecvKnown
  BY DEF TransferInv, At, RecvKnown, RecvFpStages, RecvFirst, RecvStages
<1>2. ListInv /\ FilledInv /\ ProgressInv BY <1>1 DEF RecvInv
<1>3. /\ recv_req.content_ind = 1 /\ recv_req.content_offset = 0 /\ recv_req.offset = 0
  BY <1>1, <1>2 DEF ProgressInv
<1>4. /\ recv_req \in RecvReqs /\ recv_req.missing \in Seq(Nat) /\ recv_req.app_filled_size \in Nat
      /\ i \in [Ends -> Nat]
  BY <1>1 DEF TypeOK, RecvReqs
<1>5. /\ recv_req.packaged \in Seq(Fingerprints) /\ sent[R] \in Messages
      /\ recv_req.packaged = ChunksOf[sent[R]] /\ Missing \in Seq(Fingerprints)
  BY <1>1, MissingFacts
<1>6. i["r"] \in 1 .. Len(recv_req.packaged) /\ LookedUp = i["r"] - 1
  BY <1>1, <1>2 DEF ListInv, LookedUp
<1>7. Len(recv_req.packaged) \in Nat /\ Len(recv_req.missing) \in Nat BY <1>4, <1>5
<1>8. recv_req.packaged[i["r"]] \in Fingerprints BY <1>5, <1>6
<1>9. OffsetOf(Missing, 1) = 0 /\ Size(Missing) \in Nat BY <1>5, OffsetFacts
<1>10. ContentRecvd = 0 BY <1>3, <1>9 DEF ContentRecvd
<1>11. SizeUpTo(recv_req.packaged, i["r"] - 1) = OffsetOf(recv_req.packaged, i["r"])
  BY DEF OffsetOf
<1>12. recv_req.app_filled_size + Size(Missing) = OffsetOf(recv_req.packaged, i["r"])
  BY <1>2, <1>4, <1>6, <1>9, <1>10, <1>11 DEF FilledInv
<1> QED BY <1>2, <1>3, <1>4, <1>5, <1>6, <1>7, <1>8, <1>9, <1>10, <1>12

(* What is copied for a fingerprint: its content, or anything while it is  *)
(* inserted.                                                               *)
FoundAs(f, vals) ==
  \/ cache[HostOf["r"]][f] # Absent /\ vals = cache[HostOf["r"]][f]
  \/ /\ vals = [k \in 1 .. ContentSize[f] |-> Junk]
     /\ torn' = torn \cup {Len(delivered) + 1}

(* A chunk that the cache has, or that is being inserted.                  *)
LEMMA FoundKeeps ==
  ASSUME TransferInv, At("r", "POPULATE_FROM_NET_CACHE"), LookedUp' = i["r"],
         stage'["r"] = "POPULATE_FROM_NET_CACHE" => i'["r"] \in 1 .. Len(recv_req.packaged),
         sent' = sent, delivered' = delivered, CacheSame,
         NEW f, Is(f, recv_req.packaged[i["r"]]), NEW vals, FoundAs(f, vals),
         Copies(recv_req, OffsetOf(recv_req.packaged, i["r"]), vals,
                ContentSize[f], recv_req')
  PROVE  LookupStep /\ ListInv' /\ FilledInv' /\ HostHasAll'
<1> DEFINE fps == recv_req.packaged
           c == i["r"]
<1>1. /\ ListInv /\ FilledInv
      /\ recv_req.content_ind = 1 /\ recv_req.content_offset = 0 /\ recv_req.offset = 0
      /\ recv_req \in RecvReqs
      /\ fps \in Seq(Fingerprints) /\ Len(fps) \in Nat
      /\ c \in 1 .. Len(fps) /\ LookedUp = c - 1 /\ f \in Fingerprints
      /\ fps = ChunksOf[sent[R]] /\ sent[R] \in Messages
      /\ ContentRecvd = 0 /\ Size(Missing) \in Nat
      /\ recv_req.app_filled_size \in Nat
      /\ recv_req.app_filled_size + Size(Missing) = OffsetOf(fps, c)
  BY LookupFacts DEF Is
<1>2. TypeOK /\ CachesRight /\ AnnouncedInv BY DEF TransferInv
<1>3. HostOf["r"] \in Hosts /\ R = Len(delivered) + 1 BY DEF Hosts, Ends, R
<1>4. /\ IsSeq(vals) /\ Len(vals) = ContentSize[f] /\ ContentSize[f] \in Nat
      /\ \A k \in 1 .. ContentSize[f] : vals[k] = <<f, k>> \/ (R \in torn' /\ vals[k] = Junk)
      /\ \A k \in 1 .. Len(vals) : vals[k] \in Units \cup {Junk}
  <2>1. ContentSize[f] \in Nat BY <1>1, TransferAssumption
  <2>2. CASE cache[HostOf["r"]][f] # Absent /\ vals = cache[HostOf["r"]][f]
    <3>1. vals = Content(f) BY <1>1, <1>2, <1>3, <2>2 DEF CachesRight
    <3>2. Content(f) \in Seq(Units) /\ Len(Content(f)) = ContentSize[f] BY <1>1, ContentSeq
    <3>3. \A k \in 1 .. ContentSize[f] : Content(f)[k] = <<f, k>> BY DEF Content
    <3> QED BY <2>1, <3>1, <3>2, <3>3, SeqIsSeq
  <2>3. CASE /\ vals = [k \in 1 .. ContentSize[f] |-> Junk]
             /\ torn' = torn \cup {Len(delivered) + 1}
    <3>1. Len(vals) = ContentSize[f] BY <2>1, <2>3
    <3>2. IsSeq(vals) BY <2>1, <2>3, <3>1 DEF IsSeq
    <3> QED BY <1>3, <2>1, <2>3, <3>1, <3>2
  <2> QED BY <2>2, <2>3 DEF FoundAs
<1>5. OffsetOf(fps, c) \in Nat
  <2>1. c \in 1 .. Len(fps) + 1 BY <1>1
  <2> QED BY <1>1, <2>1, OffsetFacts
<1>6. Copies(recv_req, OffsetOf(fps, c), vals, ContentSize[f], recv_req') OBVIOUS
<1>7. PICK buf2 : buf2 = recv_req'.app_buffer OBVIOUS
<1> HIDE DEF fps, c
<1>8. /\ recv_req' \in RecvReqs
      /\ recv_req'.app_filled_size = recv_req.app_filled_size + ContentSize[f]
      /\ \A p \in AppBuf : p \in OffsetOf(fps, c) + 1 .. OffsetOf(fps, c) + Len(vals) =>
           recv_req'.app_buffer[p] = vals[p - OffsetOf(fps, c)]
      /\ \A p \in AppBuf : p \notin OffsetOf(fps, c) + 1 .. OffsetOf(fps, c) + Len(vals) =>
           recv_req'.app_buffer[p] = recv_req.app_buffer[p]
      /\ recv_req'.header = recv_req.header
      /\ recv_req'.num_fingerprints = recv_req.num_fingerprints
      /\ recv_req'.packaged = recv_req.packaged
      /\ recv_req'.num_missing = recv_req.num_missing /\ recv_req'.missing = recv_req.missing
      /\ recv_req'.offset = recv_req.offset /\ recv_req'.content_ind = recv_req.content_ind
      /\ recv_req'.content_offset = recv_req.content_offset
  <2>1. recv_req \in RecvReqs BY <1>1
  <2>2. IsSeq(vals) /\ \A k \in 1 .. Len(vals) : vals[k] \in Units \cup {Junk} BY <1>4
  <2>3. ContentSize[f] \in Nat BY <1>4
  <2> QED BY <1>5, <1>6, <2>1, <2>2, <2>3, CopyEffect
<1>9. /\ LookupStep /\ recv_req'.packaged = recv_req.packaged
      /\ recv_req'.num_missing = recv_req.num_missing /\ recv_req'.missing = recv_req.missing
  BY <1>8 DEF LookupStep
<1>10. R' = R BY DEF R
<1>11. Missing' = Missing BY <1>9 DEF Missing, LookupStep
<1>12. ContentRecvd' = ContentRecvd BY <1>9, <1>11 DEF ContentRecvd, LookupStep
<1>13. LookedUp' = c BY DEF c
<1>14. ListInv'
  <2>1. \A k \in 1 .. Len(recv_req.missing) : recv_req.missing[k] \in 1 .. c
    BY <1>1 DEF ListInv
  <2> QED BY <1>1, <1>9, <1>10, <1>13, <2>1 DEF ListInv, LookupStep, fps
<1>15. ASSUME NEW j \in 1 .. Len(fps), NEW q \in 1 .. ContentSize[fps[j]], Filled(j, q)'
       PROVE  \/ buf2[OffsetOf(fps, j) + q] = <<fps[j], q>>
              \/ /\ R \in torn' /\ buf2[OffsetOf(fps, j) + q] = Junk
                 /\ \A k \in 1 .. Len(recv_req.missing) : recv_req.missing[k] # j
  <2>1. OffsetOf(fps, j) + q \in 1 .. Size(fps) /\ Data(fps)[OffsetOf(fps, j) + q] = <<fps[j], q>>
    BY <1>1, DataAt
  <2>2. PICK p : p = OffsetOf(fps, j) + q OBVIOUS
  <2>3. p \in AppBuf /\ p \in Int
    <3>1. p \in 1 .. Size(ChunksOf[sent[R]]) BY <1>1, <2>1, <2>2
    <3>2. p \in AppBuf BY <1>1, <3>1, AppBufFacts
    <3>3. p \in Int BY <3>1
    <3> QED BY <3>2, <3>3
  <2>4. CASE p \in OffsetOf(fps, c) + 1 .. OffsetOf(fps, c) + ContentSize[f]
    <3>1. p - OffsetOf(fps, c) \in 1 .. ContentSize[f] BY <1>4, <1>5, <2>3, <2>4
    <3>2. \/ buf2[p] = <<f, p - OffsetOf(fps, c)>>
          \/ R \in torn' /\ buf2[p] = Junk
      BY <1>4, <1>7, <1>8, <2>3, <2>4, <3>1
    <3>3. f = fps[c] BY DEF Is, fps, c
    <3>4. Data(fps)[OffsetOf(fps, c) + (p - OffsetOf(fps, c))] = <<f, p - OffsetOf(fps, c)>>
      BY <1>1, <3>1, <3>3, DataAt
    <3>5. OffsetOf(fps, c) + (p - OffsetOf(fps, c)) = p BY <1>5, <2>3
    <3>6. j = c
      <4>1. OffsetOf(fps, j) \in Nat
        <5>1. j \in 1 .. Len(fps) + 1 BY <1>1
        <5> QED BY <1>1, <5>1, OffsetFacts
      <4>2. ContentSize[fps[j]] \in Nat BY <1>1, SizesFacts
      <4>3. OffsetOf(fps, j) < p /\ p <= OffsetOf(fps, j) + ContentSize[fps[j]]
        BY <2>2, <4>1, <4>2
      <4>4. OffsetOf(fps, c) < p /\ p <= OffsetOf(fps, c) + ContentSize[fps[c]]
        BY <1>4, <1>5, <2>3, <2>4, <3>3
      <4> QED BY <1>1, <2>3, <4>3, <4>4, ByteIn
    <3>7. \A k \in 1 .. Len(recv_req.missing) : recv_req.missing[k] # j
      BY <1>1, <3>6 DEF ListInv
    <3> QED BY <2>1, <2>2, <3>2, <3>4, <3>5, <3>7
  <2>5. CASE p \notin OffsetOf(fps, c) + 1 .. OffsetOf(fps, c) + ContentSize[f]
    <3>1. j # c
      <4> SUFFICES ASSUME j = c PROVE FALSE OBVIOUS
      <4>1. f = fps[j] BY DEF Is, fps, c
      <4> QED BY <1>4, <1>5, <2>2, <2>5, <4>1
    <3>2. j <= c BY <1>13, <1>15 DEF Filled
    <3>3. j <= c - 1 BY <1>1, <3>1, <3>2
    <3>4. Filled(j, q) BY <1>1, <1>8, <1>15, <3>3 DEF Filled
    <3>5. \/ recv_req.app_buffer[OffsetOf(fps, j) + q] = <<fps[j], q>>
          \/ /\ R \in torn /\ recv_req.app_buffer[OffsetOf(fps, j) + q] = Junk
             /\ \A k \in 1 .. Len(recv_req.missing) : recv_req.missing[k] # j
      BY <1>1, <1>15, <3>4 DEF FilledInv, fps
    <3>6. buf2[p] = recv_req.app_buffer[p] BY <1>4, <1>8, <1>7, <2>3, <2>5
    <3>7. R \in torn => R \in torn' BY DEF CacheSame
    <3> QED BY <2>2, <3>5, <3>6, <3>7
  <2> QED BY <2>2, <2>4, <2>5
<1>16. FilledInv'
  <2>1. SizeUpTo(fps, c) = OffsetOf(fps, c) + ContentSize[f]
    <3>1. c \in 0 .. Len(fps) /\ f = fps[c] BY <1>1, SMTT(30) DEF Is, fps, c
    <3>2. OffsetOf(fps, c + 1) = OffsetOf(fps, c) + ContentSize[fps[c]] BY <1>1, OffsetFacts
    <3> QED BY <1>1, <3>1, <3>2, OffsetFacts
  <2>2. recv_req'.packaged = fps BY <1>8 DEF fps
  <2>3. recv_req'.app_filled_size + (Size(Missing') - ContentRecvd') = SizeUpTo(fps, c)
    BY <1>1, <1>4, <1>8, <1>11, <1>12, <2>1
  <2> QED BY <1>13, <1>15, <1>7, <1>9, <1>10, <2>2, <2>3 DEF FilledInv
<1>17. HostHasAll' BY <1>2, <1>8 DEF AnnouncedInv, HostHasAll, CacheSame
<1> QED BY <1>9, <1>14, <1>16, <1>17

(* A chunk that the cache has not: the sender's host has no cache in       *)
(* common with the receiver's, or its inserts have stopped.                *)
LEMMA MissKeeps ==
  ASSUME TransferInv, At("r", "POPULATE_FROM_NET_CACHE"), Is(LookedUp', i["r"]),
         stage'["r"] = "POPULATE_FROM_NET_CACHE" => i'["r"] \in 1 .. Len(recv_req.packaged),
         sent' = sent, delivered' = delivered, CacheSame,
         NEW f, Is(f, recv_req.packaged[i["r"]]),
         cache[HostOf["r"]][f] = Absent,
         Notes(recv_req, i["r"], recv_req')
  PROVE  LookupStep /\ ListInv' /\ FilledInv' /\ HostHasAll'
<1> DEFINE fps == recv_req.packaged
           c == i["r"]
           miss == recv_req.missing
<1>1. /\ ListInv /\ FilledInv
      /\ recv_req.content_ind = 1 /\ recv_req.content_offset = 0
      /\ recv_req \in RecvReqs /\ miss \in Seq(Nat) /\ Len(miss) \in Nat
      /\ fps \in Seq(Fingerprints) /\ Len(fps) \in Nat
      /\ c \in 1 .. Len(fps) /\ LookedUp = c - 1 /\ f \in Fingerprints
      /\ fps = ChunksOf[sent[R]] /\ sent[R] \in Messages
      /\ Missing \in Seq(Fingerprints)
      /\ ContentRecvd = 0 /\ Size(Missing) \in Nat
      /\ recv_req.app_filled_size \in Nat
      /\ recv_req.app_filled_size + Size(Missing) = OffsetOf(fps, c)
  BY LookupFacts DEF Is
<1>2. TypeOK /\ AnnouncedInv /\ SendInv BY DEF TransferInv
<1>3. PICK miss2 : miss2 = recv_req'.missing OBVIOUS
<1>4. recv_req.num_missing = Len(miss) BY <1>1 DEF ListInv
<1>5. /\ recv_req' \in RecvReqs /\ recv_req'.num_missing = recv_req.num_missing + 1
      /\ Len(recv_req'.missing) = Len(miss) + 1 /\ recv_req'.missing[Len(miss) + 1] = c
      /\ \A k \in 1 .. Len(miss) : recv_req'.missing[k] = miss[k]
      /\ recv_req'.header = recv_req.header
      /\ recv_req'.num_fingerprints = recv_req.num_fingerprints
      /\ recv_req'.packaged = recv_req.packaged
      /\ recv_req'.offset = recv_req.offset /\ recv_req'.content_ind = recv_req.content_ind
      /\ recv_req'.content_offset = recv_req.content_offset
      /\ recv_req'.app_buffer = recv_req.app_buffer
      /\ recv_req'.app_filled_size = recv_req.app_filled_size
  <2>1. recv_req \in RecvReqs /\ c \in Nat BY <1>1
  <2> QED BY <2>1, NoteEffect
<1>6. /\ LookupStep /\ recv_req'.missing = miss2 /\ recv_req'.num_missing = Len(miss) + 1
      /\ recv_req'.app_buffer = recv_req.app_buffer
      /\ recv_req'.app_filled_size = recv_req.app_filled_size
      /\ recv_req'.packaged = fps
  BY <1>3, <1>4, <1>5 DEF LookupStep
<1>7. /\ miss2 \in Seq(Nat) /\ Len(miss2) = Len(miss) + 1 /\ miss2[Len(miss) + 1] = c
       /\ \A k \in 1 .. Len(miss) : miss2[k] = miss[k]
  <2>1. recv_req'.missing \in Seq(Nat) BY <1>5 DEF RecvReqs
  <2> QED BY <1>3, <1>5, <2>1
<1>8. R' = R /\ LookedUp' = c BY DEF R, Is
<1>9. \A k \in 1 .. Len(miss) : miss[k] \in 1 .. c - 1 BY <1>1 DEF ListInv
<1>10. \A j, k \in 1 .. Len(miss) : j < k => miss[j] < miss[k] BY <1>1 DEF ListInv
<1>11. recv_req.num_fingerprints = Len(fps) BY <1>1 DEF ListInv
<1>12. f = fps[c] BY DEF Is
<1> HIDE DEF fps, c, miss
<1>13. \A k \in 1 .. Len(miss2) : k \in 1 .. Len(miss) \/ k = Len(miss) + 1
  <2>1. PICK a \in Nat : Is(a, Len(miss)) BY <1>1 DEF Is
  <2>2. Len(miss2) = a + 1 BY <1>7, <2>1 DEF Is
  <2>3. \A k \in 1 .. a + 1 : k \in 1 .. a \/ k = a + 1 OBVIOUS
  <2> QED BY <2>1, <2>2, <2>3 DEF Is
<1>14. ListInv'
  <2>1. \A k \in 1 .. Len(miss2) : miss2[k] \in 1 .. c
    <3> SUFFICES ASSUME NEW k \in 1 .. Len(miss2) PROVE miss2[k] \in 1 .. c OBVIOUS
    <3>1. CASE k = Len(miss) + 1 BY <1>1, <1>7, <3>1
    <3>2. CASE k # Len(miss) + 1
      <4>1. k \in 1 .. Len(miss) BY <1>13, <3>2
      <4>2. miss2[k] \in 1 .. c - 1 BY <1>7, <1>9, <4>1
      <4> QED BY <1>1, <4>2
    <3> QED BY <3>1, <3>2
  <2>2. \A j, k \in 1 .. Len(miss2) : j < k => miss2[j] < miss2[k]
    <3> SUFFICES ASSUME NEW j \in 1 .. Len(miss2), NEW k \in 1 .. Len(miss2), j < k
                 PROVE  miss2[j] < miss2[k]
      OBVIOUS
    <3>1. j \in 1 .. Len(miss) BY <1>1, <1>7
    <3>2. CASE k = Len(miss) + 1
      <4>1. miss2[j] \in 1 .. c - 1 BY <1>7, <1>9, <3>1
      <4> QED BY <1>1, <1>7, <3>2, <4>1
    <3>3. CASE k # Len(miss) + 1
      <4>1. k \in 1 .. Len(miss) BY <1>13, <3>3
      <4> QED BY <1>7, <1>10, <3>1, <4>1
    <3> QED BY <3>2, <3>3
  <2>3. stage'["r"] = "POPULATE_FROM_NET_CACHE" => i'["r"] \in 1 .. Len(fps) BY DEF fps
  <2>4. recv_req'.num_fingerprints = Len(fps) BY <1>6, <1>11 DEF LookupStep
  <2>5. recv_req'.num_missing = Len(miss2) BY <1>7, <1>6
  <2>6. fps = ChunksOf[sent'[R']] BY <1>1, <1>8
  <2> QED BY <1>6, <1>8, <2>1, <2>2, <2>3, <2>4, <2>5, <2>6 DEF ListInv
<1>15. /\ Missing' \in Seq(Fingerprints) /\ Len(Missing') = Len(miss) + 1
       /\ \A k \in 1 .. Len(miss) : Missing'[k] = Missing[k]
       /\ Missing'[Len(miss) + 1] = f /\ Len(Missing) = Len(miss)
  <2>1. Missing' = [k \in 1 .. Len(miss2) |-> fps[miss2[k]]] BY <1>6 DEF Missing
  <2>2. Missing = [k \in 1 .. Len(miss) |-> fps[miss[k]]] BY DEF Missing, miss, fps
  <2>3. \A k \in 1 .. Len(miss2) : fps[miss2[k]] \in Fingerprints
    <3> SUFFICES ASSUME NEW k \in 1 .. Len(miss2) PROVE fps[miss2[k]] \in Fingerprints OBVIOUS
    <3>1. CASE k = Len(miss) + 1 BY <1>1, <1>7, <1>12, <3>1
    <3>2. CASE k # Len(miss) + 1
      <4>1. k \in 1 .. Len(miss) BY <1>13, <3>2
      <4>2. miss2[k] \in 1 .. Len(fps)
        <5>1. miss2[k] \in 1 .. c - 1 BY <1>7, <1>9, <4>1
        <5> QED BY <1>1, <5>1
      <4> QED BY <1>1, <4>2
    <3> QED BY <3>1, <3>2
  <2>4. Len(miss2) \in Nat BY <1>7
  <2>5. Missing' \in Seq(Fingerprints) /\ Len(Missing') = Len(miss2) BY <2>1, <2>3, <2>4
  <2>6. Len(Missing) = Len(miss) BY <1>1, <2>2
  <2>7. \A k \in 1 .. Len(miss) : Missing'[k] = Missing[k]
    <3> SUFFICES ASSUME NEW k \in 1 .. Len(miss) PROVE Missing'[k] = Missing[k] OBVIOUS
    <3>1. k \in 1 .. Len(miss2) BY <1>1, <1>7
    <3> QED BY <1>7, <2>1, <2>2, <3>1
  <2>8. Missing'[Len(miss) + 1] = f
    <3>1. Len(miss) + 1 \in 1 .. Len(miss2) BY <1>1, <1>7
    <3> QED BY <1>7, <1>12, <2>1, <3>1
  <2> QED BY <1>7, <2>5, <2>6, <2>7, <2>8
<1>16. Size(Missing') = Size(Missing) + ContentSize[f] /\ OffsetOf(Missing', 1) = 0
  <2>1. PICK n \in Nat : n = Len(miss) BY <1>1
  <2>2. /\ Missing' \in Seq(Fingerprints) /\ Len(Missing') = n + 1 /\ Is(n, Len(Missing))
        /\ \A k \in 1 .. n : Missing'[k] = Missing[k]
    BY <1>15, <2>1 DEF Is
  <2>3. Size(Missing') = Size(Missing) + ContentSize[Missing'[n + 1]] /\ OffsetOf(Missing', 1) = 0
    BY <1>1, <2>2, SizeAppend
  <2> QED BY <1>15, <2>1, <2>3
<1>17. ContentRecvd' = 0
  <2>1. recv_req'.content_ind = 1 /\ recv_req'.content_offset = 0 BY <1>1, <1>6 DEF LookupStep
  <2> QED BY <1>16, <2>1 DEF ContentRecvd
<1>18. ASSUME NEW j \in 1 .. Len(fps), NEW q \in 1 .. ContentSize[fps[j]], Filled(j, q)'
       PROVE  \/ recv_req.app_buffer[OffsetOf(fps, j) + q] = <<fps[j], q>>
              \/ /\ R \in torn' /\ recv_req.app_buffer[OffsetOf(fps, j) + q] = Junk
                 /\ \A k \in 1 .. Len(miss2) : miss2[k] # j
  <2>1. q \in Nat \ {0} OBVIOUS
  <2>2. /\ recv_req'.content_ind = 1 /\ recv_req'.content_offset = 0 BY <1>1, <1>6 DEF LookupStep
  <2>3. \A k \in 1 .. Len(miss2) : miss2[k] # j
    BY <1>6, <1>18, <2>1, <2>2 DEF Filled
  <2>4. j # c
    <3>1. Len(miss) + 1 \in 1 .. Len(miss2) BY <1>1, <1>7
    <3> QED BY <1>7, <2>3, <3>1
  <2>5. j <= c BY <1>8, <1>18 DEF Filled
  <2>6. j <= c - 1 BY <1>1, <2>4, <2>5
  <2>7. \A k \in 1 .. Len(miss) : miss[k] # j
    <3> SUFFICES ASSUME NEW k \in 1 .. Len(miss) PROVE miss[k] # j OBVIOUS
    <3>1. k \in 1 .. Len(miss2) BY <1>1, <1>7
    <3> QED BY <1>7, <2>3, <3>1
  <2>8. Filled(j, q) BY <1>1, <2>6, <2>7 DEF Filled, miss
  <2>9. R \in torn => R \in torn' BY DEF CacheSame
  <2> QED BY <1>1, <2>3, <2>8, <2>9 DEF FilledInv, fps
<1>19. FilledInv'
  <2>1. SizeUpTo(fps, c) = OffsetOf(fps, c) + ContentSize[f]
    <3>1. c \in 0 .. Len(fps) BY <1>1
    <3>2. OffsetOf(fps, c + 1) = OffsetOf(fps, c) + ContentSize[fps[c]] BY <1>1, OffsetFacts
    <3> QED BY <1>1, <1>12, <3>1, <3>2, OffsetFacts
  <2>2. ContentSize[f] \in Nat BY <1>1, TransferAssumption
  <2>3. recv_req'.app_filled_size + (Size(Missing') - ContentRecvd') = SizeUpTo(fps, c)
    BY <1>1, <1>6, <1>16, <1>17, <2>1, <2>2
  <2> QED BY <1>6, <1>8, <1>18, <2>3 DEF FilledInv
<1>20. HostHasAll'
  <2> SUFFICES ASSUME HostOf["s"] = HostOf["r"], ~ to_skip_insert_cache["s"] PROVE FALSE
    BY DEF HostHasAll, CacheSame
  <2>1. /\ R = S /\ active_fds["s"]
        /\ stage["s"] \in {"RECV_MISSING_FINGERPRINT_HEADER", "RECV_MISSING_FINGERPRINTS"}
    BY KnownWaits DEF At, RecvKnown, RecvFpStages, RecvFirst, RecvStages, Late
  <2>2. PastInsert(c) BY <2>1 DEF PastInsert, SendFpStages, SendStages
  <2>3. send_req.packaged = fps
    BY <1>1, <1>2, <2>1 DEF SendInv, SendFpStages, SendStages
  <2>4. cache[HostOf["s"]][fps[c]] # Absent BY <1>1, <1>2, <2>1, <2>2, <2>3 DEF AnnouncedInv
  <2> QED BY <1>12, <2>4
<1> QED BY <1>6, <1>14, <1>19, <1>20

(* process_populate_from_net_cache: one lookup, and after the last the     *)
(* receiver asks or is done.                                               *)
LEMMA PopulateFromNetCacheKeeps ==
  ASSUME TransferInv, PopulateFromNetCache \/ PopulateTorn
  PROVE  TransferInv'
<1> DEFINE st == IF i["r"] < recv_req.num_fingerprints
                   THEN "POPULATE_FROM_NET_CACHE" ELSE "SEND_MISSING_FINGERPRINT_HEADER"
<1>0. PICK f : Is(f, recv_req.packaged[i["r"]]) BY DEF Is
<1>1. /\ active_fds["r"] /\ stage["r"] = "POPULATE_FROM_NET_CACHE"
      /\ \/ \E vals :
              /\ FoundAs(f, vals)
              /\ Copies(recv_req, OffsetOf(recv_req.packaged, i["r"]), vals,
                        ContentSize[f], recv_req')
         \/ cache[HostOf["r"]][f] = Absent
            /\ Notes(recv_req, i["r"], recv_req')
      /\ i' = [i EXCEPT !["r"] = i["r"] + 1]
      /\ \/ i["r"] < recv_req.num_fingerprints /\ stage' = stage
         \/ ~ (i["r"] < recv_req.num_fingerprints)
            /\ stage' = [stage EXCEPT !["r"] = "SEND_MISSING_FINGERPRINT_HEADER"]
      /\ sent' = sent /\ delivered' = delivered /\ fwd' = fwd /\ rev' = rev
      /\ active_fds' = active_fds /\ send_req' = send_req /\ CacheSame
  <2>1. CASE PopulateFromNetCache
    BY <1>0, <2>1
    DEF PopulateFromNetCache, Goto, At, Is, FoundAs, Copies, Notes, netVars, cacheVars, CacheSame
  <2>2. CASE PopulateTorn
    BY <1>0, <2>2 DEF PopulateTorn, Goto, At, Is, FoundAs, Copies, netVars, CacheSame
  <2> QED BY <2>1, <2>2
<1>2. TypeOK /\ RecvInv /\ DeliveredAsSent BY DEF TransferInv
<1>3. /\ stage'["r"] = st /\ stage'["s"] = stage["s"]
      /\ i'["s"] = i["s"] /\ i'["r"] = i["r"] + 1 /\ i' \in [Ends -> Nat]
  <2>1. stage \in [Ends -> SendStages \cup RecvStages] /\ i \in [Ends -> Nat] BY <1>2 DEF TypeOK
  <2>2. i["r"] + 1 \in Nat BY <2>1 DEF Ends
  <2>3. stage'["r"] = st /\ stage'["s"] = stage["s"] BY <1>1, <2>1 DEF Ends
  <2>4. i'["s"] = i["s"] /\ i'["r"] = i["r"] + 1 /\ i' \in [Ends -> Nat] BY <1>1, <2>1, <2>2 DEF Ends
  <2> QED BY <2>3, <2>4
<1>4. ReceiverStep BY <1>1, <1>3 DEF ReceiverStep, SendSame
<1>5. At("r", "POPULATE_FROM_NET_CACHE") /\ ~ At("r", "RECV_MISSING_CONTENT") BY <1>1 DEF At
<1>6. /\ ListInv /\ recv_req.content_ind = 1 /\ recv_req.content_offset = 0 /\ recv_req.offset = 0
      /\ Len(recv_req.packaged) \in Nat /\ i["r"] \in 1 .. Len(recv_req.packaged)
  BY <1>5, LookupFacts
<1>7. recv_req.num_fingerprints = Len(recv_req.packaged) BY <1>6 DEF ListInv
<1>8. stage'["r"] = "POPULATE_FROM_NET_CACHE" => i'["r"] \in 1 .. Len(recv_req.packaged)
  BY <1>3, <1>6, <1>7
<1>9. recv_req'.packaged = recv_req.packaged
  <2>1. recv_req \in RecvReqs BY <1>2 DEF TypeOK
  <2> QED BY <1>1, <2>1 DEF Notes, Copies, RecvReqs
<1>10. LookedUp' = i["r"] BY <1>3, <1>6, <1>7, <1>9 DEF LookedUp
<1>11. LookupStep /\ ListInv' /\ FilledInv' /\ HostHasAll'
  BY <1>0, <1>1, <1>5, <1>8, <1>10, FoundKeeps, MissKeeps DEF Is
<1> HIDE DEF st
<1>12. stage'["r"] \in {"POPULATE_FROM_NET_CACHE", "SEND_MISSING_FINGERPRINT_HEADER"} BY <1>3 DEF st
<1>13. R' = R /\ S' = S BY <1>1 DEF R, S
<1>14. TypeOK'
  <2>1. stage'["r"] \in RecvStages BY <1>12 DEF RecvStages
  <2>2. stage' = stage \/ \E x : stage' = [stage EXCEPT !["r"] = x] BY <1>1
  <2>3. IsSocket(fwd') /\ IsSocket(rev') BY <1>1, <1>2 DEF TypeOK
  <2>4. recv_req' \in RecvReqs BY <1>11 DEF LookupStep
  <2> QED BY <1>1, <1>2, <1>3, <1>4, <2>1, <2>2, <2>3, <2>4, ReceiverType
<1>15. FwdInv'
  <2>1. ContentAhead' = ContentAhead /\ ContentAhead = 0 BY <1>5, <1>12 DEF ContentAhead, At
  <2>2. RecvAt' = MsgLen(sent[R]) /\ RecvAt = MsgLen(sent[R]) BY <1>1, <1>12, <1>13 DEF RecvAt
  <2>3. StartOf(R)' = StartOf(R) BY <1>1, <1>13 DEF StartOf
  <2>4. RPos' = RPos BY <1>1, <2>2, <2>3 DEF RPos
  <2> QED BY <1>1, <1>4, <2>1, <2>4, FwdStay, ReceiverBase
<1>16. RevInv'
  <2>1. ~ Asking /\ ~ Asking' /\ ~ At("r", "RECV_COMPLETE") /\ ~ At("r", "RECV_COMPLETE")'
    BY <1>1, <1>12 DEF At, Asking
  <2> QED BY <1>1, <1>4, <1>13, <2>1, EarlyRev
<1>17. TurnInv' BY <1>1, <1>4, <1>12, <1>13, EarlyTurn DEF Late
<1>18. SendInv' BY <1>4, <1>5, SendStays
<1>19. RecvInv'
  <2>1. ProgressInv' BY <1>6, <1>11, <1>12 DEF ProgressInv, LookupStep
  <2>2. /\ R <= S /\ recv_req.header = HeaderOf(sent[R]) /\ IsFingerprinted(sent[R])
    BY <1>1, <1>2 DEF RecvInv, RecvFpStages, RecvStages
  <2>3. recv_req'.header = recv_req.header BY <1>11 DEF LookupStep
  <2> QED BY <1>1, <1>11, <1>12, <1>13, <2>1, <2>2, <2>3
      DEF RecvInv, At, RecvFpStages, RecvFirst, RecvKnown
<1>20. DeliveredAsSent' BY <1>1, <1>2, DeliveredFrame
<1> QED BY <1>4, <1>11, <1>14, <1>15, <1>16, <1>17, <1>18, <1>19, <1>20, ReceiverBase DEF TransferInv

(* The receiver has looked up every chunk, and goes on with its list. *)
KnownSame ==
  /\ recv_req'.packaged = recv_req.packaged
  /\ recv_req'.num_fingerprints = recv_req.num_fingerprints
  /\ recv_req'.missing = recv_req.missing /\ recv_req'.num_missing = recv_req.num_missing
  /\ recv_req'.content_ind = recv_req.content_ind
  /\ recv_req'.content_offset = recv_req.content_offset
  /\ recv_req'.app_buffer = recv_req.app_buffer
  /\ recv_req'.app_filled_size = recv_req.app_filled_size

(* A step that leaves the buffer and the lists of the receiver alone.      *)
LEMMA KnownFrame ==
  ASSUME KnownSame, R' = R, sent' = sent, ListInv, FilledInv, R \in torn => R \in torn',
         stage["r"] # "POPULATE_FROM_NET_CACHE", stage'["r"] # "POPULATE_FROM_NET_CACHE"
  PROVE  ListInv' /\ FilledInv' /\ Missing' = Missing /\ ContentRecvd' = ContentRecvd
<1>1. LookedUp' = LookedUp BY DEF LookedUp, KnownSame
<1>2. \A j, q : Filled(j, q)' = Filled(j, q) BY <1>1 DEF Filled, KnownSame
<1>3. Missing' = Missing BY DEF Missing, KnownSame
<1>4. ContentRecvd' = ContentRecvd BY <1>3 DEF ContentRecvd, KnownSame
<1>5. ListInv' BY <1>1 DEF ListInv, KnownSame
<1>6. FilledInv' BY <1>1, <1>2, <1>3, <1>4 DEF FilledInv, KnownSame
<1> QED BY <1>3, <1>4, <1>5, <1>6

(* process_send_missing_fingerprint_header: how many chunks are missing.   *)
LEMMA SendMissingFingerprintHeaderKeeps ==
  ASSUME TransferInv, SendMissingFingerprintHeader
  PROVE  TransferInv'
<1> DEFINE st == IF recv_req.num_missing = 0 THEN "RECV_COMPLETE" ELSE "SEND_MISSING_FINGERPRINTS"
<1>1. /\ active_fds["r"] /\ stage["r"] = "SEND_MISSING_FINGERPRINT_HEADER"
      /\ Puts(rev, "missing_header", recv_req.num_missing, rev')
      /\ stage' = [stage EXCEPT !["r"] = st]
      /\ sent' = sent /\ delivered' = delivered /\ fwd' = fwd /\ i' = i
      /\ active_fds' = active_fds /\ send_req' = send_req /\ recv_req' = recv_req /\ CacheSame /\ torn' = torn
  BY DEF SendMissingFingerprintHeader, Goto, At, Puts, cacheVars, CacheSame
<1>2. TypeOK /\ RecvInv /\ DeliveredAsSent /\ AnnouncedInv /\ RevInv BY DEF TransferInv
<1>3. stage'["r"] = st /\ stage'["s"] = stage["s"]
  <2>1. stage \in [Ends -> SendStages \cup RecvStages] BY <1>2 DEF TypeOK
  <2> QED BY <1>1, <2>1 DEF Ends
<1>4. ReceiverStep BY <1>1, <1>3 DEF ReceiverStep, SendSame
<1>5. ~ At("r", "RECV_MISSING_CONTENT") /\ ~ Asking /\ ~ At("r", "RECV_COMPLETE")
  BY <1>1 DEF At, Asking
<1>6. stage["r"] \in RecvKnown \ Late
  BY <1>1 DEF RecvKnown, RecvFpStages, RecvFirst, RecvStages, Late
<1>7. /\ R = S /\ ~ SenderDone(S) /\ IsFingerprinted(sent[S])
      /\ stage["s"] = "RECV_MISSING_FINGERPRINT_HEADER"
  BY <1>1, <1>5, <1>6, KnownWaits
<1>8. /\ R <= S /\ recv_req.header = HeaderOf(sent[R]) /\ IsFingerprinted(sent[R])
      /\ ListInv /\ FilledInv /\ ProgressInv /\ stage["r"] \in RecvKnown
  BY <1>1, <1>2, <1>6 DEF RecvInv, RecvKnown
<1>9. /\ recv_req.content_ind = 1 /\ recv_req.content_offset = 0 /\ recv_req.offset = 0
      /\ recv_req.num_missing = Len(recv_req.missing)
  BY <1>1, <1>8 DEF ProgressInv, ListInv
<1>10. Len(recv_req.missing) \in Nat
  <2>1. recv_req.missing \in Seq(Nat) BY <1>2 DEF TypeOK, RecvReqs
  <2> QED BY <2>1
<1>11. rev = <<>>
  <2>1. S \in Nat BY <1>2, Counts
  <2>2. ~ AskedNothing(S) BY <1>5, <1>7, <2>1 DEF AskedNothing
  <2> QED BY <1>2, <1>5, <1>7, <2>2 DEF RevInv
<1>12. /\ IsSocket(rev') /\ Len(rev') = 1
       /\ rev'[1] = [type |-> "missing_header", val |-> recv_req.num_missing]
  <2>1. IsSocket(rev) /\ Len(rev) = 0 BY <1>2, <1>11 DEF TypeOK
  <2>2. /\ IsSocket(rev') /\ Grows(rev, 1, rev')
        /\ rev'[Len(rev) + 1] = [type |-> "missing_header", val |-> recv_req.num_missing]
    BY <1>1, <2>1, PutEffect
  <2> QED BY <2>1, <2>2 DEF Grows
<1> HIDE DEF st
<1>13. \/ stage'["r"] = "RECV_COMPLETE" /\ recv_req.num_missing = 0
       \/ stage'["r"] = "SEND_MISSING_FINGERPRINTS" /\ recv_req.num_missing # 0
  BY <1>3 DEF st
<1>14. R' = R /\ S' = S BY <1>1 DEF R, S
<1>15. TypeOK'
  <2>1. stage'["r"] \in RecvStages BY <1>13 DEF RecvStages
  <2>2. \E x : stage' = [stage EXCEPT !["r"] = x] BY <1>1
  <2>3. i' \in [Ends -> Nat] /\ IsSocket(fwd') /\ recv_req' \in RecvReqs
    BY <1>1, <1>2 DEF TypeOK
  <2> QED BY <1>1, <1>2, <1>4, <1>12, <2>1, <2>2, <2>3, ReceiverType
<1>16. FwdInv'
  <2>1. ContentAhead' = ContentAhead /\ ContentAhead = 0 BY <1>5, <1>13 DEF ContentAhead, At
  <2>2. RecvAt' = MsgLen(sent[R]) /\ RecvAt = MsgLen(sent[R]) BY <1>1, <1>13, <1>14 DEF RecvAt
  <2>3. StartOf(R)' = StartOf(R) BY <1>1, <1>14 DEF StartOf
  <2>4. RPos' = RPos BY <1>1, <2>2, <2>3 DEF RPos
  <2> QED BY <1>1, <1>4, <2>1, <2>4, FwdStay, ReceiverBase
<1>17. RevInv'
  <2>1. stage'["s"] = "RECV_MISSING_FINGERPRINT_HEADER" /\ R' = S' BY <1>3, <1>7, <1>14
  <2>2. CASE recv_req.num_missing = 0
    <3>1. At("r", "RECV_COMPLETE")' /\ recv_req'.num_missing = 0 BY <1>1, <1>13, <2>2 DEF At
    <3> QED BY <1>12, <2>1, <2>2, <3>1 DEF RevInv, AskedNothing
  <2>3. CASE recv_req.num_missing # 0
    <3>1. Asking' BY <1>1, <1>13, <2>3 DEF Asking, At
    <3>2. recv_req'.offset = 0 /\ recv_req'.num_missing = recv_req.num_missing BY <1>1, <1>9
    <3> QED BY <1>12, <2>1, <3>1, <3>2 DEF RevInv
  <2> QED BY <2>2, <2>3
<1>18. TurnInv' BY <1>1, <1>4, <1>6, <1>13, <1>14, EarlyTurn
<1>19. SendInv' BY <1>4, <1>5, SendStays
<1>20. RecvInv'
  <2>1. stage["r"] # "POPULATE_FROM_NET_CACHE" /\ stage'["r"] # "POPULATE_FROM_NET_CACHE"
    BY <1>1, <1>13
  <2>2. CASE recv_req.num_missing = 0
    <3>1. recv_req.content_ind = Len(recv_req.missing) + 1 BY <1>9, <2>2
    <3>2. CompleteInv BY <1>1, <1>2, <1>8, <1>9, <2>1, <3>1, BufferComplete
    <3>3. CompleteInv' BY <1>1, <1>14, <3>2 DEF CompleteInv
    <3>4. stage'["r"] = "RECV_COMPLETE" BY <1>13, <2>2
    <3> QED BY <1>1, <1>8, <1>14, <3>3, <3>4
        DEF RecvInv, At, RecvFpStages, RecvFirst, RecvKnown
  <2>3. CASE recv_req.num_missing # 0
    <3>1. stage'["r"] = "SEND_MISSING_FINGERPRINTS" BY <1>13, <2>3
    <3>2. ProgressInv' BY <1>1, <1>9, <1>10, <2>3, <3>1 DEF ProgressInv
    <3>3. ListInv' /\ FilledInv' BY <1>1, <1>8, <1>14, <2>1, KnownFrame DEF KnownSame
    <3> QED BY <1>1, <1>8, <1>14, <3>1, <3>2, <3>3
        DEF RecvInv, At, RecvFpStages, RecvFirst, RecvKnown
  <2> QED BY <2>2, <2>3
<1>21. HostHasAll' BY <1>1, <1>2 DEF AnnouncedInv, HostHasAll, CacheSame
<1>22. DeliveredAsSent' BY <1>1, <1>2, DeliveredFrame
<1> QED BY <1>4, <1>15, <1>16, <1>17, <1>18, <1>19, <1>20, <1>21, <1>22, ReceiverBase DEF TransferInv

(* A piece of the list was sent: only the offset moves.                    *)
LEMMA RecvAdvanceEffect ==
  ASSUME NEW req \in RecvReqs, NEW n \in Nat, NEW req2, Advances(req, n, req2)
  PROVE  /\ req2 \in RecvReqs /\ req2.offset = req.offset + n
         /\ req2.header = req.header /\ req2.num_fingerprints = req.num_fingerprints
         /\ req2.packaged = req.packaged
         /\ req2.num_missing = req.num_missing /\ req2.missing = req.missing
         /\ req2.content_ind = req.content_ind
         /\ req2.content_offset = req.content_offset /\ req2.app_buffer = req.app_buffer
         /\ req2.app_filled_size = req.app_filled_size
<1>1. req.offset + n \in Nat BY DEF RecvReqs
<1>2. req2 \in RecvReqs BY <1>1 DEF RecvReqs, Advances
<1> QED BY <1>1, <1>2 DEF RecvReqs, Advances

(* process_send_missing_fingerprints: n of the indices that are left.      *)
LEMMA SendMissingFingerprintsKeeps ==
  ASSUME TransferInv, SendMissingFingerprints
  PROVE  TransferInv'
<1> DEFINE miss == recv_req.missing
           at == recv_req.offset
           left == Rest(miss, at)
<1>0. PICK n \in 1 .. SockBuf :
        /\ CanSend(rev, left, n)
        /\ rev' = rev \o Tokens("missing", SubSeq(left, 1, n))
        /\ recv_req' = [recv_req EXCEPT !.offset = @ + n]
        /\ IF n < Len(left) THEN UNCHANGED stage ELSE Goto("r", "RECV_MISSING_CONTENT")
  BY DEF SendMissingFingerprints
<1>1. /\ active_fds["r"] /\ stage["r"] = "SEND_MISSING_FINGERPRINTS"
      /\ Sends(rev, "missing", left, n, rev') /\ Advances(recv_req, n, recv_req')
      /\ \/ n < Len(left) /\ stage' = stage
         \/ ~ (n < Len(left)) /\ stage' = [stage EXCEPT !["r"] = "RECV_MISSING_CONTENT"]
      /\ sent' = sent /\ delivered' = delivered /\ fwd' = fwd /\ i' = i
      /\ active_fds' = active_fds /\ send_req' = send_req /\ CacheSame /\ torn' = torn
  BY <1>0 DEF SendMissingFingerprints, Goto, At, Sends, Advances, cacheVars, CacheSame
<1>2. TypeOK /\ RecvInv /\ DeliveredAsSent /\ AnnouncedInv /\ RevInv BY DEF TransferInv
<1>3. /\ stage'["r"] = IF n < Len(left) THEN "SEND_MISSING_FINGERPRINTS" ELSE "RECV_MISSING_CONTENT"
      /\ stage'["s"] = stage["s"]
  <2>1. stage \in [Ends -> SendStages \cup RecvStages] BY <1>2 DEF TypeOK
  <2> QED BY <1>1, <2>1 DEF Ends
<1>4. ReceiverStep BY <1>1, <1>3 DEF ReceiverStep, SendSame
<1>5. ~ At("r", "RECV_MISSING_CONTENT") /\ Asking /\ ~ At("r", "RECV_COMPLETE")
      /\ At("r", "SEND_MISSING_FINGERPRINTS")
  BY <1>1 DEF At, Asking
<1>6. stage["r"] \in RecvKnown \ Late
  BY <1>1 DEF RecvKnown, RecvFpStages, RecvFirst, RecvStages, Late
<1>7. /\ R = S /\ ~ SenderDone(S) /\ IsFingerprinted(sent[S])
      /\ stage["s"] \in {"RECV_MISSING_FINGERPRINT_HEADER", "RECV_MISSING_FINGERPRINTS"}
  BY <1>1, <1>6, KnownWaits
<1>8. /\ R <= S /\ recv_req.header = HeaderOf(sent[R]) /\ IsFingerprinted(sent[R])
      /\ ListInv /\ FilledInv /\ ProgressInv /\ stage["r"] \in RecvKnown
  BY <1>1, <1>2, <1>6 DEF RecvInv, RecvKnown
<1>9. /\ recv_req.content_ind = 1 /\ recv_req.content_offset = 0
      /\ miss \in Seq(Nat) /\ Len(miss) \in Nat /\ at \in Nat /\ at < Len(miss)
      /\ recv_req.num_missing = Len(miss) /\ IsSeq(miss)
  <2>1. miss \in Seq(Nat) /\ at \in Nat BY <1>2 DEF TypeOK, RecvReqs
  <2> QED BY <1>1, <1>8, <2>1, SeqIsSeq DEF ProgressInv, ListInv
<1> HIDE DEF miss, at
<1>10. /\ IsSeq(left) /\ Len(left) = Len(miss) - at
       /\ \A k \in 1 .. Len(miss) - at : left[k] = miss[at + k]
  <2>1. at \in 0 .. Len(miss) BY <1>9
  <2> QED BY <1>9, <2>1, RestSeq
<1> HIDE DEF left
<1>11. /\ n \in Nat \ {0} /\ n <= Len(left) /\ IsSocket(rev') /\ Grows(rev, n, rev')
       /\ \A k \in 1 .. n : rev'[Len(rev) + k] = [type |-> "missing", val |-> left[k]]
  <2>1. IsSocket(rev) BY <1>2 DEF TypeOK
  <2>2. Sends(rev, "missing", left, n, rev') /\ IsSeq(left) BY <1>1, <1>10
  <2>3. SentTo(rev, "missing", left, n, rev') BY <2>1, <2>2, SendEffect, Zenon
  <2> QED BY <2>3, Zenon DEF SentTo
<1>12. /\ recv_req' \in RecvReqs /\ recv_req'.offset = at + n
       /\ recv_req'.header = recv_req.header /\ recv_req'.missing = miss
       /\ recv_req'.num_missing = Len(miss) /\ KnownSame
  <2>1. recv_req \in RecvReqs /\ n \in Nat BY <1>2, <1>11 DEF TypeOK
  <2>2. Advances(recv_req, n, recv_req') BY <1>1
  <2>3. /\ recv_req' \in RecvReqs /\ recv_req'.offset = recv_req.offset + n
        /\ recv_req'.header = recv_req.header
        /\ recv_req'.num_fingerprints = recv_req.num_fingerprints
        /\ recv_req'.packaged = recv_req.packaged
        /\ recv_req'.num_missing = recv_req.num_missing /\ recv_req'.missing = recv_req.missing
        /\ recv_req'.content_ind = recv_req.content_ind
        /\ recv_req'.content_offset = recv_req.content_offset
        /\ recv_req'.app_buffer = recv_req.app_buffer
        /\ recv_req'.app_filled_size = recv_req.app_filled_size
    BY <2>1, <2>2, RecvAdvanceEffect
  <2> QED BY <1>9, <2>3 DEF KnownSame, miss, at
<1>13. R' = R /\ S' = S BY <1>1 DEF R, S
<1>14. ListInv' /\ FilledInv' /\ Missing' = Missing /\ ContentRecvd' = ContentRecvd
  BY <1>1, <1>3, <1>8, <1>12, <1>13, KnownFrame
<1>15. ContentRecvd = 0 /\ Missing \in Seq(Fingerprints) /\ Len(Missing) = Len(miss)
  <2>1. Missing \in Seq(Fingerprints) /\ Len(Missing) = Len(miss)
    BY <1>1, <1>2, <1>8, MissingFacts DEF miss
  <2>2. OffsetOf(Missing, 1) = 0 BY <2>1, OffsetFacts
  <2> QED BY <1>9, <2>1, <2>2 DEF ContentRecvd
<1>16. TypeOK'
  <2>1. stage'["r"] \in RecvStages BY <1>3 DEF RecvStages
  <2>2. stage' = stage \/ \E x : stage' = [stage EXCEPT !["r"] = x] BY <1>1
  <2>3. i' \in [Ends -> Nat] /\ IsSocket(fwd') BY <1>1, <1>2 DEF TypeOK
  <2> QED BY <1>1, <1>2, <1>4, <1>11, <1>12, <2>1, <2>2, <2>3, ReceiverType
<1>17. FwdInv'
  <2>1. ContentAhead = 0 BY <1>5 DEF ContentAhead
  <2>2. ContentAhead' = 0
    <3>1. ~ SenderDone(R)' /\ stage'["s"] # "SEND_MISSING_CONTENT"
      BY <1>3, <1>7, <1>13 DEF SenderDone
    <3>2. ContentSent' = 0 BY <3>1 DEF ContentSent
    <3> QED BY <1>14, <1>15, <3>2 DEF ContentAhead
  <2>3. RecvAt' = MsgLen(sent[R]) /\ RecvAt = MsgLen(sent[R]) BY <1>1, <1>3, <1>13 DEF RecvAt
  <2>4. StartOf(R)' = StartOf(R) BY <1>1, <1>13 DEF StartOf
  <2>5. RPos' = RPos BY <1>1, <2>3, <2>4 DEF RPos
  <2> QED BY <1>1, <1>4, <2>1, <2>2, <2>5, FwdStay, ReceiverBase
<1>18. RevInv'
  <2>1. R' = S' /\ stage'["s"] = stage["s"] /\ send_req' = send_req BY <1>1, <1>3, <1>7, <1>13
  <2>2. Asking' BY <1>1, <1>3 DEF Asking, At
  <2>3. S \in Nat BY <1>2, Counts
  <2>4. ~ AskedNothing(S) BY <1>5, <1>7, <2>3 DEF AskedNothing
  <2>5. PICK l \in Nat : Is(l, Len(rev))
    <3>1. Len(rev) \in Nat BY <1>2, SocketSeq DEF TypeOK, IsSeq
    <3> QED BY <3>1 DEF Is
  <2>6. /\ Len(rev') = l + n /\ \A k \in 1 .. l : rev'[k] = rev[k]
        /\ \A k \in 1 .. n : rev'[l + k] = [type |-> "missing", val |-> miss[at + k]]
    <3>1. \A k \in 1 .. n : left[k] = miss[at + k] BY <1>9, <1>10, <1>11
    <3> QED BY <1>11, <2>5, <3>1 DEF Grows, Is
  <2>7. CASE stage["s"] = "RECV_MISSING_FINGERPRINT_HEADER"
    <3>1. /\ Len(rev) = 1 + at
          /\ rev[1] = [type |-> "missing_header", val |-> recv_req.num_missing]
          /\ \A j \in 1 .. at : rev[1 + j] = [type |-> "missing", val |-> miss[j]]
      BY <1>2, <1>5, <1>7, <2>4, <2>7 DEF RevInv, at, miss
    <3>2. l = 1 + at BY <2>5, <3>1 DEF Is
    <3>3. Len(rev') = 1 + (at + n) BY <1>9, <1>11, <2>6, <3>2
    <3>4. 1 \in 1 .. l BY <1>9, <3>2
    <3>5. rev'[1] = [type |-> "missing_header", val |-> Len(miss)] BY <1>9, <2>6, <3>1, <3>4
    <3>6. ASSUME NEW j \in 1 .. at + n
          PROVE  rev'[1 + j] = [type |-> "missing", val |-> miss[j]]
      <4>1. CASE j <= at
        <5>1. j \in 1 .. at /\ 1 + j \in 1 .. l BY <1>9, <1>11, <3>2, <4>1
        <5> QED BY <2>6, <3>1, <5>1
      <4>2. CASE j > at
        <5>1. j - at \in 1 .. n /\ l + (j - at) = 1 + j /\ at + (j - at) = j
          BY <1>9, <1>11, <3>2, <4>2
        <5> QED BY <2>6, <5>1
      <4> QED BY <1>9, <1>11, <4>1, <4>2
    <3> QED BY <1>12, <2>1, <2>2, <2>7, <3>3, <3>5, <3>6 DEF RevInv
  <2>8. CASE stage["s"] = "RECV_MISSING_FINGERPRINTS"
    <3>1. PICK h \in Nat : Is(h, Len(send_req.missing))
      <4>1. send_req.missing \in Seq(Nat) BY <1>2 DEF TypeOK, SendReqs
      <4> QED BY <4>1 DEF Is
    <3>2. /\ send_req.num_missing = recv_req.num_missing
          /\ h < send_req.num_missing /\ h + l = at
          /\ \A j \in 1 .. h : send_req.missing[j] = miss[j]
          /\ \A j \in 1 .. l : rev[j] = [type |-> "missing", val |-> miss[h + j]]
      BY <1>2, <2>5, <2>8, <3>1 DEF RevInv, Is, at, miss
    <3>3. h + (l + n) = at + n BY <1>9, <1>11, <3>2
    <3>4. ASSUME NEW j \in 1 .. l + n
          PROVE  rev'[j] = [type |-> "missing", val |-> miss[h + j]]
      <4>1. CASE j <= l
        <5>1. j \in 1 .. l BY <4>1
        <5> QED BY <2>6, <3>2, <5>1
      <4>2. CASE j > l
        <5>1. j - l \in 1 .. n /\ l + (j - l) = j /\ at + (j - l) = h + j
          BY <1>9, <1>11, <3>2, <4>2
        <5> QED BY <2>6, <5>1
      <4> QED BY <1>11, <4>1, <4>2
    <3>5. /\ send_req'.num_missing = recv_req'.num_missing
          /\ Len(send_req'.missing) < send_req'.num_missing
          /\ Len(send_req'.missing) + Len(rev') = recv_req'.offset
          /\ \A j \in 1 .. Len(send_req'.missing) : send_req'.missing[j] = recv_req'.missing[j]
      BY <1>9, <1>12, <2>1, <2>6, <3>1, <3>2, <3>3 DEF Is
    <3>6. \A j \in 1 .. Len(rev') :
            rev'[j] = [type |-> "missing", val |-> recv_req'.missing[Len(send_req'.missing) + j]]
      BY <1>12, <2>1, <2>6, <3>1, <3>4 DEF Is
    <3> QED BY <2>1, <2>2, <2>8, <3>5, <3>6 DEF RevInv
  <2> QED BY <1>7, <2>7, <2>8
<1>19. TurnInv' BY <1>1, <1>3, <1>4, <1>6, <1>13, <1>14, <1>15, EarlyTurn
<1>20. SendInv' BY <1>4, <1>5, SendStays
<1>21. ProgressInv'
  <2>1. recv_req'.content_ind = 1 /\ recv_req'.content_offset = 0 BY <1>9, <1>12 DEF KnownSame
  <2>2. CASE n < Len(left)
    <3>1. stage'["r"] = "SEND_MISSING_FINGERPRINTS" BY <1>3, <2>2
    <3>2. at + n < Len(miss) BY <1>9, <1>10, <1>11, <2>2
    <3> QED BY <1>12, <2>1, <3>1, <3>2 DEF ProgressInv
  <2>3. CASE ~ (n < Len(left))
    <3>1. stage'["r"] = "RECV_MISSING_CONTENT" BY <1>3, <2>3
    <3>2. at + n = Len(miss) /\ 1 \in 1 .. Len(miss)
      <4>1. PICK l \in Nat : Is(l, Len(miss)) BY <1>9 DEF Is
      <4>2. PICK k \in Nat : Is(k, Len(left))
        <5>1. Len(left) \in Nat BY <1>9, <1>10
        <5> QED BY <5>1 DEF Is
      <4>3. k = l - at BY <1>10, <4>1, <4>2 DEF Is
      <4>4. n <= k /\ ~ (n < k) BY <1>11, <2>3, <4>2 DEF Is
      <4>5. at \in Nat /\ n \in Nat \ {0} BY <1>9, <1>11
      <4>6. n = k BY <4>2, <4>4, <4>5
      <4>7. at + n = l /\ 1 <= l BY <4>1, <4>3, <4>5, <4>6
      <4> QED BY <4>1, <4>7 DEF Is
    <3>3. ContentSize[Missing[1]] \in Nat \ {0}
      <4>1. 1 \in 1 .. Len(Missing) BY <1>15, <3>2
      <4> QED BY <1>15, <4>1, SizesFacts
    <3>4. 0 < ContentSize[Missing[1]] BY <3>3
    <3> QED BY <1>12, <1>14, <2>1, <3>1, <3>2, <3>4 DEF ProgressInv
  <2> QED BY <2>2, <2>3
<1>22. RecvInv'
  BY <1>1, <1>3, <1>8, <1>12, <1>13, <1>14, <1>21
  DEF RecvInv, At, RecvFpStages, RecvFirst, RecvKnown
<1>23. HostHasAll'
  <2>1. recv_req'.num_missing = recv_req.num_missing BY <1>9, <1>12
  <2> QED BY <1>1, <1>2, <2>1 DEF AnnouncedInv, HostHasAll, CacheSame
<1>24. DeliveredAsSent' BY <1>1, <1>2, DeliveredFrame
<1> QED BY <1>4, <1>16, <1>17, <1>18, <1>19, <1>20, <1>22, <1>23, <1>24, ReceiverBase DEF TransferInv

(* What process_recv_missing_content does to the request: n units written, *)
(* and then at unit o of missing chunk c.                                  *)
Receives(req, at, vals, n, c, o, req2) ==
  req2 = [req EXCEPT !.app_buffer = Fill(@, at, vals), !.app_filled_size = @ + n,
                     !.content_ind = c, !.content_offset = o]

Received(req, at, vals, n, c, o, req2) ==
  /\ req2 \in RecvReqs /\ req2.app_filled_size = req.app_filled_size + n
  /\ \A p \in AppBuf : p \in at + 1 .. at + Len(vals) => req2.app_buffer[p] = vals[p - at]
  /\ \A p \in AppBuf : p \notin at + 1 .. at + Len(vals) =>
       req2.app_buffer[p] = req.app_buffer[p]
  /\ req2.content_ind = c /\ req2.content_offset = o
  /\ req2.header = req.header /\ req2.num_fingerprints = req.num_fingerprints
  /\ req2.packaged = req.packaged
  /\ req2.num_missing = req.num_missing /\ req2.missing = req.missing
  /\ req2.offset = req.offset

(* The fields that receiving content changes.                              *)
LEMMA ContentEffect ==
  ASSUME NEW req \in RecvReqs, NEW req2, NEW b \in [AppBuf -> Units \cup {Junk}],
         NEW v \in Nat, NEW c \in Nat, NEW o \in Nat,
         Is(req2, [req EXCEPT !.app_buffer = b, !.app_filled_size = v, !.content_ind = c,
                              !.content_offset = o])
  PROVE  /\ req2 \in RecvReqs /\ req2.app_buffer = b /\ req2.app_filled_size = v
         /\ req2.content_ind = c /\ req2.content_offset = o
         /\ req2.header = req.header /\ req2.num_fingerprints = req.num_fingerprints
         /\ req2.packaged = req.packaged
         /\ req2.num_missing = req.num_missing /\ req2.missing = req.missing
         /\ req2.offset = req.offset
<1>1. req2 \in RecvReqs BY DEF RecvReqs, Is
<1> QED BY <1>1 DEF RecvReqs, Is

(* Content goes to its place in the buffer, and nowhere else.              *)
LEMMA ReceiveEffect ==
  ASSUME NEW req \in RecvReqs, NEW at \in Nat, NEW vals \in Seq(Units),
         NEW n \in Nat, NEW c \in Nat, NEW o \in Nat,
         NEW req2, Receives(req, at, vals, n, c, o, req2)
  PROVE  Received(req, at, vals, n, c, o, req2)
<1>1. PICK b : Is(b, Fill(req.app_buffer, at, vals)) BY DEF Is
<1>2. /\ req.app_buffer \in [AppBuf -> Units \cup {Junk}] /\ req.app_filled_size + n \in Nat
      /\ req.content_ind \in Nat /\ req.content_offset \in Nat
  BY SMTT(30) DEF RecvReqs
<1>3. PICK v \in Nat : v = req.app_filled_size + n BY <1>2
<1>6. Is(req2, [req EXCEPT !.app_buffer = b, !.app_filled_size = v, !.content_ind = c,
                           !.content_offset = o])
  BY <1>1, <1>3 DEF Is, Receives
<1>7. /\ b \in [AppBuf -> Units \cup {Junk}]
      /\ \A p \in AppBuf : p \in at + 1 .. at + Len(vals) => b[p] = vals[p - at]
      /\ \A p \in AppBuf : p \notin at + 1 .. at + Len(vals) => b[p] = req.app_buffer[p]
  <2>1. req.app_buffer \in [AppBuf -> Units \cup {Junk}] BY <1>2
  <2>2. IsSeq(vals) /\ \A k \in 1 .. Len(vals) : vals[k] \in Units BY SeqIsSeq
  <2> QED BY <1>1, <2>1, <2>2, FillEffect
<1>8. b \in [AppBuf -> Units \cup {Junk}] BY <1>7
<1>9. /\ req2 \in RecvReqs /\ req2.app_buffer = b /\ req2.app_filled_size = v
      /\ req2.content_ind = c /\ req2.content_offset = o
      /\ req2.header = req.header /\ req2.num_fingerprints = req.num_fingerprints
      /\ req2.packaged = req.packaged
      /\ req2.num_missing = req.num_missing /\ req2.missing = req.missing
      /\ req2.offset = req.offset
  BY <1>6, <1>8, ContentEffect
<1> QED BY <1>3, <1>7, <1>9 DEF Received

(* What can be received is content of the missing chunk, and was sent by a *)
(* sender that is sending content or done.                                 *)
LEMMA ContentComes ==
  ASSUME TransferInv, At("r", "RECV_MISSING_CONTENT"), NEW n \in Nat \ {0}, n <= Len(fwd),
         recv_req.content_offset + n <= ContentSize[Missing[recv_req.content_ind]]
  PROVE  /\ n <= ContentAhead
         /\ SenderDone(R) \/ (R = S /\ stage["s"] = "SEND_MISSING_CONTENT")
         /\ \A k \in 1 .. n :
              fwd[k] = [type |-> "data", val |-> <<Missing[recv_req.content_ind],
                                                   recv_req.content_offset + k>>]
<1>1. /\ TypeOK /\ DeliveredAsSent /\ RecvInv /\ SendInv /\ active_fds["r"]
      /\ stage["r"] = "RECV_MISSING_CONTENT" /\ stage["r"] \in RecvKnown
  BY DEF TransferInv, At, RecvKnown, RecvFpStages, RecvFirst, RecvStages
<1>2. R <= S /\ S \in Nat /\ R \in Nat \ {0} BY <1>1, MissingFacts, Counts
<1>3. /\ Missing \in Seq(Fingerprints) /\ Len(Missing) \in Nat
      /\ recv_req.content_ind \in 1 .. Len(Missing) /\ recv_req.content_offset \in Nat
      /\ ContentSize[Missing[recv_req.content_ind]] \in Nat
      /\ OffsetOf(Missing, recv_req.content_ind) \in Nat
      /\ ContentRecvd \in Nat /\ Size(Missing) \in Nat /\ ContentSent \in Nat
  BY <1>1, ContentFacts
<1>4. /\ FwdOK(fwd, ContentAhead, Missing, ContentRecvd, sent, RPos, SPos)
      /\ ContentAhead \in Nat /\ RPos \in Nat /\ SPos \in Nat
      /\ RPos <= SPos /\ Len(fwd) = ContentAhead + (SPos - RPos)
      /\ ContentAhead = ContentSent - ContentRecvd
  BY FwdFacts
<1>5. n <= ContentAhead
  <2>1. CASE SenderDone(R)
    <3>1. ContentSent = Size(Missing) BY <2>1 DEF ContentSent
    <3>2. OffsetOf(Missing, recv_req.content_ind) + ContentSize[Missing[recv_req.content_ind]]
            <= Size(Missing)
      <4>1. /\ recv_req.content_ind + 1 \in 1 .. Len(Missing) + 1
            /\ Len(Missing) + 1 \in recv_req.content_ind + 1 .. Len(Missing) + 1
        BY <1>3
      <4>2. OffsetOf(Missing, recv_req.content_ind + 1) <= Size(Missing)
        BY <1>3, <4>1, OffsetFacts
      <4>3. OffsetOf(Missing, recv_req.content_ind + 1)
              = OffsetOf(Missing, recv_req.content_ind) + ContentSize[Missing[recv_req.content_ind]]
        BY <1>3, OffsetFacts
      <4> QED BY <4>2, <4>3
    <3>3. PICK a \in Nat, o \in Nat, z \in Nat, w \in Nat :
            /\ Is(a, recv_req.content_offset) /\ Is(o, OffsetOf(Missing, recv_req.content_ind))
            /\ Is(z, ContentSize[Missing[recv_req.content_ind]]) /\ Is(w, Size(Missing))
      BY <1>3 DEF Is
    <3>4. a + n <= z /\ o + z <= w BY <3>2, <3>3 DEF Is
    <3>5. ContentRecvd = o + a /\ ContentSent = w BY <3>1, <3>3 DEF Is, ContentRecvd
    <3> QED BY <1>4, <3>4, <3>5
  <2>2. CASE ~ SenderDone(R)
    <3>1. R = S /\ stage["s"] # "SEND_COMPLETE" BY <1>2, <2>2 DEF SenderDone
    <3>2. active_fds["s"] BY <1>1, <3>1 DEF SendInv
    <3>3. /\ SendAt \in Nat /\ SendAt <= MsgLen(sent[S]) /\ SPos = StartOf(S) + SendAt
          /\ sent[S] \in Messages
      BY <1>1, <3>2, SendPosition
    <3>4. RPos = StartOf(S) + MsgLen(sent[S]) BY <1>1, <3>1 DEF RPos, RecvAt
    <3>5. MsgLen(sent[S]) \in Nat BY <3>3, MsgFacts
    <3>6. StartOf(S) \in Nat BY <1>1, <3>1, RecvPosition
    <3>7. SPos <= RPos BY <3>3, <3>4, <3>5, <3>6
    <3> QED BY <1>4, <3>7
  <2> QED BY <2>1, <2>2
<1>6. SenderDone(R) \/ (R = S /\ stage["s"] = "SEND_MISSING_CONTENT")
  <2> SUFFICES ASSUME ~ SenderDone(R), stage["s"] # "SEND_MISSING_CONTENT" PROVE FALSE
    BY <1>2 DEF SenderDone
  <2>1. ContentSent = 0 BY DEF ContentSent
  <2> QED BY <1>3, <1>4, <1>5, <2>1
<1>7. ASSUME NEW k \in 1 .. n
      PROVE  fwd[k] = [type |-> "data", val |-> <<Missing[recv_req.content_ind],
                                                  recv_req.content_offset + k>>]
  <2>1. k \in 1 .. ContentAhead BY <1>4, <1>5
  <2>2. recv_req.content_offset + k <= ContentSize[Missing[recv_req.content_ind]] BY <1>3, SMTT(30)
  <2>3. ContentRecvd = OffsetOf(Missing, recv_req.content_ind) + recv_req.content_offset
    BY DEF ContentRecvd
  <2>4. /\ FwdOK(fwd, ContentAhead, Missing, ContentRecvd, sent, RPos, SPos)
        /\ ContentAhead \in Nat /\ Missing \in Seq(Fingerprints) /\ ContentRecvd \in Nat
        /\ recv_req.content_ind \in 1 .. Len(Missing) /\ recv_req.content_offset \in Nat
    BY <1>3, <1>4
  <2> QED BY <2>1, <2>2, <2>3, <2>4, ContentRead, SMTT(30)
<1> QED BY <1>5, <1>6, <1>7

(* A part of a missing chunk is written into its slot. *)
NextUnit(size, n, c, o) ==
  /\ recv_req.content_offset + n <= size
  /\ recv_req.content_offset + n < size =>
       c = recv_req.content_ind /\ o = recv_req.content_offset + n
  /\ ~ (recv_req.content_offset + n < size) => c = recv_req.content_ind + 1 /\ o = 0

(* After n units of a missing chunk the lists, the buffer and the filled   *)
(* size agree again.                                                       *)
LEMMA ReceivedKeeps ==
  ASSUME TransferInv, At("r", "RECV_MISSING_CONTENT"), CacheSame,
         stage'["r"] # "POPULATE_FROM_NET_CACHE", sent' = sent, delivered' = delivered,
         NEW ind, Is(ind, recv_req.missing[recv_req.content_ind]),
         NEW n \in Nat, n > 0, NEW vals, IsSeq(vals), Is(n, Len(vals)),
         NEW size \in Nat, Is(size, ContentSize[Missing[recv_req.content_ind]]),
         \A k \in 1 .. n : vals[k] = <<Missing[recv_req.content_ind], recv_req.content_offset + k>>,
         NEW c \in Nat, NEW o \in Nat, NextUnit(size, n, c, o),
         Receives(recv_req, OffsetOf(recv_req.packaged, ind) + recv_req.content_offset, vals, n,
                  c, o, recv_req')
  PROVE  /\ recv_req' \in RecvReqs /\ recv_req'.header = recv_req.header
         /\ recv_req'.num_missing = recv_req.num_missing
         /\ recv_req'.missing = recv_req.missing /\ recv_req'.offset = recv_req.offset
         /\ recv_req'.content_ind = c /\ recv_req'.content_offset = o
         /\ ListInv' /\ FilledInv' /\ Missing' = Missing
         /\ ContentRecvd \in Nat /\ ContentRecvd' = ContentRecvd + n
<1> DEFINE fps == recv_req.packaged
           ci == recv_req.content_ind
           at == recv_req.content_offset
           slot == OffsetOf(fps, ind) + at
           part == recv_req.content_offset + n < size
<1> HIDE DEF part
<1>1. /\ TypeOK /\ DeliveredAsSent /\ RecvInv /\ SendInv /\ active_fds["r"]
      /\ stage["r"] = "RECV_MISSING_CONTENT" /\ stage["r"] \in RecvKnown
  BY DEF TransferInv, At, RecvKnown, RecvFpStages, RecvFirst, RecvStages
<1>2. ListInv /\ FilledInv BY <1>1 DEF RecvInv
<1>3. /\ fps = ChunksOf[sent[R]] /\ sent[R] \in Messages /\ fps \in Seq(Fingerprints)
      /\ Missing \in Seq(Fingerprints) /\ Len(Missing) = Len(recv_req.missing)
      /\ \A k \in 1 .. Len(recv_req.missing) : recv_req.missing[k] \in 1 .. Len(fps)
      /\ \A k \in 1 .. Len(Missing) : Missing[k] = fps[recv_req.missing[k]]
  BY <1>1, MissingFacts
<1>4. /\ Len(Missing) \in Nat /\ ci \in 1 .. Len(Missing) /\ at \in Nat /\ at < size
      /\ OffsetOf(Missing, ci) \in Nat /\ ContentRecvd \in Nat /\ Size(Missing) \in Nat
  BY <1>1, ContentFacts DEF Is
<1>5. /\ ind \in 1 .. Len(fps) /\ Missing[ci] = fps[ind] /\ ind = recv_req.missing[ci]
      /\ size = ContentSize[fps[ind]] /\ fps[ind] \in Fingerprints
  <2>1. ind = recv_req.missing[ci] /\ size = ContentSize[Missing[ci]] BY DEF Is
  <2>2. ci \in 1 .. Len(recv_req.missing) BY <1>3, <1>4
  <2> HIDE DEF ci, fps
  <2>3. ind \in 1 .. Len(fps) /\ Missing[ci] = fps[ind] BY <1>3, <1>4, <2>1, <2>2
  <2>4. fps[ind] \in Fingerprints BY <1>3, <2>3
  <2> QED BY <2>1, <2>3, <2>4
<1>6. OffsetOf(fps, ind) \in Nat
  <2>1. ind \in 1 .. Len(fps) + 1
    <3>1. PICK l \in Nat : l = Len(fps)
      <4>1. Len(fps) \in Nat BY <1>3
      <4> QED BY <4>1
    <3>2. ind \in 1 .. l BY <1>5, <3>1
    <3>3. ind \in 1 .. l + 1 BY <3>2
    <3> QED BY <3>1, <3>3
  <2> QED BY <1>3, <2>1, OffsetFacts
<1>7. slot \in Nat BY <1>4, <1>6, SMTT(30)
<1>44. at + n <= size /\ (part => at + n < size) /\ (~ part => ~ (at + n < size))
  BY Zenon DEF NextUnit, part
<1>8. Receives(recv_req, slot, vals, n, c, o, recv_req') OBVIOUS
<1>9. \A k \in 1 .. n : vals[k] = <<fps[ind], at + k>> BY <1>5
<1>10. \A k \in 1 .. Len(vals) : vals[k] \in Units
  <2> SUFFICES ASSUME NEW k \in 1 .. n PROVE vals[k] \in Units
    BY DEF Is
  <2>1. at + k \in Nat BY <1>4, SMTT(30)
  <2>2. vals[k] = <<fps[ind], at + k>> /\ fps[ind] \in Fingerprints BY <1>5, <1>9
  <2> HIDE DEF at, fps
  <2> QED BY <2>1, <2>2 DEF Units
<1>11. recv_req \in RecvReqs BY <1>1 DEF TypeOK
<1>12. PICK buf2 : buf2 = recv_req'.app_buffer OBVIOUS
<1> HIDE DEF slot
<1>13. /\ recv_req' \in RecvReqs /\ recv_req'.app_filled_size = recv_req.app_filled_size + n
       /\ \A p \in AppBuf : p \in slot + 1 .. slot + Len(vals) =>
            recv_req'.app_buffer[p] = vals[p - slot]
       /\ \A p \in AppBuf : p \notin slot + 1 .. slot + Len(vals) =>
            recv_req'.app_buffer[p] = recv_req.app_buffer[p]
       /\ recv_req'.content_ind = c /\ recv_req'.content_offset = o
       /\ part => /\ recv_req'.content_ind = recv_req.content_ind
                  /\ recv_req'.content_offset = recv_req.content_offset + n
       /\ ~ part => /\ recv_req'.content_ind = recv_req.content_ind + 1
                    /\ recv_req'.content_offset = 0
       /\ recv_req'.header = recv_req.header
       /\ recv_req'.num_fingerprints = recv_req.num_fingerprints
       /\ recv_req'.packaged = recv_req.packaged
       /\ recv_req'.num_missing = recv_req.num_missing /\ recv_req'.missing = recv_req.missing
       /\ recv_req'.offset = recv_req.offset
  <2>1. Received(recv_req, slot, vals, n, c, o, recv_req')
    <3>1. vals \in Seq(Units) BY <1>10, SeqOfMembers
    <3>2. slot \in Nat /\ recv_req \in RecvReqs /\ vals \in Seq(Units)
          /\ Receives(recv_req, slot, vals, n, c, o, recv_req')
      BY <1>7, <1>8, <1>11, <3>1
    <3> QED BY <3>2, ReceiveEffect, Zenon
  <2>2. (part => c = recv_req.content_ind /\ o = recv_req.content_offset + n)
        /\ (~ part => c = recv_req.content_ind + 1 /\ o = 0)
    BY Zenon DEF NextUnit, part
  <2> QED BY <2>1, <2>2 DEF Received
<1> HIDE DEF fps, ci, at
<1>45. PICK a \in Nat : Is(a, at) /\ a + n <= size /\ (~ part => a + n = size)
  <2>1. at + n <= size /\ (~ part => ~ (at + n < size)) BY <1>44 DEF at
  <2>2. PICK a \in Nat : a = at BY <1>4 DEF at
  <2>3. a + n <= size /\ (~ part => ~ (a + n < size)) BY <2>1, <2>2
  <2>4. ~ (a + n < size) => a + n = size BY <2>3
  <2> QED BY <2>2, <2>3, <2>4 DEF Is
<1>46. PICK off \in Nat : Is(off, OffsetOf(fps, ind)) BY <1>6 DEF Is, fps
<1>47. Is(slot, off + a) BY <1>45, <1>46 DEF Is, slot, fps, at
<1>14. R' = R BY DEF R
<1>15. Missing' = Missing BY <1>13 DEF Missing
<1>16. LookedUp = Len(fps) /\ LookedUp' = Len(fps) BY <1>1, <1>13 DEF LookedUp, fps
<1>17. ListInv' BY <1>2, <1>13, <1>14, <1>16 DEF ListInv, fps
<1>18. ContentRecvd = OffsetOf(Missing, ci) + at BY DEF ContentRecvd, ci, at
<1>19. ContentRecvd' = ContentRecvd + n
  <2>1. CASE part
    <3>1. recv_req'.content_ind = ci /\ recv_req'.content_offset = at + n
      BY <1>13, <2>1 DEF ci, at
    <3>2. ContentRecvd' = OffsetOf(Missing, ci) + (at + n) BY <1>15, <3>1 DEF ContentRecvd
    <3> QED BY <1>4, <1>18, <3>2, SMTT(30)
  <2>2. CASE ~ part
    <3>1. recv_req'.content_ind = ci + 1 /\ recv_req'.content_offset = 0
      BY <1>13, <2>2 DEF ci
    <3>2. ContentRecvd' = OffsetOf(Missing, ci + 1) + 0 BY <1>15, <3>1 DEF ContentRecvd
    <3>3. OffsetOf(Missing, ci + 1) = OffsetOf(Missing, ci) + size
      BY <1>3, <1>4, <1>5, OffsetFacts
    <3>4. size = at + n BY <1>45, <2>2 DEF Is
    <3> QED BY <1>4, <1>18, <3>2, <3>3, <3>4, SMTT(30)
  <2> QED BY <2>1, <2>2
<1>20. ASSUME NEW j \in 1 .. Len(fps), NEW q \in 1 .. ContentSize[fps[j]], Filled(j, q)'
       PROVE  \/ buf2[OffsetOf(fps, j) + q] = <<fps[j], q>>
              \/ /\ R \in torn' /\ buf2[OffsetOf(fps, j) + q] = Junk
                 /\ \A k \in 1 .. Len(recv_req.missing) : recv_req.missing[k] # j
  <2>1. OffsetOf(fps, j) + q \in 1 .. Size(fps) /\ Data(fps)[OffsetOf(fps, j) + q] = <<fps[j], q>>
    BY <1>3, DataAt
  <2>2. PICK p : p = OffsetOf(fps, j) + q OBVIOUS
  <2>3. p \in AppBuf /\ p \in Int
    <3>1. p \in 1 .. Size(ChunksOf[sent[R]]) BY <1>3, <2>1, <2>2
    <3>2. sent[R] \in Messages BY <1>3
    <3>3. p \in AppBuf BY <3>1, <3>2, AppBufFacts
    <3> QED BY <3>1, <3>3
  <2>4. CASE p \in slot + 1 .. slot + n
    <3>1. p - slot \in 1 .. n /\ slot + (p - slot) = p BY <1>7, <2>3, <2>4, SMTT(30)
    <3>2. buf2[p] = <<fps[ind], at + (p - slot)>>
      BY <1>9, <1>12, <1>13, <2>3, <2>4, <3>1 DEF Is
    <3>3. at + (p - slot) \in 1 .. size
      <4>1. PICK x \in 1 .. n : Is(x, p - slot) BY <3>1 DEF Is
      <4>2. a + x \in 1 .. size BY <1>45
      <4> QED BY <1>45, <4>1, <4>2 DEF Is
    <3>4. Data(fps)[OffsetOf(fps, ind) + (at + (p - slot))] = <<fps[ind], at + (p - slot)>>
      BY <1>3, <1>5, <3>3, DataAt
    <3>5. OffsetOf(fps, ind) + (at + (p - slot)) = p
      <4>1. PICK x \in Int : x = p BY <2>3
      <4>2. off + (a + (x - (off + a))) = x OBVIOUS
      <4> QED BY <1>45, <1>46, <1>47, <4>1, <4>2 DEF Is
    <3> QED BY <2>1, <2>2, <3>2, <3>4, <3>5
  <2>5. CASE p \notin slot + 1 .. slot + n
    <3>1. j = ind => q <= at \/ q > at + n
      <4>0. SUFFICES ASSUME j = ind, at < q, q <= at + n PROVE FALSE
        <5>1. q \in Int /\ at \in Int BY <1>45 DEF Is
        <5> QED BY <5>1
      <4>1. a < q /\ q <= a + n BY <1>45, <4>0 DEF Is
      <4>2. off + q \in off + a + 1 .. off + a + n BY <4>1
      <4>3. p = off + q /\ slot = off + a BY <1>46, <1>47, <2>2, <4>0 DEF Is
      <4> QED BY <2>5, <4>2, <4>3
    <3>2. Filled(j, q)
      <4>1. j <= LookedUp BY <1>16, <1>20 DEF Filled
      <4>2. ASSUME NEW k \in 1 .. Len(recv_req.missing), recv_req.missing[k] = j
            PROVE  k < ci \/ (k = ci /\ q <= at)
        <5>1. k < recv_req'.content_ind
                \/ (k = recv_req'.content_ind /\ q <= recv_req'.content_offset)
          BY <1>13, <1>20, <4>2 DEF Filled
        <5>2. k = ci => j = ind BY <1>5, <4>2
        <5>3. q <= size \/ j # ind BY <1>5, SMTT(30)
        <5>4. CASE part
          <6>1. recv_req'.content_ind = ci /\ recv_req'.content_offset = at + n
            BY <1>13, <5>4 DEF ci, at
          <6>2. k < ci \/ (k = ci /\ q <= at + n) BY <5>1, <6>1
          <6>3. k = ci => q <= at \/ q > at + n BY <3>1, <5>2
          <6> QED BY <1>4, <6>2, <6>3
        <5>5. CASE ~ part
          <6>1. recv_req'.content_ind = ci + 1 /\ recv_req'.content_offset = 0
            BY <1>13, <5>5 DEF ci
          <6>2. k < ci + 1 BY <5>1, <6>1
          <6>3. a + n = size BY <1>45, <5>5
          <6>4. k = ci => q <= at BY <1>45, <3>1, <5>2, <5>3, <6>3 DEF Is
          <6> QED BY <1>4, <6>2, <6>4
        <5> QED BY <5>4, <5>5
      <4> QED BY <4>1, <4>2 DEF Filled, ci, at
    <3>3. \/ recv_req.app_buffer[OffsetOf(fps, j) + q] = <<fps[j], q>>
          \/ /\ R \in torn /\ recv_req.app_buffer[OffsetOf(fps, j) + q] = Junk
             /\ \A k \in 1 .. Len(recv_req.missing) : recv_req.missing[k] # j
      BY <1>2, <1>20, <3>2 DEF FilledInv, fps
    <3>4. buf2[p] = recv_req.app_buffer[p] BY <1>12, <1>13, <2>3, <2>5 DEF Is
    <3>5. R \in torn => R \in torn' BY DEF CacheSame
    <3> QED BY <2>2, <3>3, <3>4, <3>5
  <2> QED BY <2>4, <2>5
<1>21. FilledInv'
  <2>1. recv_req'.packaged = fps BY <1>13 DEF fps
  <2>2. recv_req.app_filled_size \in Nat BY <1>11 DEF RecvReqs
  <2>3. recv_req.app_filled_size + (Size(Missing) - ContentRecvd) = SizeUpTo(fps, Len(fps))
    BY <1>2, <1>16 DEF FilledInv, fps
  <2>4. recv_req'.app_filled_size + (Size(Missing') - ContentRecvd') = SizeUpTo(fps, Len(fps))
    BY <1>4, <1>13, <1>15, <1>19, <2>2, <2>3, SMTT(30)
  <2>5. recv_req'.missing = recv_req.missing BY <1>13
  <2> QED BY <1>12, <1>14, <1>16, <1>20, <2>1, <2>4, <2>5 DEF FilledInv
<1> QED BY <1>4, <1>13, <1>15, <1>17, <1>19, <1>21

(* process_recv_missing_content: n units of one chunk, and after the last  *)
(* chunk the receive goes on to its inserts.                               *)
LEMMA RecvMissingContentKeeps ==
  ASSUME TransferInv, RecvMissingContent
  PROVE  TransferInv'
<1> DEFINE ind == recv_req.missing[recv_req.content_ind]
           at == recv_req.content_offset
           left == ContentSize[recv_req.packaged[ind]] - at
           slot == OffsetOf(recv_req.packaged, ind) + at
<1>0. PICK n \in 1 .. SockBuf :
        /\ CanRecv(fwd, left, n)
        /\ fwd' = Rest(fwd, n)
        /\ recv_req' = [recv_req EXCEPT
             !.app_buffer = Fill(@, slot, Vals(SubSeq(fwd, 1, n))),
             !.app_filled_size = @ + n,
             !.content_ind = IF n < left THEN @ ELSE @ + 1,
             !.content_offset = IF n < left THEN @ + n ELSE 0]
        /\ IF n < left \/ recv_req.content_ind < recv_req.num_missing
             THEN UNCHANGED stage ELSE Goto("r", "INSERT_INBOUND_FINGERPRINTS")
  BY DEF RecvMissingContent
<1>00. PICK vals : Is(vals, Vals(SubSeq(fwd, 1, n))) BY DEF Is
<1>000. PICK c : Is(c, IF n < left THEN recv_req.content_ind ELSE recv_req.content_ind + 1)
  BY DEF Is
<1>0000. PICK o : Is(o, IF n < left THEN at + n ELSE 0) BY DEF Is
<1>1. /\ active_fds["r"] /\ stage["r"] = "RECV_MISSING_CONTENT" /\ Takes(fwd, left, n, fwd', vals)
      /\ Receives(recv_req, slot, vals, n, c, o, recv_req')
      /\ sent' = sent /\ delivered' = delivered /\ rev' = rev /\ i' = i
      /\ active_fds' = active_fds /\ send_req' = send_req /\ CacheSame /\ torn' = torn
  BY <1>0, <1>00, <1>000, <1>0000
  DEF RecvMissingContent, At, Takes, Is, Receives, cacheVars, CacheSame
<1>2. TypeOK /\ RecvInv /\ SendInv /\ DeliveredAsSent /\ AnnouncedInv /\ RevInv /\ TurnInv
  BY DEF TransferInv
<1>3. /\ stage'["r"] = IF n < left \/ recv_req.content_ind < recv_req.num_missing
                         THEN "RECV_MISSING_CONTENT" ELSE "INSERT_INBOUND_FINGERPRINTS"
      /\ stage'["s"] = stage["s"]
      /\ (stage' = stage \/ \E x : stage' = [stage EXCEPT !["r"] = x])
  <2> HIDE DEF left
  <2>1. stage \in [Ends -> SendStages \cup RecvStages] BY <1>2 DEF TypeOK
  <2> QED BY <1>0, <1>1, <2>1 DEF Ends, Goto
<1>4. ReceiverStep BY <1>1, <1>3 DEF ReceiverStep, SendSame
<1>5. At("r", "RECV_MISSING_CONTENT") /\ stage["r"] \in RecvKnown
  BY <1>1 DEF At, RecvKnown, RecvFpStages, RecvFirst, RecvStages
<1>6. /\ ListInv /\ R <= S /\ sent[R] \in Messages /\ IsFingerprinted(sent[R])
      /\ recv_req.header = HeaderOf(sent[R])
      /\ Missing \in Seq(Fingerprints) /\ Len(Missing) = Len(recv_req.missing)
      /\ Len(Missing) \in Nat /\ recv_req.num_missing = Len(Missing)
      /\ \A k \in 1 .. Len(Missing) : Missing[k] = recv_req.packaged[recv_req.missing[k]]
      /\ S \in Nat /\ R \in Nat \ {0}
  BY <1>1, <1>2, <1>5, MissingFacts, Counts DEF RecvInv, ListInv
<1>7. /\ recv_req.content_ind \in 1 .. Len(Missing) /\ at \in Nat
      /\ ContentSize[Missing[recv_req.content_ind]] \in Nat
      /\ at < ContentSize[Missing[recv_req.content_ind]]
      /\ Missing[recv_req.content_ind] = recv_req.packaged[ind]
      /\ ContentSent \in Nat /\ ContentSent <= Size(Missing)
      /\ ~ SenderDone(R) => ContentSent < Size(Missing)
      /\ Size(Missing) \in Nat /\ ContentRecvd \in Nat
  BY <1>2, <1>5, <1>6, ContentFacts
<1>8. PICK size \in Nat : Is(size, ContentSize[Missing[recv_req.content_ind]]) /\ at < size
  BY <1>7 DEF Is
<1>9. Is(left, size - at) BY <1>7, <1>8 DEF Is
<1>10. left = size - at BY <1>9 DEF Is
<1> HIDE DEF left, ind, at, slot
<1>11. PICK a \in Nat : Is(a, at) /\ a < size /\ Is(left, size - a)
  <2>1. PICK a \in Nat : a = at BY <1>7
  <2> QED BY <1>8, <1>9, <2>1 DEF Is
<1>12. /\ n \in Nat \ {0} /\ n <= left /\ IsSocket(fwd') /\ Shifts(fwd, n, fwd')
       /\ IsSeq(vals) /\ Len(vals) = n /\ \A k \in 1 .. n : vals[k] = fwd[k].val
  <2>1. IsSocket(fwd) /\ left \in Int BY <1>2, <1>11 DEF TypeOK, Is
  <2>2. Takes(fwd, left, n, fwd', vals) BY <1>1
  <2>3. TakenFrom(fwd, left, n, fwd', vals) BY <2>1, <2>2, RecvEffect, Zenon
  <2> QED BY <2>3, Zenon DEF TakenFrom
<1>13. n \in Nat /\ n > 0 /\ a + n <= size /\ (n < left <=> a + n < size)
  BY <1>11, <1>12 DEF Is
<1>14. /\ n <= ContentAhead
       /\ SenderDone(R) \/ (R = S /\ stage["s"] = "SEND_MISSING_CONTENT")
       /\ \A k \in 1 .. n : fwd[k] = [type |-> "data",
                                      val |-> <<Missing[recv_req.content_ind],
                                                recv_req.content_offset + k>>]
  <2>1. recv_req.content_offset + n <= ContentSize[Missing[recv_req.content_ind]]
    BY <1>8, <1>11, <1>13 DEF Is, at
  <2>2. n \in Nat \ {0} /\ n <= Len(fwd) BY <1>12 DEF Shifts
  <2> QED BY <1>5, <2>1, <2>2, ContentComes
<1>15. \A k \in 1 .. n :
         vals[k] = <<Missing[recv_req.content_ind], recv_req.content_offset + k>>
  <2> SUFFICES ASSUME NEW k \in 1 .. n
               PROVE  vals[k] = <<Missing[recv_req.content_ind], recv_req.content_offset + k>>
    OBVIOUS
  <2>1. vals[k] = fwd[k].val BY <1>12
  <2>2. fwd[k] = [type |-> "data",
                  val |-> <<Missing[recv_req.content_ind], recv_req.content_offset + k>>]
    BY <1>14
  <2> QED BY <2>1, <2>2
<1>16. c \in Nat /\ o \in Nat /\ NextUnit(size, n, c, o)
       /\ (n < left => c = recv_req.content_ind /\ o = a + n)
       /\ (~ (n < left) => c = recv_req.content_ind + 1 /\ o = 0 /\ a + n = size)
  <2>1. recv_req.content_ind \in Nat BY <1>6, <1>7
  <2>2. at = a /\ recv_req.content_offset = a BY <1>11 DEF Is, at
  <2>3. n < left => c = recv_req.content_ind /\ o = a + n BY <1>000, <1>0000, <2>2 DEF Is
  <2>4. ~ (n < left) => c = recv_req.content_ind + 1 /\ o = 0 BY <1>000, <1>0000 DEF Is
  <2>5. ~ (n < left) => a + n = size BY <1>13
  <2>6. c \in Nat /\ o \in Nat BY <1>13, <2>1, <2>3, <2>4
  <2>7. NextUnit(size, n, c, o) BY <1>13, <2>2, <2>3, <2>4 DEF NextUnit
  <2> QED BY <2>3, <2>4, <2>5, <2>6, <2>7
<1>17. /\ recv_req' \in RecvReqs /\ recv_req'.header = recv_req.header
       /\ recv_req'.num_missing = recv_req.num_missing
       /\ recv_req'.missing = recv_req.missing /\ recv_req'.offset = recv_req.offset
       /\ recv_req'.content_ind = c /\ recv_req'.content_offset = o
       /\ ListInv' /\ FilledInv' /\ Missing' = Missing
       /\ ContentRecvd \in Nat /\ ContentRecvd' = ContentRecvd + n
  <2>1. Is(ind, recv_req.missing[recv_req.content_ind]) BY DEF ind, Is
  <2>2. IsSeq(vals) /\ Is(n, Len(vals)) BY <1>12 DEF Is
  <2>3. Receives(recv_req, OffsetOf(recv_req.packaged, ind) + recv_req.content_offset, vals, n,
                 c, o, recv_req')
    BY <1>1 DEF slot, at
  <2>4. stage'["r"] # "POPULATE_FROM_NET_CACHE" BY <1>3
  <2>5. Is(size, ContentSize[Missing[recv_req.content_ind]]) BY <1>8
  <2>6. sent' = sent /\ delivered' = delivered /\ CacheSame BY <1>1
  <2>7. c \in Nat /\ o \in Nat /\ NextUnit(size, n, c, o) BY <1>16
  <2> QED BY <1>5, <1>13, <1>15, <2>1, <2>2, <2>3, <2>4, <2>5, <2>6, <2>7, ReceivedKeeps, Zenon
<1>18. R' = R /\ S' = S BY <1>1 DEF R, S
<1>19. ProgressInv'
  <2>1. recv_req.offset = Len(Missing) BY <1>1, <1>2, <1>5, <1>6 DEF RecvInv, ProgressInv
  <2>2. CASE n < left
    <3>1. stage'["r"] = "RECV_MISSING_CONTENT" BY <1>3, <2>2
    <3>2. o < ContentSize[Missing[c]] BY <1>8, <1>13, <1>16, <2>2 DEF Is
    <3> QED BY <1>6, <1>7, <1>16, <1>17, <2>1, <2>2, <3>1, <3>2 DEF ProgressInv
  <2>3. CASE ~ (n < left) /\ recv_req.content_ind < recv_req.num_missing
    <3>1. stage'["r"] = "RECV_MISSING_CONTENT" BY <1>3, <2>3
    <3>2. c \in 1 .. Len(Missing) /\ o = 0 BY <1>6, <1>7, <1>16, <2>3
    <3>3. 0 < ContentSize[Missing[c]]
      <4>1. ContentSize[Missing[c]] \in Nat \ {0} BY <1>6, <3>2, SizesFacts
      <4> QED BY <4>1
    <3> QED BY <1>6, <1>17, <2>1, <3>1, <3>2, <3>3 DEF ProgressInv
  <2>4. CASE ~ (n < left) /\ ~ (recv_req.content_ind < recv_req.num_missing)
    <3>1. stage'["r"] = "INSERT_INBOUND_FINGERPRINTS" BY <1>3, <2>4
    <3>2. c = Len(Missing) + 1 /\ o = 0 BY <1>6, <1>7, <1>16, <2>4
    <3> QED BY <1>6, <1>17, <3>1, <3>2 DEF ProgressInv
  <2> QED BY <2>2, <2>3, <2>4
<1>20. \/ stage'["r"] = "RECV_MISSING_CONTENT"
       \/ /\ stage'["r"] = "INSERT_INBOUND_FINGERPRINTS"
          /\ ContentRecvd + n = Size(Missing) /\ SenderDone(R)
  <2> SUFFICES ASSUME ~ (n < left), ~ (recv_req.content_ind < recv_req.num_missing)
               PROVE  ContentRecvd + n = Size(Missing) /\ SenderDone(R)
    BY <1>3
  <2>1. c = Len(Missing) + 1 /\ o = 0 BY <1>6, <1>7, <1>16, SMTT(30)
  <2>2. ContentRecvd' = OffsetOf(Missing, Len(Missing) + 1) + 0
    BY <1>17, <2>1 DEF ContentRecvd
  <2>3. OffsetOf(Missing, Len(Missing) + 1) = Size(Missing) BY <1>6, OffsetFacts
  <2>4. ContentRecvd + n = Size(Missing) BY <1>7, <1>17, <2>2, <2>3
  <2>5. ContentAhead = ContentSent - ContentRecvd BY <1>5 DEF ContentAhead
  <2>6. ContentSent >= Size(Missing) BY <1>7, <1>13, <1>14, <2>4, <2>5
  <2> QED BY <1>7, <2>4, <2>6
<1>21. TypeOK'
  <2>1. stage'["r"] \in RecvStages BY <1>3 DEF RecvStages
  <2>2. i' \in [Ends -> Nat] /\ IsSocket(rev') BY <1>1, <1>2 DEF TypeOK
  <2> QED BY <1>1, <1>2, <1>3, <1>4, <1>12, <1>17, <2>1, <2>2, ReceiverType
<1>22. /\ \A k : SenderDone(k)' = SenderDone(k)
       /\ \A k : StartOf(k)' = StartOf(k)
  BY <1>4, ReceiverBase
<1>23. ContentAhead' = ContentAhead - n /\ ContentAhead \in Nat
  <2>1. ContentAhead = ContentSent - ContentRecvd /\ ContentAhead \in Nat BY <1>5, FwdFacts
  <2>2. ContentSent' = ContentSent
    <3>1. SenderDone(R)' <=> SenderDone(R)
      <4>1. SenderDone(R)' <=> (R' < S' \/ (R' = S' /\ stage'["s"] = "SEND_COMPLETE"))
        BY DEF SenderDone
      <4>2. SenderDone(R) <=> (R < S \/ (R = S /\ stage["s"] = "SEND_COMPLETE"))
        BY DEF SenderDone
      <4> QED BY <1>3, <1>18, <4>1, <4>2
    <3> QED BY <1>1, <1>3, <1>17, <3>1 DEF ContentSent
  <2>3. CASE stage'["r"] = "RECV_MISSING_CONTENT"
    <3>1. ContentAhead' = ContentSent' - ContentRecvd' BY <1>1, <2>3 DEF ContentAhead, At
    <3> QED BY <1>7, <1>13, <1>17, <2>1, <2>2, <3>1
  <2>4. CASE stage'["r"] # "RECV_MISSING_CONTENT"
    <3>1. ContentAhead' = 0 BY <2>4 DEF ContentAhead, At
    <3>2. ContentAhead <= n BY <1>7, <1>13, <1>20, <2>1, <2>4
    <3> QED BY <1>13, <1>14, <2>1, <3>1, <3>2
  <2> QED BY <2>3, <2>4
<1>24. FwdInv'
  <2>1. RecvAt' = MsgLen(sent[R]) /\ RecvAt = MsgLen(sent[R]) BY <1>1, <1>3, <1>18 DEF RecvAt
  <2>2. StartOf(R)' = StartOf(R) BY <1>1, <1>18 DEF StartOf
  <2>3. RPos' = RPos BY <1>1, <2>1, <2>2 DEF RPos
  <2>4. SPos' = SPos BY <1>4, ReceiverBase
  <2>5. /\ FwdOK(fwd, ContentAhead, Missing, ContentRecvd, sent, RPos, SPos)
        /\ IsSeq(fwd) /\ sent \in Seq(Messages)
        /\ ContentAhead \in Nat /\ RPos \in Nat /\ SPos \in Nat
    BY FwdFacts
  <2>6. FwdOK(fwd', ContentAhead - n, Missing, ContentRecvd + n, sent, RPos, SPos)
    <3>1. Shifts(fwd, n, fwd') /\ n <= ContentAhead /\ n \in Nat BY <1>12, <1>13, <1>14
    <3>2. Missing \in Seq(Fingerprints) /\ ContentRecvd \in Nat BY <1>6, <1>7
    <3> QED BY <2>5, <3>1, <3>2, ContentPop
  <2> QED BY <1>1, <1>17, <1>23, <2>3, <2>4, <2>6 DEF FwdInv, FwdOK
<1>25. stage["s"] = "SEND_MISSING_CONTENT" => R = S /\ stage'["r"] = "RECV_MISSING_CONTENT"
  <2>1. ASSUME stage["s"] = "SEND_MISSING_CONTENT"
        PROVE  R = S /\ stage'["r"] = "RECV_MISSING_CONTENT"
    <3>1. R = S BY <1>2, <2>1 DEF SendInv, SendContentInv
    <3>2. ~ SenderDone(R) BY <1>6, <2>1, <3>1 DEF SenderDone
    <3> QED BY <1>20, <3>1, <3>2
  <2> QED BY <2>1
<1>26. RevInv'
  <2>1. ~ AskedNothing(S) BY <1>1, <1>6 DEF AskedNothing, At
  <2>2. ~ AskedNothing(S)'
    <3>1. ~ (R' = S' + 1) BY <1>6, <1>18
    <3>2. ~ At("r", "RECV_COMPLETE")' BY <1>3 DEF At
    <3> QED BY <3>1, <3>2 DEF AskedNothing
  <2>3. R = S => stage["s"] \in {"SEND_MISSING_CONTENT", "SEND_COMPLETE"}
    BY <1>6, <1>14 DEF SenderDone
  <2>4. CASE stage["s"] = "RECV_MISSING_FINGERPRINT_HEADER"
    <3>1. R # S /\ R' # S' BY <1>18, <2>3, <2>4
    <3>2. rev = <<>> BY <1>2, <2>1, <2>4, <3>1 DEF RevInv
    <3> QED BY <1>1, <1>3, <2>2, <2>4, <3>1, <3>2 DEF RevInv
  <2>5. CASE stage["s"] = "RECV_MISSING_FINGERPRINTS" BY <1>2, <2>3, <2>5 DEF RevInv
  <2>6. CASE stage["s"] \notin {"RECV_MISSING_FINGERPRINT_HEADER", "RECV_MISSING_FINGERPRINTS"}
    BY <1>1, <1>2, <1>3, <2>6 DEF RevInv
  <2> QED BY <2>4, <2>5, <2>6
<1>27. TurnInv'
  <2>1. \A k \in R .. S : SenderDone(k) /\ IsFingerprinted(sent[k]) => k = R
    BY <1>2 DEF TurnInv
  <2>2. active_fds'["r"] /\ stage'["r"] \in {"RECV_MISSING_CONTENT", "INSERT_INBOUND_FINGERPRINTS",
                                             "RECV_COMPLETE"}
    BY <1>1, <1>3
  <2>3. ASSUME ~ SenderDone(S), R = S
        PROVE  stage'["r"] = "RECV_MISSING_CONTENT" /\ stage'["s"] = "SEND_MISSING_CONTENT"
    BY <1>3, <1>14, <1>25, <2>3
  <2>4. SenderDone(S)' <=> SenderDone(S) BY <1>3, <1>18 DEF SenderDone
  <2>5. R' < S' \/ R' = S' BY <1>6, <1>18
  <2>6. ~ At("r", "RECV_COMPLETE")' BY <1>3 DEF At
  <2>7. \A k \in R' .. S' : SenderDone(k)' /\ IsFingerprinted(sent'[k]) => k = R'
    BY <1>1, <1>18, <1>22, <2>1
  <2> QED BY <1>1, <1>3, <1>18, <2>2, <2>3, <2>4, <2>5, <2>6, <2>7 DEF TurnInv
<1>28. SendInv'
  <2>1. stage["s"] = "SEND_MISSING_CONTENT" => SendContentInv'
    <3>1. stage["s"] = "SEND_MISSING_CONTENT" => SendContentInv
      BY <1>2 DEF SendInv
    <3> QED BY <1>1, <1>17, <1>18, <1>25, <3>1 DEF SendContentInv, At
  <2> QED BY <1>2, <1>4, <2>1, SendFrame DEF ReceiverStep
<1>29. RecvInv'
  BY <1>1, <1>3, <1>6, <1>17, <1>18, <1>19
  DEF RecvInv, At, RecvFpStages, RecvFirst, RecvKnown
<1>30. HostHasAll' BY <1>1, <1>2, <1>17 DEF AnnouncedInv, HostHasAll, CacheSame
<1>31. DeliveredAsSent' BY <1>1, <1>2, DeliveredFrame
<1> QED BY <1>4, <1>21, <1>24, <1>26, <1>27, <1>28, <1>29, <1>30, <1>31, ReceiverBase DEF TransferInv


(* What test reports of a receive: the message of the sender, with wrong   *)
(* bytes if a chunk was torn.                                              *)
LEMMA TestRecvPayload ==
  ASSUME TransferInv, At("r", "RECV_COMPLETE"), NEW w,
         Is(w, [size |-> recv_req.header.content_size,
                data |-> [p \in 1 .. recv_req.header.content_size |-> recv_req.app_buffer[p]]])
  PROVE  /\ R <= S /\ R \in Nat \ {0} /\ S \in Nat /\ sent[R] \in Messages
         /\ Len(delivered) = R - 1
         /\ w \in [size : Nat, data : Seq(Units \cup {Junk})]
         /\ R \in torn => w \in Damaged[sent[R]]
         /\ R \notin torn => w = Payload(sent[R])
<1> DEFINE fps == ChunksOf[sent[R]]
           data == [p \in 1 .. Size(fps) |-> recv_req.app_buffer[p]]
<1>1. /\ R <= S /\ sent[R] \in Messages /\ recv_req.header = HeaderOf(sent[R]) /\ CompleteInv
      /\ S \in Nat /\ R \in Nat \ {0} /\ Len(delivered) = R - 1
  BY RecvPosition, Counts DEF TransferInv, RecvInv, At
<1>2. fps \in Seq(Fingerprints) /\ Size(fps) \in Nat
  <2>1. fps \in Seq(Fingerprints) BY <1>1, TransferAssumption
  <2> QED BY <2>1, OffsetFacts
<1>3. w = [size |-> Size(fps), data |-> data] BY <1>1 DEF HeaderOf, Is
<1>4. \A p \in 1 .. Size(fps) :
        recv_req.app_buffer[p] = Data(fps)[p] \/ (R \in torn /\ recv_req.app_buffer[p] = Junk)
  BY <1>1 DEF CompleteInv
<1> HIDE DEF fps
<1>5. /\ Data(fps) = [p \in 1 .. Size(fps) |-> Data(fps)[p]]
      /\ \A p \in 1 .. Size(fps) : Data(fps)[p] \in Units
  BY <1>2, DataSeq DEF IsSeq
<1>6. data \in Seq(Units \cup {Junk})
  <2>1. Len(data) = Size(fps) BY <1>2
  <2>2. IsSeq(data) BY <1>2, <2>1 DEF IsSeq
  <2>3. \A p \in 1 .. Len(data) : data[p] \in Units \cup {Junk} BY <1>4, <1>5, <2>1
  <2> HIDE DEF data
  <2> QED BY <2>2, <2>3, SeqOfMembers
<1>7. R \in torn => w \in Damaged[sent[R]]
  <2> DEFINE wrong == {p \in 1 .. Size(fps) : recv_req.app_buffer[p] # Data(fps)[p]}
             made == [p \in 1 .. Size(fps) |-> IF p \in wrong THEN Junk ELSE Data(fps)[p]]
  <2>1. data = made BY <1>4
  <2>2. wrong \in SUBSET (1 .. Size(fps)) OBVIOUS
  <2>3. w = [size |-> Size(fps), data |-> made] BY <1>3, <2>1
  <2> HIDE DEF wrong, data
  <2> QED BY <1>1, <2>2, <2>3 DEF Damaged, fps
<1>8. R \notin torn => w = Payload(sent[R])
  <2> SUFFICES ASSUME R \notin torn PROVE w = Payload(sent[R]) OBVIOUS
  <2>1. data = Data(fps) BY <1>4, <1>5
  <2> QED BY <1>3, <2>1 DEF Payload, fps
<1>9. w \in [size : Nat, data : Seq(Units \cup {Junk})]
  <2> HIDE DEF data
  <2> QED BY <1>2, <1>3, <1>6
<1> QED BY <1>1, <1>7, <1>8, <1>9

(* netDedup_test reports the message of the sender. *)
LEMMA TestRecvKeeps ==
  ASSUME TransferInv, TestRecv
  PROVE  TransferInv'
<1>0. PICK w : Is(w, [size |-> recv_req.header.content_size,
                      data |-> [p \in 1 .. recv_req.header.content_size |->
                                  recv_req.app_buffer[p]]])
  BY DEF Is
<1>1. /\ active_fds["r"] /\ stage["r"] = "RECV_COMPLETE"
      /\ delivered' = Append(delivered, w)
      /\ active_fds' = [active_fds EXCEPT !["r"] = FALSE]
      /\ sent' = sent /\ fwd' = fwd /\ rev' = rev /\ i' = i /\ stage' = stage
      /\ send_req' = send_req /\ recv_req' = recv_req /\ CacheSame /\ torn' = torn
  BY <1>0 DEF TestRecv, At, netVars, cacheVars, CacheSame, Is
<1>2. TypeOK /\ RecvInv /\ SendInv /\ DeliveredAsSent /\ AnnouncedInv /\ RevInv /\ TurnInv
  BY DEF TransferInv
<1>3. ~ active_fds'["r"] /\ active_fds'["s"] = active_fds["s"] /\ active_fds' \in [Ends -> BOOLEAN]
  <2>1. active_fds \in [Ends -> BOOLEAN] BY <1>2 DEF TypeOK
  <2> QED BY <1>1, <2>1, Zenon DEF Ends
<1>4. ReceiverStep BY <1>1, <1>3 DEF ReceiverStep, SendSame
<1>5. /\ R <= S /\ sent[R] \in Messages
      /\ S \in Nat /\ R \in Nat \ {0} /\ Len(delivered) = R - 1
      /\ w \in [size : Nat, data : Seq(Units \cup {Junk})]
      /\ R \in torn => w \in Damaged[sent[R]]
      /\ R \notin torn => w = Payload(sent[R])
  BY <1>0, <1>1, TestRecvPayload DEF At
<1>11. /\ delivered' \in Seq([size : Nat, data : Seq(Units \cup {Junk})])
       /\ Len(delivered') = R /\ delivered'[R] = w
       /\ \A k \in 1 .. R - 1 : delivered'[k] = delivered[k]
  <2>1. delivered \in Seq([size : Nat, data : Seq(Units \cup {Junk})]) BY <1>2 DEF TypeOK
  <2>2. w \in [size : Nat, data : Seq(Units \cup {Junk})] BY <1>5
  <2>3. /\ Append(delivered, w) \in Seq([size : Nat, data : Seq(Units \cup {Junk})])
        /\ Len(Append(delivered, w)) = Len(delivered) + 1
        /\ Append(delivered, w)[Len(delivered) + 1] = w
        /\ \A k \in 1 .. Len(delivered) : Append(delivered, w)[k] = delivered[k]
    BY <2>1, <2>2, AppendProperties
  <2>4. Len(delivered) + 1 = R BY <1>5
  <2> QED BY <1>1, <1>5, <2>3, <2>4
<1>12. R' = R + 1 /\ S' = S BY <1>1, <1>5, <1>11 DEF R, S
<1>13. TypeOK' BY <1>1, <1>2, <1>3, <1>11 DEF TypeOK, CacheSame
<1>14. DeliveredAsSent'
  <2>1. Len(delivered') <= Len(sent') BY <1>1, <1>5, <1>11 DEF S
  <2>2. ASSUME NEW k \in 1 .. R
        PROVE  IF k \in torn THEN delivered'[k] \in Damaged[sent[k]]
                             ELSE delivered'[k] = Payload(sent[k])
    <3>1. CASE k = R BY <1>5, <1>11, <3>1
    <3>2. CASE k # R
      <4>1. k \in 1 .. R - 1 BY <1>5, <3>2
      <4> QED BY <1>2, <1>5, <1>11, <4>1 DEF DeliveredAsSent
    <3> QED BY <3>1, <3>2
  <2> QED BY <1>1, <1>11, <2>1, <2>2 DEF DeliveredAsSent
<1>15. ~ At("r", "RECV_MISSING_CONTENT") /\ ~ At("r", "RECV_MISSING_CONTENT")'
       /\ ~ Asking /\ ~ Asking' /\ ~ At("r", "RECV_COMPLETE")'
  BY <1>1, <1>3 DEF At, Asking
<1>16. RPos' = RPos
  <2>1. RPos = StartOf(R) + MsgLen(sent[R]) BY <1>1 DEF RPos, RecvAt
  <2>2. StartOf(R + 1) = StartOf(R) + MsgLen(sent[R])
    <3>1. R \in 1 .. S BY <1>5
    <3> QED BY <1>2, <3>1, Counts
  <2>3. \A k : StartOf(k)' = StartOf(k) BY <1>4, ReceiverBase
  <2>4. StartOf(R + 1) = StartAt(sent, R + 1) BY DEF StartOf
  <2>6. RPos' = StartAt(sent', R') BY <1>3 DEF RPos, StartOf
  <2> QED BY <1>1, <1>12, <2>1, <2>2, <2>4, <2>6
<1>17. FwdInv'
  <2>1. ContentAhead' = ContentAhead /\ ContentAhead = 0 BY <1>15 DEF ContentAhead
  <2>2. SPos' = SPos BY <1>4, ReceiverBase
  <2> QED BY <1>1, <1>16, <2>1, <2>2, FwdStay
<1>18. SendInv' /\ stage["s"] # "SEND_MISSING_CONTENT" BY <1>4, <1>15, SendStays
<1>19. ~ SenderDone(S) /\ R = S /\ IsFingerprinted(sent[S]) =>
         stage["s"] = "RECV_MISSING_FINGERPRINT_HEADER" /\ recv_req.num_missing = 0
  <2> SUFFICES ASSUME ~ SenderDone(S), R = S, IsFingerprinted(sent[S])
               PROVE  stage["s"] = "RECV_MISSING_FINGERPRINT_HEADER" /\ recv_req.num_missing = 0
    OBVIOUS
  <2>1. RecvAt = MsgLen(sent[R]) BY <1>1 DEF RecvAt
  <2>2. stage["s"] \in {"RECV_MISSING_FINGERPRINT_HEADER", "RECV_MISSING_FINGERPRINTS"}
        /\ (stage["s"] = "RECV_MISSING_FINGERPRINTS" => Asking)
    BY <1>1, <1>5, <1>15, <2>1, SenderWaits
  <2>3. S > 0 BY <1>5
  <2>4. recv_req.num_missing = 0 BY <1>1, <1>2, <1>5, <2>3 DEF TurnInv, At
  <2> QED BY <1>15, <2>2, <2>4
<1>20. RevInv'
  <2>1. CASE stage["s"] = "RECV_MISSING_FINGERPRINT_HEADER"
    <3>1. IsFingerprinted(sent[S]) /\ ~ SenderDone(S)
      BY <1>2, <1>5, <2>1 DEF SendInv, SendFpStages, SendStages, SenderDone
    <3>2. AskedNothing(S) <=> R = S BY <1>1, <1>5, <1>19, <3>1 DEF AskedNothing, At
    <3>3. (R' = S' + 1 \/ (R' = S' /\ At("r", "RECV_COMPLETE")' /\ recv_req'.num_missing = 0))
            <=> R = S
      BY <1>5, <1>12, <1>15
    <3> QED BY <1>1, <1>2, <1>15, <2>1, <3>2, <3>3 DEF RevInv, AskedNothing
  <2>2. CASE stage["s"] = "RECV_MISSING_FINGERPRINTS" BY <1>2, <1>15, <2>2 DEF RevInv
  <2>3. CASE stage["s"] \notin {"RECV_MISSING_FINGERPRINT_HEADER", "RECV_MISSING_FINGERPRINTS"}
    BY <1>1, <1>2, <2>3 DEF RevInv
  <2> QED BY <2>1, <2>2, <2>3
<1>21. TurnInv'
  <2>1. \A k \in R .. S : SenderDone(k) /\ IsFingerprinted(sent[k]) => k = R
    BY <1>2 DEF TurnInv
  <2>2. \A k : SenderDone(k)' <=> SenderDone(k) BY <1>4, ReceiverBase
  <2>3. \A k \in R' .. S' : ~ (SenderDone(k)' /\ IsFingerprinted(sent'[k]))
    BY <1>1, <1>5, <1>12, <2>1, <2>2
  <2>4. SenderDone(S)' <=> SenderDone(S) BY <1>1, <1>12 DEF SenderDone
  <2>5. R' < S' \/ R' = S' \/ (R' = S' + 1 /\ R = S) BY <1>5, <1>12
  <2>6. stage'["r"] = "RECV_COMPLETE" BY <1>1
  <2> QED BY <1>1, <1>12, <1>15, <1>19, <2>3, <2>4, <2>5, <2>6 DEF TurnInv
<1>22. RecvInv'
  BY <1>1, <1>3 DEF RecvInv, At, RecvFpStages, RecvFirst, RecvKnown
<1>23. HostHasAll' BY <1>1, <1>2 DEF AnnouncedInv, HostHasAll, CacheSame
<1> QED BY <1>4, <1>13, <1>14, <1>17, <1>18, <1>20, <1>21, <1>22, <1>23, ReceiverBase DEF TransferInv

-----------------------------------------------------------------------------
(* The invariant holds at first and is kept by every step.                 *)

(* Two idle comms over an empty socket.                                    *)
LEMMA InitHolds ==
  ASSUME Init
  PROVE  ConnectionInv
<1>1. /\ sent = <<>> /\ delivered = <<>> /\ fwd = <<>> /\ rev = <<>>
      /\ cache = [h \in Hosts |-> [f \in Fingerprints |-> Absent]]
      /\ cache_lock = [h \in Hosts |-> Free]
      /\ to_skip_insert_cache \in [Ends -> BOOLEAN]
      /\ active_fds = [e \in Ends |-> FALSE] /\ i = [e \in Ends |-> 0]
      /\ stage = [e \in Ends |-> IF e = "s" THEN "SEND_COMPLETE" ELSE "RECV_COMPLETE"]
      /\ send_req = FreshSendReq /\ recv_req = FreshRecvReq
      /\ trying = {} /\ torn = {} /\ astray = [e \in Ends |-> FALSE]
  BY DEF Init
<1>2. /\ stage["s"] = "SEND_COMPLETE" /\ stage["r"] = "RECV_COMPLETE"
      /\ stage \in [Ends -> SendStages \cup RecvStages]
  BY <1>1 DEF Ends, SendStages, RecvStages
<1>3. ~ active_fds["s"] /\ ~ active_fds["r"] /\ active_fds \in [Ends -> BOOLEAN]
  <2>1. \A e \in Ends : active_fds[e] = FALSE BY <1>1
  <2>2. active_fds \in [Ends -> BOOLEAN] BY <1>1
  <2>3. "s" \in Ends /\ "r" \in Ends BY DEF Ends
  <2>4. active_fds["s"] = FALSE /\ active_fds["r"] = FALSE BY <2>1, <2>3
  <2> QED BY <2>2, <2>4
<1>4. IsSocket(<<>>)
  <2>1. Len(<<>>) = 0 OBVIOUS
  <2>2. <<>> = [k \in 1 .. 0 |-> <<>>[k]] OBVIOUS
  <2> QED BY <2>1, <2>2, TransferAssumption DEF IsSocket
<1>5. TypeOK
  <2>1. send_req \in SendReqs BY <1>1 DEF FreshSendReq, SendReqs
  <2>2. recv_req \in RecvReqs BY <1>1, FreshRecvType
  <2>3. cache \in [Hosts -> [Fingerprints -> Seq(Units)]] BY <1>1 DEF Absent
  <2>4. cache_lock \in [Hosts -> Ends \cup {Free, Others}] BY <1>1
  <2>5. i \in [Ends -> Nat] BY <1>1
  <2>6. sent \in Seq(Messages) /\ delivered \in Seq([size : Nat, data : Seq(Units \cup {Junk})])
    BY <1>1
  <2>7. IsSocket(fwd) /\ IsSocket(rev) BY <1>1, <1>4
  <2>8. stage["s"] \in SendStages /\ stage["r"] \in RecvStages
    BY <1>2 DEF SendStages, RecvStages
  <2>9. trying \in SUBSET Ends /\ torn \in SUBSET Nat /\ astray \in [Ends -> BOOLEAN]
    BY <1>1
  <2> QED BY <1>1, <1>2, <1>3, <2>1, <2>2, <2>3, <2>4, <2>5, <2>6, <2>7, <2>8, <2>9 DEF TypeOK
<1>6. S = 0 /\ R = 1 BY <1>1 DEF S, R
<1>7. DeliveredAsSent BY <1>1 DEF DeliveredAsSent
<1>8. StartOf(1) \in Nat BY <1>5, <1>6, <1>7, Counts
<1>9. FwdInv
  <2>1. RPos = StartOf(1) /\ SPos = StartOf(1) BY <1>3, <1>6 DEF RPos, SPos
  <2>2. ContentAhead = 0 BY <1>2 DEF ContentAhead, At
  <2>3. Len(fwd) = 0 BY <1>1
  <2>4. FwdLength(fwd, 0, StartOf(1), StartOf(1)) BY <1>8, <2>3 DEF FwdLength
  <2>5. \A m, c : FwdContent(fwd, 0, m, c) BY DEF FwdContent
  <2>6. FwdStream(fwd, 0, sent, StartOf(1), StartOf(1))
    <3>1. StartOf(1) - StartOf(1) = 0 BY <1>8
    <3>2. Len(sent) = 0 BY <1>1
    <3> QED BY <3>2 DEF FwdStream
  <2> QED BY <2>1, <2>2, <2>4, <2>5, <2>6 DEF FwdInv
<1>10. RevInv BY <1>1, <1>2 DEF RevInv
<1>11. SendInv BY <1>2, <1>3 DEF SendInv, SendFpStages
<1>12. RecvInv BY <1>2, <1>3 DEF RecvInv, At, RecvFpStages, RecvFirst, RecvKnown
<1>13. TurnInv BY <1>6 DEF TurnInv
<1>14. CachesRight BY <1>1 DEF CachesRight
<1>15. LockInv
  <2>1. \A e \in Ends : HostOf[e] \in Hosts BY DEF Hosts
  <2> QED BY <1>1, <2>1, TransferAssumption DEF LockInv
<1>16. AnnouncedInv
  <2>1. recv_req.num_missing = 0 BY <1>1 DEF FreshRecvReq
  <2> QED BY <1>3, <2>1 DEF AnnouncedInv, HostHasAll
<1>17. TransferInv
  BY <1>5, <1>7, <1>9, <1>10, <1>11, <1>12, <1>13, <1>14, <1>15, <1>16 DEF TransferInv
<1>18. AstrayInv
  <2>1. ~ astray["s"] BY <1>1, Zenon DEF Ends
  <2> QED BY <2>1 DEF AstrayInv
<1> QED BY <1>5, <1>17, <1>18 DEF ConnectionInv

(* A step that changes nothing but where the ends are astray.              *)
LEMMA QuietKeeps ==
  ASSUME TransferInv, UNCHANGED vars \/ \E e \in Ends : GoAstray(e)
  PROVE  TransferInv'
<1>1. TypeOK /\ CachesRight /\ LockInv /\ AnnouncedInv BY DEF TransferInv
<1>2. /\ Still /\ stage' = stage /\ i' = i /\ cache' = cache /\ cache_lock' = cache_lock
      /\ to_skip_insert_cache' = to_skip_insert_cache /\ trying' = trying
  BY DEF GoAstray, vars, netVars, cacheVars, Still
<1>3. ProtocolInv' BY <1>2, QuietFrame
<1>4. astray' \in [Ends -> BOOLEAN] BY <1>1 DEF TypeOK, GoAstray, vars, cacheVars
<1>5. TypeOK' BY <1>1, <1>2, <1>4 DEF TypeOK, Still
<1>6. CachesRight' BY <1>1, <1>2 DEF CachesRight
<1>7. LockInv' BY <1>1, <1>2 DEF LockInv, At, Still
<1>8. AnnouncedInv'
  <2>1. CacheGrows BY <1>2 DEF CacheGrows
  <2>2. \A j : PastInsert(j)' => PastInsert(j) BY <1>2 DEF PastInsert
  <2> QED BY <1>2, <2>1, <2>2, AnnouncedStays
<1> QED BY <1>3, <1>5, <1>6, <1>7, <1>8 DEF TransferInv, ProtocolInv

(* Every step of the connection preserves what holds until the receiving   *)
(* end is astray.                                                          *)
LEMMA StepKeeps ==
  ASSUME TransferInv,
         \/ \E m \in Messages : ISend(m)
         \/ SendStep \/ RecvStep \/ OthersStep \/ UNCHANGED vars
  PROVE  TransferInv'
<1>1. ASSUME NEW m \in Messages, ISend(m) PROVE TransferInv' BY <1>1, ISendKeeps
<1>2. ASSUME NEW e \in Ends, GoAstray(e) PROVE TransferInv' BY <1>2, QuietKeeps
<1>3. "s" \in Ends /\ "r" \in Ends BY DEF Ends
<1>4. CASE SendStep
  <2>1. CASE ProcessSend
    <3>1. ASSUME InsertStep("s") PROVE TransferInv' BY <1>3, <3>1, InsertStepKeeps
    <3> QED BY <2>1, <3>1, SendHeaderKeeps, SendRegDataEmptyKeeps, SendRegDataKeeps,
               ComputeFingerprintsKeeps, SendFingerprintHeaderKeeps, SendPackagedFingerprintsKeeps,
               RecvMissingFingerprintHeaderKeeps, RecvMissingFingerprintsKeeps,
               SendMissingContentKeeps, TestSendKeeps
           DEF ProcessSend
  <2> QED BY <1>2, <1>3, <1>4, <2>1 DEF SendStep, SendHeaderCut, SendFingerprintHeaderCut
<1>5. CASE RecvStep
  <2>1. CASE ProcessRecv
    <3>1. ASSUME InsertStep("r") PROVE TransferInv' BY <1>3, <3>1, InsertStepKeeps
    <3> QED BY <2>1, <3>1, IRecvKeeps, RecvHeaderKeeps, RecvRegDataEmptyKeeps, RecvRegDataKeeps,
               RecvFingerprintHeaderKeeps, RecvPackagedFingerprintsKeeps,
               PopulateFromNetCacheKeeps, SendMissingFingerprintHeaderKeeps,
               SendMissingFingerprintsKeeps, RecvMissingContentKeeps, TestRecvKeeps
           DEF ProcessRecv
  <2> QED BY <1>2, <1>3, <1>5, <2>1, PopulateFromNetCacheKeeps
          DEF RecvStep, RecvHeaderCut, RecvFingerprintHeaderCut
<1>6. CASE OthersStep BY <1>6, OthersStepKeeps
<1>7. CASE UNCHANGED vars BY <1>7, QuietKeeps
<1> QED BY <1>1, <1>4, <1>5, <1>6, <1>7

(* What neither application sees, and no cut header or torn chunk.         *)
Unseen == sent' = sent /\ delivered' = delivered /\ torn' = torn /\ astray' = astray

(* Inserts are not seen by the applications.                               *)
LEMMA InsertUnseen ==
  ASSUME NEW e \in Ends, InsertStep(e)
  PROVE  Unseen
<1>1. ASSUME TestSkip(e) PROVE Unseen BY <1>1 DEF TestSkip, Unseen
<1>2. ASSUME TryLock(e) PROVE Unseen BY <1>2 DEF TryLock, Unseen
<1>3. ASSUME TryLockFails(e) PROVE Unseen BY <1>3 DEF TryLockFails, Unseen
<1>4. ASSUME InsertFingerprint(e) PROVE Unseen BY <1>4 DEF InsertFingerprint, Unseen
<1>5. ASSUME CacheIsFull(e) PROVE Unseen BY <1>5 DEF CacheIsFull, Unseen
<1>6. ASSUME Unlock(e) PROVE Unseen BY <1>6 DEF Unlock, Unseen
<1> QED BY <1>1, <1>2, <1>3, <1>4, <1>5, <1>6 DEF InsertStep

(* No stage of the sender is seen by the applications.                     *)
LEMMA SendUnseen == ProcessSend => Unseen
<1>1. SendHeader => Unseen BY DEF SendHeader, Unseen, cacheVars
<1>2. SendRegDataEmpty => Unseen BY DEF SendRegDataEmpty, Unseen, cacheVars
<1>3. SendRegData => Unseen BY DEF SendRegData, Unseen, cacheVars
<1>4. ComputeFingerprints => Unseen BY DEF ComputeFingerprints, Unseen, cacheVars
<1>5. SendFingerprintHeader => Unseen BY DEF SendFingerprintHeader, Unseen, cacheVars
<1>6. SendPackagedFingerprints => Unseen BY DEF SendPackagedFingerprints, Unseen, cacheVars
<1>7. RecvMissingFingerprintHeader => Unseen BY DEF RecvMissingFingerprintHeader, Unseen, cacheVars
<1>8. RecvMissingFingerprints => Unseen BY DEF RecvMissingFingerprints, Unseen, cacheVars
<1>9. SendMissingContent => Unseen BY DEF SendMissingContent, Unseen, cacheVars
<1>10. TestSend => Unseen BY DEF TestSend, Unseen, cacheVars
<1>11. "s" \in Ends BY DEF Ends
<1> QED BY <1>1, <1>2, <1>3, <1>4, <1>5, <1>6, <1>7, <1>8, <1>9, <1>10, <1>11, InsertUnseen
        DEF ProcessSend

(* Of the receiver only the test of a complete receive is seen.            *)
LEMMA RecvUnseen == ProcessRecv => TestRecv \/ Unseen
<1>1. IRecv => Unseen BY DEF IRecv, Unseen, cacheVars
<1>2. RecvHeader => Unseen BY DEF RecvHeader, Unseen, cacheVars
<1>3. RecvRegDataEmpty => Unseen BY DEF RecvRegDataEmpty, Unseen, cacheVars
<1>4. RecvRegData => Unseen BY DEF RecvRegData, Unseen, cacheVars
<1>5. RecvFingerprintHeader => Unseen BY DEF RecvFingerprintHeader, Unseen, cacheVars
<1>6. RecvPackagedFingerprints => Unseen BY DEF RecvPackagedFingerprints, Unseen, cacheVars
<1>7. PopulateFromNetCache => Unseen BY DEF PopulateFromNetCache, Unseen, cacheVars
<1>8. SendMissingFingerprintHeader => Unseen BY DEF SendMissingFingerprintHeader, Unseen, cacheVars
<1>9. SendMissingFingerprints => Unseen BY DEF SendMissingFingerprints, Unseen, cacheVars
<1>10. RecvMissingContent => Unseen BY DEF RecvMissingContent, Unseen, cacheVars
<1>11. "r" \in Ends BY DEF Ends
<1> QED BY <1>1, <1>2, <1>3, <1>4, <1>5, <1>6, <1>7, <1>8, <1>9, <1>10, <1>11, InsertUnseen
        DEF ProcessRecv

(* What test reports is seen; nothing else of its step is.                 *)
LEMMA RecvSees == ProcessRecv => torn' = torn /\ astray' = astray
<1>1. TestRecv => torn' = torn /\ astray' = astray BY DEF TestRecv, cacheVars
<1> QED BY <1>1, RecvUnseen DEF Unseen

(* The receiver leaves the stage and the fd of the sender alone.           *)
LEMMA RecvApart ==
  ASSUME TypeOK, ProcessRecv
  PROVE  stage'["s"] = stage["s"] /\ active_fds'["s"] = active_fds["s"]
<1> DEFINE Apart == stage'["s"] = stage["s"] /\ active_fds'["s"] = active_fds["s"]
<1>1. stage \in [Ends -> SendStages \cup RecvStages] /\ active_fds \in [Ends -> BOOLEAN]
      /\ "s" \in Ends /\ "r" \in Ends /\ "s" # "r"
  BY DEF TypeOK, Ends
<1>2. \A st : Goto("r", st) => stage'["s"] = stage["s"] BY <1>1 DEF Goto
<1> HIDE DEF Apart
<1>3. IRecv => Apart BY <1>1, <1>2 DEF IRecv, Apart
<1>4. RecvHeader => Apart BY <1>2 DEF RecvHeader, Apart
<1>5. RecvRegDataEmpty => Apart BY <1>2 DEF RecvRegDataEmpty, Apart
<1>6. RecvRegData => Apart BY <1>2 DEF RecvRegData, Apart
<1>7. RecvFingerprintHeader => Apart BY <1>2 DEF RecvFingerprintHeader, Apart
<1>8. RecvPackagedFingerprints => Apart BY <1>2 DEF RecvPackagedFingerprints, Apart
<1>9. PopulateFromNetCache => Apart BY <1>2 DEF PopulateFromNetCache, Apart
<1>10. SendMissingFingerprintHeader => Apart BY <1>2 DEF SendMissingFingerprintHeader, Apart
<1>11. SendMissingFingerprints => Apart BY <1>2 DEF SendMissingFingerprints, Apart
<1>12. RecvMissingContent => Apart BY <1>2 DEF RecvMissingContent, Apart
<1>13. TestRecv => Apart BY <1>1 DEF TestRecv, Apart
<1>14. ASSUME InsertStep("r") PROVE Apart
  <2>1. TestSkip("r") => Apart BY <1>2 DEF TestSkip, Apart
  <2>2. TryLock("r") => Apart BY <1>2 DEF TryLock, Apart
  <2>3. TryLockFails("r") => Apart BY <1>2 DEF TryLockFails, Apart
  <2>4. InsertFingerprint("r") => Apart BY <1>2 DEF InsertFingerprint, Apart
  <2>5. CacheIsFull("r") => Apart BY <1>2 DEF CacheIsFull, Apart
  <2>6. Unlock("r") => Apart BY <1>2 DEF Unlock, Apart
  <2> QED BY <1>14, <2>1, <2>2, <2>3, <2>4, <2>5, <2>6 DEF InsertStep
<1> QED BY <1>3, <1>4, <1>5, <1>6, <1>7, <1>8, <1>9, <1>10, <1>11, <1>12, <1>13, <1>14 DEF ProcessRecv, Apart

(* A sending end that is astray takes no step.                             *)
LEMMA AstrayKeeps ==
  ASSUME TypeOK, AstrayInv,
         \/ \E m \in Messages : ISend(m)
         \/ SendStep \/ RecvStep \/ OthersStep \/ UNCHANGED vars
  PROVE  AstrayInv'
<1> USE DEF At
<1>1. stage \in [Ends -> SendStages \cup RecvStages] /\ active_fds \in [Ends -> BOOLEAN]
      /\ astray \in [Ends -> BOOLEAN]
  BY DEF TypeOK
<1>2. CASE \E m \in Messages : ISend(m)
  <2>1. ~ astray["s"] BY <1>2 DEF ISend, AstrayInv
  <2> QED BY <1>2, <2>1 DEF ISend, cacheVars, AstrayInv
<1>3. CASE SendStep
  <2>1. ~ astray["s"] BY <1>3 DEF SendStep
  <2>2. CASE ProcessSend
    <3>1. astray' = astray BY <2>2, SendUnseen DEF Unseen
    <3> QED BY <2>1, <3>1 DEF AstrayInv
  <2>3. CASE SendHeaderCut \/ SendFingerprintHeaderCut
    BY <2>3 DEF SendHeaderCut, SendFingerprintHeaderCut, GoAstray, AstrayInv
  <2> QED BY <1>3, <2>2, <2>3 DEF SendStep
<1>4. CASE RecvStep
  <2>1. /\ astray'["s"] = astray["s"] /\ stage'["s"] = stage["s"]
        /\ active_fds'["s"] = active_fds["s"]
    <3>1. CASE ProcessRecv BY <3>1, RecvApart, RecvSees
    <3>2. CASE PopulateTorn BY <1>1, <3>2 DEF PopulateTorn, Goto, Ends
    <3>3. CASE RecvHeaderCut \/ RecvFingerprintHeaderCut
      BY <1>1, <3>3 DEF RecvHeaderCut, RecvFingerprintHeaderCut, GoAstray, Ends
    <3> QED BY <1>4, <3>1, <3>2, <3>3 DEF RecvStep
  <2> QED BY <2>1 DEF AstrayInv
<1>5. CASE OthersStep
  BY <1>5 DEF OthersStep, LockByOthers, UnlockByOthers, InsertByOthers, SkipByOthers, AstrayInv
<1>6. CASE UNCHANGED vars BY <1>6 DEF vars, cacheVars, AstrayInv
<1> QED BY <1>2, <1>3, <1>4, <1>5, <1>6

(* When the receiving end is astray, all that is left are the types.       *)
LEMMA BrokenKeeps ==
  ASSUME TypeOK, astray["r"], AstrayStep \/ UNCHANGED vars
  PROVE  TypeOK' /\ astray'["r"]
<1>1. CASE UNCHANGED vars
  BY <1>1 DEF vars, netVars, cacheVars, TypeOK
<1>2. CASE AstrayStep
  <2>1. delivered' \in Seq([size : Nat, data : Seq(Units \cup {Junk})])
    <3>1. PICK w : w = [size |-> 1, data |-> <<Junk>>] OBVIOUS
    <3>2. <<Junk>> \in Seq(Units \cup {Junk}) OBVIOUS
    <3>3. w \in [size : Nat, data : Seq(Units \cup {Junk})] BY <3>1, <3>2
    <3>4. delivered' = Append(delivered, w) BY <1>2, <3>1 DEF AstrayStep
    <3>5. delivered \in Seq([size : Nat, data : Seq(Units \cup {Junk})]) BY DEF TypeOK
    <3> QED BY <3>3, <3>4, <3>5, AppendProperties
  <2>2. cache' \in [Hosts -> [Fingerprints -> Seq(Units)]]
    <3>1. PICK f \in Fingerprints, g \in Fingerprints : Insert(HostOf["r"], f, Content(g))
      BY <1>2 DEF AstrayStep
    <3>2. Content(g) \in Seq(Units) BY ContentSeq
    <3>3. cache \in [Hosts -> [Fingerprints -> Seq(Units)]] BY DEF TypeOK
    <3>4. PICK h \in Hosts : h = HostOf["r"] BY DEF Hosts, Ends
    <3>5. PICK new \in Seq(Units) : Is(new, IF cache[h][f] = Absent THEN Content(g) ELSE cache[h][f])
      BY <3>2, <3>3 DEF Is
    <3>6. cache' = [cache EXCEPT ![h] = [cache[h] EXCEPT ![f] = new]]
      BY <3>1, <3>4, <3>5 DEF Insert, Is
    <3> QED BY <3>3, <3>6
  <2> QED BY <1>2, <2>1, <2>2 DEF AstrayStep, TypeOK, netVars
<1> QED BY <1>1, <1>2

(* Every step preserves the invariant.                                     *)
LEMMA NextKeeps ==
  ASSUME ConnectionInv, [Next]_vars
  PROVE  ConnectionInv'
<1>1. CASE ~ astray["r"]
  <2>1. /\ TransferInv /\ TypeOK /\ AstrayInv
    BY <1>1 DEF ConnectionInv
  <2>2. \/ \E m \in Messages : ISend(m)
        \/ SendStep \/ RecvStep \/ OthersStep \/ UNCHANGED vars
    BY <1>1 DEF Next, AstrayStep
  <2>3. TransferInv' BY <2>1, <2>2, StepKeeps
  <2>4. AstrayInv' BY <2>1, <2>2, AstrayKeeps
  <2>5. TypeOK' BY <2>3 DEF TransferInv
  <2> QED BY <2>3, <2>4, <2>5 DEF ConnectionInv
<1>2. CASE astray["r"]
  <2>1. AstrayStep \/ UNCHANGED vars BY <1>2 DEF Next, SendStep, RecvStep
  <2>2. TypeOK BY DEF ConnectionInv
  <2>3. TypeOK' /\ astray'["r"] BY <1>2, <2>1, <2>2, BrokenKeeps
  <2> QED BY <2>3 DEF ConnectionInv
<1> QED BY <1>1, <1>2

(* The two ends and the wire stay in step: in every reachable state of the *)
(* protocol, whatever the socket takes and returns at a time, the tokens   *)
(* under way are those of the messages between the two ends, and the       *)
(* requests hold what their stages say.  This ends when the receiving end  *)
(* goes on with a header of which a part was moved, which four of the six  *)
(* header functions do at a wrong address.                                 *)
THEOREM TransferInvariant == Spec => []ConnectionInv
<1>1. Init => ConnectionInv BY InitHolds
<1>2. ConnectionInv /\ [Next]_vars => ConnectionInv' BY NextKeeps
<1> QED BY <1>1, <1>2, PTL DEF Spec

-----------------------------------------------------------------------------
(* What follows from the invariant.                                        *)

(* The next token of the stream, when the receiver is at position at of    *)
(* message k.                                                              *)
LEMMA NextToken ==
  ASSUME TransferInv, fwd # <<>>, ~ At("r", "RECV_MISSING_CONTENT"),
         NEW k \in Nat, k > 0, k <= S + 1, NEW at \in Nat, RPos = StartOf(k) + at,
         k <= S => at < MsgLen(sent[k]), k = S + 1 => at = 0
  PROVE  k <= S /\ sent[k] \in Messages /\ fwd[1] = MsgToken(sent[k], at + 1)
<1>1. TypeOK /\ DeliveredAsSent /\ SendInv BY DEF TransferInv
<1>2. /\ IsSeq(fwd) /\ sent \in Seq(Messages) /\ ContentAhead = 0
      /\ FwdOK(fwd, ContentAhead, Missing, ContentRecvd, sent, RPos, SPos)
      /\ RPos \in Nat /\ SPos \in Nat /\ RPos <= SPos /\ Len(fwd) = ContentAhead + (SPos - RPos)
  BY FwdFacts
<1>3. S \in Nat /\ StartOf(S + 1) \in Nat /\ \A j \in 1 .. S : sent[j] \in Messages
  <2>1. S \in Nat BY <1>1, Counts
  <2>2. S + 1 \in 1 .. S + 1 BY <2>1
  <2> QED BY <1>1, <2>1, <2>2, Counts
<1>4. Len(fwd) \in Nat /\ Len(fwd) # 0 BY <1>2, LenZero DEF IsSeq
<1>5. RPos < SPos BY <1>2, <1>4
<1>6. SPos <= StartOf(S + 1) BY <1>1, SendPosition
<1>7. k <= S
  <2> SUFFICES ASSUME k = S + 1 PROVE FALSE BY <1>3
  <2>1. RPos = StartOf(S + 1) + 0 OBVIOUS
  <2> QED BY <1>2, <1>3, <1>5, <1>6, <2>1
<1>8. k \in 1 .. S /\ sent[k] \in Messages BY <1>3, <1>7
<1>9. MsgLen(sent[k]) \in Nat BY <1>8, MsgFacts
<1>10. fwd[1] = MsgToken(sent[k], at + 1)
  <2>1. FwdOK(fwd, 0, Missing, ContentRecvd, sent, RPos, SPos) BY <1>2
  <2>2. IsSeq(fwd) /\ sent \in Seq(Messages) /\ RPos \in Nat /\ SPos \in Nat BY <1>2
  <2>3. k \in 1 .. Len(sent) BY <1>8 DEF S
  <2>4. RPos = StartAt(sent, k) + at BY DEF StartOf
  <2>5. 1 \in 1 .. Len(fwd) /\ at + 1 <= MsgLen(sent[k]) BY <1>4, <1>7, <1>9
  <2> QED BY <2>1, <2>2, <2>3, <2>4, <2>5, StreamRead
<1> QED BY <1>7, <1>8, <1>10

(* Where the receiver is at the end of message R, the next token is the    *)
(* header of the message after it.                                         *)
LEMMA NextHeader ==
  ASSUME TransferInv, fwd # <<>>, ~ At("r", "RECV_MISSING_CONTENT"), R <= S,
         RPos = StartOf(R) + MsgLen(sent[R])
  PROVE  fwd[1].type = "header"
<1>1. TypeOK /\ DeliveredAsSent BY DEF TransferInv
<1>2. S \in Nat /\ R \in Nat \ {0} /\ R + 1 <= S + 1 BY <1>1, Counts
<1>3. StartOf(R + 1) = StartOf(R) + MsgLen(sent[R]) /\ StartOf(R + 1) \in Nat
  <2>1. R \in 1 .. S /\ R + 1 \in 1 .. S + 1 BY <1>2
  <2> QED BY <1>1, <2>1, Counts
<1>4. RPos = StartOf(R + 1) + 0 BY <1>3
<1>5. R + 1 <= S => 0 < MsgLen(sent[R + 1])
  <2> SUFFICES ASSUME R + 1 <= S PROVE 0 < MsgLen(sent[R + 1]) OBVIOUS
  <2>1. R + 1 \in 1 .. S BY <1>2
  <2>2. MsgLen(sent[R + 1]) \in Nat \ {0} BY <1>1, <2>1, Counts
  <2> QED BY <2>2
<1>6. PICK k \in Nat : k = R + 1 BY <1>2
<1>7. sent[k] \in Messages /\ fwd[1] = MsgToken(sent[k], 0 + 1)
  <2>1. k > 0 /\ k <= S + 1 /\ RPos = StartOf(k) + 0 /\ (k <= S => 0 < MsgLen(sent[k]))
    BY <1>2, <1>4, <1>5, <1>6
  <2> QED BY <2>1, NextToken
<1> QED BY <1>7, TokenFacts

(* The types of the tokens of a message. *)
LEMMA TokenTypes ==
  ASSUME NEW m \in Messages, NEW p \in Nat \ {0}
  PROVE  /\ ~ IsFingerprinted(m) /\ p <= Size(ChunksOf[m]) => MsgToken(m, 1 + p).type = "data"
         /\ IsFingerprinted(m) /\ p <= Len(ChunksOf[m]) =>
              MsgToken(m, 2 + p).type = "fingerprint"
<1>1. Size(ChunksOf[m]) \in Nat /\ Len(ChunksOf[m]) \in Nat BY MsgFacts
<1>2. ASSUME ~ IsFingerprinted(m), p <= Size(ChunksOf[m])
      PROVE  MsgToken(m, 1 + p).type = "data"
  <2>1. p \in 1 .. Size(ChunksOf[m]) BY <1>1, <1>2
  <2>2. MsgToken(m, 1 + p) = [type |-> "data", val |-> Data(ChunksOf[m])[p]]
    BY <1>2, <2>1, TokenFacts
  <2> QED BY <2>2
<1>3. ASSUME IsFingerprinted(m), p <= Len(ChunksOf[m])
      PROVE  MsgToken(m, 2 + p).type = "fingerprint"
  <2>1. p \in 1 .. Len(ChunksOf[m]) BY <1>1, <1>3
  <2>2. MsgToken(m, 2 + p) = [type |-> "fingerprint", val |-> ChunksOf[m][p]]
    BY <1>3, <2>1, TokenFacts
  <2> QED BY <2>2
<1> QED BY <1>2, <1>3

(* What the receiver meets first is of the type that its stage expects.    *)
LEMMA FwdInStep ==
  ASSUME TransferInv, fwd # <<>>
  PROVE  fwd[1].type \in FwdNext
<1>1. TypeOK /\ DeliveredAsSent /\ SendInv /\ RecvInv BY DEF TransferInv
<1>2. /\ S \in Nat /\ R \in Nat \ {0} /\ R <= S + 1 /\ StartOf(R) \in Nat
      /\ IsSeq(fwd) /\ Len(fwd) \in Nat /\ Len(fwd) # 0
  <2>1. IsSeq(fwd) BY FwdFacts
  <2> QED BY <1>1, <2>1, Counts, RecvPosition, LenZero DEF IsSeq
<1>3. active_fds["r"] /\ stage["r"] # "RECV_HEADER" =>
        /\ R <= S /\ sent[R] \in Messages /\ RPos = StartOf(R) + RecvAt
        /\ recv_req.header = HeaderOf(sent[R])
  BY <1>1, RecvPosition DEF RecvInv
<1>4. stage["r"] # "RECV_COMPLETE" => active_fds["r"] BY <1>1 DEF RecvInv
<1>5. CASE At("r", "RECV_MISSING_CONTENT")
  <2>1. /\ recv_req.content_offset \in Nat
        /\ ContentSize[Missing[recv_req.content_ind]] \in Nat
        /\ recv_req.content_offset < ContentSize[Missing[recv_req.content_ind]]
    BY <1>1, <1>5, ContentFacts
  <2>2. recv_req.content_offset + 1 <= ContentSize[Missing[recv_req.content_ind]] BY <2>1
  <2>3. 1 \in Nat \ {0} /\ 1 <= Len(fwd) BY <1>2
  <2>4. fwd[1].type = "data"
    <3>1. \A k \in 1 .. 1 :
            fwd[k] = [type |-> "data", val |-> <<Missing[recv_req.content_ind],
                                                 recv_req.content_offset + k>>]
      BY <1>5, <2>2, <2>3, ContentComes
    <3> QED BY <3>1
  <2> QED BY <1>5, <2>4 DEF FwdNext, At
<1>6. CASE stage["r"] = "RECV_HEADER" \/ ~ active_fds["r"]
  <2>1. RPos = StartOf(R) + 0 /\ ~ At("r", "RECV_MISSING_CONTENT")
    BY <1>1, <1>2, <1>6, RecvPosition DEF At, RecvInv
  <2>2. R <= S => 0 < MsgLen(sent[R])
    <3> SUFFICES ASSUME R <= S PROVE 0 < MsgLen(sent[R]) OBVIOUS
    <3>1. R \in 1 .. S BY <1>2
    <3>2. MsgLen(sent[R]) \in Nat \ {0} BY <1>1, <3>1, Counts
    <3> QED BY <3>2
  <2>3. R \in Nat /\ R > 0 BY <1>2
  <2>4. sent[R] \in Messages /\ fwd[1] = MsgToken(sent[R], 0 + 1)
    BY <1>2, <2>1, <2>2, <2>3, NextToken
  <2>5. fwd[1].type = "header" BY <2>4, TokenFacts
  <2>6. stage["r"] \in {"RECV_HEADER", "RECV_COMPLETE"} BY <1>4, <1>6
  <2> QED BY <2>5, <2>6 DEF FwdNext
<1>7. CASE active_fds["r"] /\ stage["r"] \in {"INSERT_INBOUND_FINGERPRINTS", "RECV_COMPLETE"}
  <2>1. RecvAt = MsgLen(sent[R]) /\ ~ At("r", "RECV_MISSING_CONTENT") BY <1>7 DEF RecvAt, At
  <2>2. RPos = StartOf(R) + MsgLen(sent[R]) /\ R <= S BY <1>3, <1>7, <2>1
  <2>3. fwd[1].type = "header" BY <2>1, <2>2, NextHeader
  <2> QED BY <1>7, <2>3 DEF FwdNext
<1>8. CASE stage["r"] = "RECV_REG_DATA"
  <2>1. active_fds["r"] /\ RegDataInv /\ ~ At("r", "RECV_MISSING_CONTENT")
    BY <1>1, <1>4, <1>8 DEF RecvInv, At
  <2>2. R <= S /\ sent[R] \in Messages /\ RPos = StartOf(R) + RecvAt /\ RecvAt = 1 + recv_req.offset
        /\ recv_req.header = HeaderOf(sent[R])
    BY <1>3, <1>8, <2>1 DEF RecvAt
  <2>3. /\ recv_req.offset \in Nat /\ recv_req.offset <= Size(ChunksOf[sent[R]])
        /\ ~ IsFingerprinted(sent[R])
        /\ MsgLen(sent[R]) = 1 + Size(ChunksOf[sent[R]]) /\ Size(ChunksOf[sent[R]]) \in Nat
        /\ recv_req.header.content_size = Size(ChunksOf[sent[R]])
    BY <1>1, <2>1, <2>2, MsgFacts, SMTT(30) DEF RegDataInv, HeaderOf, TypeOK, RecvReqs
  <2>4. CASE recv_req.offset < Size(ChunksOf[sent[R]])
    <3>1. PICK at \in Nat : at = 1 + recv_req.offset BY <2>3
    <3>2. RPos = StartOf(R) + at /\ at < MsgLen(sent[R]) BY <2>2, <2>3, <2>4, <3>1
    <3>3. fwd[1] = MsgToken(sent[R], at + 1)
      <4>1. R \in Nat /\ R > 0 /\ R # S + 1 BY <1>2, <2>2
      <4> QED BY <1>2, <2>1, <3>2, <4>1, NextToken
    <3>4. at \in Nat \ {0} /\ at <= Size(ChunksOf[sent[R]]) /\ at + 1 = 1 + at
      BY <2>3, <2>4, <3>1
    <3>5. MsgToken(sent[R], 1 + at).type = "data" BY <2>2, <2>3, <3>4, TokenTypes
    <3>6. fwd[1].type = "data" BY <3>3, <3>4, <3>5
    <3> QED BY <1>8, <2>3, <2>4, <3>6 DEF FwdNext
  <2>5. CASE ~ (recv_req.offset < Size(ChunksOf[sent[R]]))
    <3>1. RPos = StartOf(R) + MsgLen(sent[R]) BY <2>2, <2>3, <2>5
    <3>2. fwd[1].type = "header" BY <2>1, <2>2, <3>1, NextHeader
    <3> QED BY <1>8, <2>3, <2>5, <3>2 DEF FwdNext
  <2> QED BY <2>4, <2>5
<1>9. CASE stage["r"] \in RecvFirst
  <2>1. active_fds["r"] /\ FirstInv /\ IsFingerprinted(sent[R]) /\ ~ At("r", "RECV_MISSING_CONTENT")
    BY <1>1, <1>4, <1>9 DEF RecvInv, At, RecvFirst, RecvFpStages, RecvStages
  <2>2. R <= S /\ sent[R] \in Messages /\ RPos = StartOf(R) + RecvAt
    BY <1>3, <1>9, <2>1 DEF RecvFirst
  <2>3. /\ MsgLen(sent[R]) = 2 + Len(ChunksOf[sent[R]]) /\ Len(ChunksOf[sent[R]]) \in Nat
        /\ Len(recv_req.packaged) \in Nat
    <3>1. MsgLen(sent[R]) = 2 + Len(ChunksOf[sent[R]]) /\ Len(ChunksOf[sent[R]]) \in Nat
      BY <2>1, <2>2, MsgFacts
    <3>2. recv_req.packaged \in Seq(Fingerprints) BY <1>1 DEF TypeOK, RecvReqs
    <3>3. Len(recv_req.packaged) \in Nat BY <3>2
    <3> QED BY <3>1, <3>3
  <2>4. R \in Nat /\ R > 0 /\ R # S + 1 BY <1>2, <2>2
  <2>5. CASE stage["r"] = "RECV_FINGERPRINT_HEADER"
    <3>1. RPos = StartOf(R) + 1 BY <2>2, <2>5 DEF RecvAt
    <3>2. 1 \in Nat /\ 1 < MsgLen(sent[R]) /\ 1 + 1 = 2 BY <2>3
    <3>3. fwd[1] = MsgToken(sent[R], 1 + 1) BY <1>2, <2>1, <2>4, <3>1, <3>2, NextToken
    <3>4. fwd[1].type = "fingerprint_header" BY <2>1, <2>2, <3>2, <3>3, TokenFacts
    <3> QED BY <2>5, <3>4 DEF FwdNext
  <2>6. CASE stage["r"] = "RECV_PACKAGED_FINGERPRINTS"
    <3>1. PICK p \in Nat : Is(p, Len(recv_req.packaged)) /\ p < Len(ChunksOf[sent[R]])
      BY <2>1, <2>3, <2>6 DEF FirstInv, Is
    <3>2. RPos = StartOf(R) + (2 + p) BY <2>2, <2>6, <3>1 DEF RecvAt, Is
    <3>3. PICK at \in Nat : at = 2 + p OBVIOUS
    <3>4. RPos = StartOf(R) + at /\ at < MsgLen(sent[R]) BY <2>3, <3>1, <3>2, <3>3
    <3>5. fwd[1] = MsgToken(sent[R], at + 1) BY <1>2, <2>1, <2>4, <3>4, NextToken
    <3>6. PICK q \in Nat \ {0} : q = p + 1 OBVIOUS
    <3>7. at + 1 = 2 + q /\ q <= Len(ChunksOf[sent[R]]) BY <2>3, <3>1, <3>3, <3>6
    <3>8. MsgToken(sent[R], 2 + q).type = "fingerprint" BY <2>1, <2>2, <3>7, TokenTypes
    <3>9. fwd[1].type = "fingerprint" BY <3>5, <3>7, <3>8
    <3> QED BY <2>6, <3>9 DEF FwdNext
  <2> QED BY <1>9, <2>5, <2>6 DEF RecvFirst
<1>10. CASE stage["r"] \in RecvKnown \ Late
  <2>1. active_fds["r"] /\ ~ At("r", "RECV_MISSING_CONTENT")
    BY <1>4, <1>10 DEF At, Late
  <2>2. R = S /\ stage["s"] \in {"RECV_MISSING_FINGERPRINT_HEADER", "RECV_MISSING_FINGERPRINTS"}
        /\ active_fds["s"]
    BY <1>10, <2>1, KnownWaits
  <2>3. RecvAt = MsgLen(sent[R])
    BY <1>10 DEF RecvAt, RecvKnown, RecvFpStages, RecvFirst, Late
  <2>4. RPos = StartOf(R) + MsgLen(sent[R]) BY <2>1, <2>3 DEF RPos
  <2>5. SPos = StartOf(R) + MsgLen(sent[R]) BY <2>2 DEF SPos, SendAt
  <2>6. RPos = SPos BY <2>4, <2>5
  <2>7. Len(fwd) = ContentAhead + (SPos - RPos) /\ ContentAhead = 0 /\ RPos \in Nat /\ SPos \in Nat
    BY <2>1, FwdFacts
  <2>8. Len(fwd) = 0 BY <2>6, <2>7
  <2> QED BY <1>2, <2>8
<1> QED BY <1>1, <1>4, <1>5, <1>6, <1>7, <1>8, <1>9, <1>10
    DEF TypeOK, RecvStages, RecvFirst, RecvKnown, RecvFpStages, Late, At


(* What the sender meets first is of the type that its stage expects.      *)
LEMMA RevInStep ==
  ASSUME TransferInv, rev # <<>>
  PROVE  rev[1].type \in RevNext
<1>1. RevInv /\ TypeOK BY DEF TransferInv
<1>2. CASE stage["s"] = "RECV_MISSING_FINGERPRINT_HEADER"
  <2>1. rev[1].type = "missing_header"
    <3>1. \/ rev[1] = [type |-> "missing_header", val |-> recv_req.num_missing]
          \/ rev[1] = [type |-> "missing_header", val |-> 0]
      BY <1>1, <1>2 DEF RevInv
    <3> QED BY <3>1
  <2> QED BY <1>2, <2>1 DEF RevNext
<1>3. CASE stage["s"] = "RECV_MISSING_FINGERPRINTS"
  <2>1. IsSeq(rev) /\ Len(rev) \in Nat /\ Len(rev) # 0
    <3>1. IsSeq(rev) BY <1>1 DEF TypeOK, IsSocket, IsSeq
    <3> QED BY <3>1, LenZero DEF IsSeq
  <2>2. 1 \in 1 .. Len(rev) BY <2>1
  <2>3. \A j \in 1 .. Len(rev) :
          rev[j] = [type |-> "missing", val |-> recv_req.missing[Len(send_req.missing) + j]]
    BY <1>1, <1>3 DEF RevInv
  <2>4. rev[1] = [type |-> "missing", val |-> recv_req.missing[Len(send_req.missing) + 1]]
    BY <2>2, <2>3
  <2>5. rev[1].type = "missing" BY <2>4
  <2> QED BY <1>3, <2>5 DEF RevNext
<1>4. CASE stage["s"] \notin {"RECV_MISSING_FINGERPRINT_HEADER", "RECV_MISSING_FINGERPRINTS"}
  <2>1. rev = <<>> BY <1>1, <1>4 DEF RevInv
  <2> QED BY <2>1
<1> QED BY <1>2, <1>3, <1>4

-----------------------------------------------------------------------------
(* What the invariant says of the checked properties.                      *)

(* The invariant implies that the ends are in step.                        *)
LEMMA InvInStep == ConnectionInv => InStep
<1>1. Head(fwd) = fwd[1] /\ Head(rev) = rev[1] OBVIOUS
<1> QED BY <1>1, FwdInStep, RevInStep DEF InStep, ConnectionInv

(* The invariant implies that the lists agree.                             *)
LEMMA InvMissingListsAgree == ConnectionInv => MissingListsAgree
<1> SUFFICES ASSUME TransferInv, stage["s"] = "SEND_MISSING_CONTENT"
    PROVE  /\ send_req.missing = recv_req.missing
           /\ \A j, k \in 1 .. Len(send_req.missing) :
                j < k => send_req.missing[j] < send_req.missing[k]
  BY DEF MissingListsAgree, ConnectionInv
<1>1. SendContentInv BY DEF TransferInv, SendInv
<1>2. send_req.missing = recv_req.missing /\ At("r", "RECV_MISSING_CONTENT")
  BY <1>1 DEF SendContentInv
<1>3. stage["r"] \in RecvKnown BY <1>2 DEF At, RecvKnown, RecvFpStages, RecvFirst, RecvStages
<1>4. ListInv BY <1>3 DEF TransferInv, RecvInv
<1>5. \A j, k \in 1 .. Len(recv_req.missing) :
        j < k => recv_req.missing[j] < recv_req.missing[k]
  BY <1>4 DEF ListInv
<1> QED BY <1>2, <1>5

(* At every moment the lengths, lists, indexes and stages of a connection  *)
(* stay in their ranges.                                                   *)
THEOREM TypeCorrect == Spec => []TypeOK
<1>1. ConnectionInv => TypeOK BY DEF ConnectionInv
<1> QED BY <1>1, TransferInvariant, PTL

(* What process_send and process_recv find next in the socket is what      *)
(* their stage takes it for, although nothing on the wire says what it is, *)
(* as long as the receiving end has not come to a header that was cut:     *)
(* after that the claim is false, as the resumed header functions show.    *)
THEOREM EndsInStep == Spec => []InStep
<1> QED BY InvInStep, TransferInvariant, PTL

(* As long as the receiving end has not come to a header that was cut,     *)
(* what test reports as received is what isend was given, in order and     *)
(* once; it is also byte for byte the same, but for messages with a chunk  *)
(* that process_populate_from_net_cache looked up while it was inserted.   *)
THEOREM DeliveredIntact == Spec => []InOrderIntact
<1>1. ConnectionInv => InOrderIntact BY DEF ConnectionInv, TransferInv, InOrderIntact
<1> QED BY <1>1, TransferInvariant, PTL

(* process_insert_outbound_fingerprints and its inbound counterpart only   *)
(* ever insert a chunk's own content under its fingerprint, as long as the *)
(* receiving end has not come to a header that was cut; this includes      *)
(* messages with a torn chunk.                                             *)
THEOREM CachesClean == Spec => []CacheNotPoisoned
<1>1. ConnectionInv => CacheNotPoisoned BY DEF ConnectionInv, TransferInv, CacheNotPoisoned
<1> QED BY <1>1, TransferInvariant, PTL

(* When the sender comes to send_missing_content, its list of missing      *)
(* chunks is the receiver's, and names no chunk twice, as long as the      *)
(* receiving end has not come to a header that was cut.                    *)
THEOREM ListsAgree == Spec => []MissingListsAgree
<1> QED BY InvMissingListsAgree, TransferInvariant, PTL

(* Between two processes of one host nothing is missing, unless the        *)
(* sender's inserts have stopped for good or the receiving end has come to *)
(* a header that was cut.                                                  *)
THEOREM LocalComplete == Spec => []LocalNeverMissing
<1>1. ConnectionInv => LocalNeverMissing
  BY DEF ConnectionInv, TransferInv, AnnouncedInv, LocalNeverMissing
<1> QED BY <1>1, TransferInvariant, PTL

-----------------------------------------------------------------------------
(* The connection implements the channel: apart from isend, the test that  *)
(* completes a receive, a torn chunk and the receiver's cut header, every  *)
(* step is a stutter of the channel.                                       *)

(* Other connections are not seen.                                         *)
LEMMA OthersUnseen == OthersStep => Unseen
BY DEF OthersStep, LockByOthers, UnlockByOthers, InsertByOthers, SkipByOthers, Unseen

(* test hands over a receive that is complete: the next message, whole. *)
LEMMA TestRecvDelivers ==
  ASSUME TransferInv, TestRecv, ~ astray["r"]
  PROVE  Channel!Deliver
<1>1. PICK w : Is(w, [size |-> recv_req.header.content_size,
                      data |-> [p \in 1 .. recv_req.header.content_size |->
                                  recv_req.app_buffer[p]]])
  BY DEF Is
<1>2. /\ delivered' = Append(delivered, w) /\ At("r", "RECV_COMPLETE")
      /\ sent' = sent /\ torn' = torn /\ astray' = astray
  BY <1>1 DEF TestRecv, cacheVars, Is
<1>3. /\ R <= S /\ sent[R] \in Messages
      /\ R \in torn => w \in Damaged[sent[R]]
      /\ R \notin torn => w = Payload(sent[R])
  BY <1>1, <1>2, TestRecvPayload
<1>4. Payload(sent[R]) = [m \in Messages |-> Payload(m)][sent[R]] BY <1>3
<1> QED BY <1>2, <1>3, <1>4 DEF Channel!Deliver, Channel!Pending, R, S

(* A torn chunk damages the message that the receiver is at.               *)
LEMMA TornDamages ==
  ASSUME TransferInv, PopulateTorn, ~ astray["r"]
  PROVE  Channel!Damage
<1>1. RecvInv /\ At("r", "POPULATE_FROM_NET_CACHE") BY DEF TransferInv, PopulateTorn
<1>2. R <= S BY <1>1 DEF RecvInv, At
<1> QED BY <1>2 DEF PopulateTorn, Channel!Damage, Channel!Pending, R, S

(* A step by which an end goes astray breaks the channel, or is not seen   *)
(* yet.                                                                    *)
LEMMA CutBreaks ==
  ASSUME TypeOK, NEW e \in Ends, GoAstray(e), ~ astray["r"]
  PROVE  Channel!Break \/ UNCHANGED <<sent, delivered, torn, astray["r"]>>
<1>1. astray \in [Ends -> BOOLEAN] /\ "r" \in Ends BY DEF TypeOK, Ends
<1>2. /\ sent' = sent /\ delivered' = delivered /\ torn' = torn
      /\ astray' = [astray EXCEPT ![e] = TRUE]
  BY DEF GoAstray
<1>3. CASE e = "r"
  <2>1. astray'["r"] = TRUE BY <1>1, <1>2, <1>3
  <2> QED BY <1>2, <2>1 DEF Channel!Break
<1>4. CASE e # "r"
  <2>1. astray'["r"] = astray["r"] BY <1>1, <1>2, <1>4
  <2> QED BY <1>2, <2>1
<1> QED BY <1>3, <1>4

(* Every step is one of the channel, or leaves its variables as they are.  *)
LEMMA StepMaps ==
  ASSUME ConnectionInv, [Next]_vars
  PROVE  [Channel!Next]_<<sent, delivered, torn, astray["r"]>>
<1> DEFINE Maps == Channel!Next \/ UNCHANGED <<sent, delivered, torn, astray["r"]>>
<1> SUFFICES Maps OBVIOUS
<1>1. Unseen => Maps BY DEF Unseen
<1>2. CASE astray["r"]
  <2>1. AstrayStep \/ UNCHANGED vars BY <1>2 DEF Next, SendStep, RecvStep
  <2>2. astray'["r"] BY <1>2, <2>1 DEF AstrayStep, vars, cacheVars
  <2> QED BY <1>2, <2>2 DEF Channel!Next, Channel!Broken
<1>3. CASE ~ astray["r"]
  <2>1. TransferInv /\ TypeOK /\ "s" \in Ends /\ "r" \in Ends
    BY <1>3 DEF ConnectionInv, Ends
  <2> HIDE DEF Maps
  <2>2. ASSUME NEW m \in Messages, ISend(m) PROVE Maps
    <3>1. Channel!Send(m) BY <1>3, <2>2 DEF ISend, Channel!Send, cacheVars
    <3> QED BY <3>1 DEF Channel!Next, Maps
  <2>3. ASSUME NEW e \in Ends, GoAstray(e) PROVE Maps
    BY <1>3, <2>1, <2>3, CutBreaks DEF Channel!Next, Maps
  <2>4. CASE SendStep
    BY <1>1, <2>1, <2>3, <2>4, SendUnseen DEF SendStep, SendHeaderCut, SendFingerprintHeaderCut
  <2>5. CASE RecvStep
    <3>1. TestRecv => Maps BY <1>3, <2>1, TestRecvDelivers DEF Channel!Next, Maps
    <3>2. PopulateTorn => Maps BY <1>3, <2>1, TornDamages DEF Channel!Next, Maps
    <3> QED BY <1>1, <2>1, <2>3, <2>5, <3>1, <3>2, RecvUnseen
            DEF RecvStep, RecvHeaderCut, RecvFingerprintHeaderCut
  <2>6. OthersStep => Maps BY <1>1, OthersUnseen
  <2>7. UNCHANGED vars => Maps BY <1>1 DEF vars, cacheVars, Unseen
  <2> QED BY <1>3, <2>2, <2>4, <2>5, <2>6, <2>7 DEF Next, AstrayStep
<1> QED BY <1>2, <1>3

(* What isend, irecv and test show the two applications is a message       *)
(* channel that may damage a message and may break: whatever the socket    *)
(* and the other connections do, every message comes out in order, once    *)
(* and, unless a chunk of it was torn, whole, until the receiving end      *)
(* comes to a header that was cut; from then on nothing is promised.       *)
THEOREM ConnectionIsChannel == Spec => Channel!Safety
<1>1. Init => Channel!Init
  <2>1. ASSUME Init PROVE astray["r"] = FALSE BY <2>1, Zenon DEF Init, Ends
  <2> QED BY <2>1 DEF Init, Channel!Init
<1>2. ConnectionInv /\ [Next]_vars => [Channel!Next]_(Channel!chanVars)
  BY StepMaps DEF Channel!chanVars
<1> QED BY <1>1, <1>2, TransferInvariant, PTL DEF Spec, Channel!Safety
=============================================================================
