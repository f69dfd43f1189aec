------------------------------ MODULE SumProofs ------------------------------
(***************************************************************************)
(* What SumTo computes.  The induction that a recursive function needs is  *)
(* done with least counterexamples: the set of the numbers at which a fact *)
(* fails is an ordinary set, and if it is not empty it has a least member. *)
(***************************************************************************)
EXTENDS Sums, WellFoundedInduction, TLAPS

(* Every set of naturals that is not empty has a least element. *)
LEMMA LeastNumber ==
  ASSUME NEW T \in SUBSET Nat, T # {}
  PROVE  \E n \in T : \A m \in T : n <= m
<1>1. PICK n \in T : \A m \in T : ~ (<<m, n>> \in OpToRel(<, Nat))
  BY NatLessThanWellFounded, WFMin
<1>2. \A m \in T : ~ (m < n) BY <1>1 DEF OpToRel
<1> QED BY <1>2

(* s is the function that SumTo defines, on 0 .. n. *)
IsSum(s, g, n) == s = [k \in 0 .. n |-> IF k = 0 THEN 0 ELSE s[k - 1] + g[k]]

(* There is such a function, for every n. *)
LEMMA SumExists ==
  ASSUME NEW g, NEW n \in Nat PROVE \E s : IsSum(s, g, n)
<1> DEFINE T == {m \in Nat : ~ \E s : IsSum(s, g, m)}
<1>1. SUFFICES ASSUME T # {} PROVE FALSE OBVIOUS
<1>2. PICK m \in T : \A k \in T : m <= k BY <1>1, LeastNumber
<1>3. m # 0
  <2>1. IsSum([k \in 0 .. 0 |-> 0], g, 0) BY DEF IsSum
  <2> QED BY <2>1
<1>4. m - 1 \in Nat /\ m - 1 \notin T BY <1>2, <1>3
<1>5. PICK s : IsSum(s, g, m - 1) BY <1>4
<1> DEFINE t == [k \in 0 .. m |-> IF k = m THEN s[m - 1] + g[m] ELSE s[k]]
<1>6. IsSum(t, g, m)
  <2> SUFFICES ASSUME NEW k \in 0 .. m
               PROVE  t[k] = IF k = 0 THEN 0 ELSE t[k - 1] + g[k]
    BY DEF IsSum
  <2>1. CASE k = m BY <2>1, <1>3, <1>4
  <2>2. CASE k # m /\ k # 0
    <3>1. k \in 0 .. m - 1 /\ k - 1 \in 0 .. m - 1 BY <2>2, <1>4
    <3>2. s[k] = s[k - 1] + g[k] BY <3>1, <2>2, <1>5 DEF IsSum
    <3> QED BY <2>2, <3>1, <3>2
  <2>3. CASE k # m /\ k = 0
    <3>1. s[0] = 0 BY <1>4, <1>5 DEF IsSum
    <3> QED BY <2>3, <3>1
  <2> QED BY <2>1, <2>2, <2>3
<1> QED BY <1>6

(* Two of them have one value where what they sum up is the same. *)
LEMMA SumUnique ==
  ASSUME NEW g, NEW h, NEW s, NEW t, NEW n \in Nat, NEW m \in Nat,
         IsSum(s, g, n), IsSum(t, h, m),
         NEW k \in Nat, k <= n, k <= m, \A j \in 1 .. k : g[j] = h[j]
  PROVE  s[k] = t[k]
<1> DEFINE T == {j \in Nat : j <= k /\ s[j] # t[j]}
<1>1. SUFFICES ASSUME T # {} PROVE FALSE OBVIOUS
<1>2. PICK j \in T : \A x \in T : j <= x BY <1>1, LeastNumber
<1>3. j # 0 BY DEF IsSum
<1>4. j - 1 \in Nat /\ j - 1 \notin T BY <1>2, <1>3
<1>5. s[j] = s[j - 1] + g[j] /\ t[j] = t[j - 1] + h[j] BY <1>3 DEF IsSum
<1> QED BY <1>3, <1>4, <1>5

(* SumTo is the last value of one of them. *)
LEMMA SumIs ==
  ASSUME NEW g, NEW n \in Nat
  PROVE  \E s : IsSum(s, g, n) /\ SumTo(g, n) = s[n]
<1> DEFINE s == CHOOSE x : IsSum(x, g, n)
<1>1. IsSum(s, g, n) BY SumExists
<1>2. SumTo(g, n) = s[n] BY DEF SumTo, IsSum
<1> QED BY <1>1, <1>2

(* The recursion that SumTo is written with. *)
LEMMA SumZero == ASSUME NEW g PROVE SumTo(g, 0) = 0
BY SumIs DEF IsSum

(* One more element.                                                       *)
LEMMA SumNext ==
  ASSUME NEW g, NEW n \in Nat PROVE SumTo(g, n + 1) = SumTo(g, n) + g[n + 1]
<1>1. PICK s : IsSum(s, g, n) /\ SumTo(g, n) = s[n] BY SumIs
<1>2. PICK t : IsSum(t, g, n + 1) /\ SumTo(g, n + 1) = t[n + 1] BY SumIs
<1>3. t[n] = s[n] BY <1>1, <1>2, SumUnique
<1>4. t[n + 1] = t[n] + g[n + 1] BY <1>2 DEF IsSum
<1> QED BY <1>1, <1>2, <1>3, <1>4

(* The sum depends only on what is summed up. *)
LEMMA SumAgree ==
  ASSUME NEW g, NEW h, NEW n \in Nat, \A j \in 1 .. n : g[j] = h[j]
  PROVE  SumTo(g, n) = SumTo(h, n)
<1> DEFINE T == {k \in Nat : k <= n /\ SumTo(g, k) # SumTo(h, k)}
<1>1. SUFFICES ASSUME T # {} PROVE FALSE BY n <= n
<1>2. PICK k \in T : \A x \in T : k <= x BY <1>1, LeastNumber
<1>3. k # 0 BY SumZero
<1>4. k - 1 \in Nat /\ k - 1 \notin T BY <1>2, <1>3
<1>5. SumTo(g, (k - 1) + 1) = SumTo(g, k - 1) + g[(k - 1) + 1] BY <1>4, SumNext
<1>6. SumTo(h, (k - 1) + 1) = SumTo(h, k - 1) + h[(k - 1) + 1] BY <1>4, SumNext
<1> QED BY <1>3, <1>4, <1>5, <1>6

(* The sum of naturals is a natural. *)
LEMMA SumType ==
  ASSUME NEW g, NEW n \in Nat, \A k \in 1 .. n : g[k] \in Nat,
         NEW m \in 0 .. n
  PROVE  SumTo(g, m) \in Nat
<1> DEFINE T == {k \in Nat : k <= n /\ SumTo(g, k) \notin Nat}
<1>1. SUFFICES ASSUME T # {} PROVE FALSE OBVIOUS
<1>2. PICK k \in T : \A x \in T : k <= x BY <1>1, LeastNumber
<1>3. k # 0 BY SumZero
<1>4. k - 1 \in Nat /\ k - 1 \notin T BY <1>2, <1>3
<1>5. SumTo(g, (k - 1) + 1) = SumTo(g, k - 1) + g[(k - 1) + 1] BY <1>4, SumNext
<1> QED BY <1>3, <1>4, <1>5

(* Sums of more are not smaller. *)
LEMMA SumMonotone ==
  ASSUME NEW g, NEW n \in Nat, \A k \in 1 .. n : g[k] \in Nat,
         NEW j \in 0 .. n, NEW m \in j .. n
  PROVE  SumTo(g, j) <= SumTo(g, m)
<1> DEFINE T == {k \in Nat : j <= k /\ k <= n /\ ~ (SumTo(g, j) <= SumTo(g, k))}
<1>1. SUFFICES ASSUME T # {} PROVE FALSE OBVIOUS
<1>2. PICK k \in T : \A x \in T : k <= x BY <1>1, LeastNumber
<1>3. SumTo(g, j) \in Nat /\ SumTo(g, k) \in Nat BY SumType
<1>4. k # j BY <1>3
<1>5. k - 1 \in j .. n /\ k - 1 \notin T BY <1>2, <1>4
<1>6. SumTo(g, (k - 1) + 1) = SumTo(g, k - 1) + g[(k - 1) + 1] BY <1>5, SumNext
<1>7. SumTo(g, k - 1) \in Nat BY <1>5, SumType
<1> QED BY <1>3, <1>4, <1>5, <1>6, <1>7

(* A number up to the sum of the first n lies in one of them. *)
LEMMA SumWhere ==
  ASSUME NEW g, NEW n \in Nat, \A k \in 1 .. n : g[k] \in Nat,
         NEW p \in 1 .. SumTo(g, n)
  PROVE  \E j \in 1 .. n : \E q \in 1 .. g[j] : p = SumTo(g, j - 1) + q
<1> DEFINE T == {k \in Nat : k <= n /\ p <= SumTo(g, k)}
<1>1. SumTo(g, n) \in Nat BY SumType
<1>2. n \in T BY <1>1
<1>3. PICK k \in T : \A x \in T : k <= x BY <1>2, LeastNumber
<1>4. k # 0 BY <1>1, SumZero
<1>5. k - 1 \in 0 .. n /\ k - 1 \notin T BY <1>3, <1>4
<1>6. SumTo(g, (k - 1) + 1) = SumTo(g, k - 1) + g[(k - 1) + 1] BY <1>5, SumNext
<1>7. SumTo(g, k - 1) \in Nat BY <1>5, SumType
<1>8. p - SumTo(g, k - 1) \in 1 .. g[k] BY <1>1, <1>3, <1>4, <1>5, <1>6, <1>7
<1> QED BY <1>1, <1>4, <1>5, <1>7, <1>8

-----------------------------------------------------------------------------
(* Powers.                                                                 *)

(* p is the function that Power defines, on 0 .. n. *)
IsPower(p, b, n) == p = [k \in 0 .. n |-> IF k = 0 THEN 1 ELSE p[k - 1] * b]

(* There is such a function, for every n. *)
LEMMA PowerExists ==
  ASSUME NEW b, NEW n \in Nat PROVE \E p : IsPower(p, b, n)
<1> DEFINE T == {m \in Nat : ~ \E p : IsPower(p, b, m)}
<1>1. SUFFICES ASSUME T # {} PROVE FALSE OBVIOUS
<1>2. PICK m \in T : \A k \in T : m <= k BY <1>1, LeastNumber
<1>3. m # 0
  <2>1. IsPower([k \in 0 .. 0 |-> 1], b, 0) BY DEF IsPower
  <2> QED BY <2>1
<1>4. m - 1 \in Nat /\ m - 1 \notin T BY <1>2, <1>3
<1>5. PICK p : IsPower(p, b, m - 1) BY <1>4
<1> DEFINE t == [k \in 0 .. m |-> IF k = m THEN p[m - 1] * b ELSE p[k]]
<1>6. IsPower(t, b, m)
  <2> SUFFICES ASSUME NEW k \in 0 .. m
               PROVE  t[k] = IF k = 0 THEN 1 ELSE t[k - 1] * b
    BY DEF IsPower
  <2>1. CASE k = m BY <2>1, <1>3, <1>4
  <2>2. CASE k # m /\ k # 0
    <3>1. k \in 0 .. m - 1 /\ k - 1 \in 0 .. m - 1 BY <2>2, <1>4
    <3>2. p[k] = p[k - 1] * b BY <3>1, <2>2, <1>5 DEF IsPower
    <3> QED BY <2>2, <3>1, <3>2
  <2>3. CASE k # m /\ k = 0
    <3>1. p[0] = 1 BY <1>4, <1>5 DEF IsPower
    <3> QED BY <2>3, <3>1
  <2> QED BY <2>1, <2>2, <2>3
<1> QED BY <1>6

(* Two of them agree where both are defined. *)
LEMMA PowerUnique ==
  ASSUME NEW b, NEW p, NEW q, NEW n \in Nat, NEW m \in Nat,
         IsPower(p, b, n), IsPower(q, b, m),
         NEW k \in Nat, k <= n, k <= m
  PROVE  p[k] = q[k]
<1> DEFINE T == {j \in Nat : j <= k /\ p[j] # q[j]}
<1>1. SUFFICES ASSUME T # {} PROVE FALSE OBVIOUS
<1>2. PICK j \in T : \A x \in T : j <= x BY <1>1, LeastNumber
<1>3. j # 0 BY DEF IsPower
<1>4. j - 1 \in Nat /\ j - 1 \notin T BY <1>2, <1>3
<1>5. p[j] = p[j - 1] * b /\ q[j] = q[j - 1] * b BY <1>3 DEF IsPower
<1> QED BY <1>3, <1>4, <1>5

(* Power is the last value of one of them. *)
LEMMA PowerIs ==
  ASSUME NEW b, NEW n \in Nat
  PROVE  \E p : IsPower(p, b, n) /\ Power(b, n) = p[n]
<1> DEFINE p == CHOOSE x : IsPower(x, b, n)
<1>1. IsPower(p, b, n) BY PowerExists
<1>2. Power(b, n) = p[n] BY DEF Power, IsPower
<1> QED BY <1>1, <1>2

(* The recursion that Power is written with: no factor, ... *)
LEMMA PowerZero == ASSUME NEW b PROVE Power(b, 0) = 1
BY PowerIs DEF IsPower

(* ... and one more. *)
LEMMA PowerNext ==
  ASSUME NEW b, NEW n \in Nat PROVE Power(b, n + 1) = Power(b, n) * b
<1>1. PICK p : IsPower(p, b, n) /\ Power(b, n) = p[n] BY PowerIs
<1>2. PICK q : IsPower(q, b, n + 1) /\ Power(b, n + 1) = q[n + 1] BY PowerIs
<1>3. q[n] = p[n] BY <1>1, <1>2, PowerUnique
<1>4. q[n + 1] = q[n] * b BY <1>2 DEF IsPower
<1> QED BY <1>1, <1>2, <1>3, <1>4

(* Powers of naturals are naturals. *)
LEMMA PowerType ==
  ASSUME NEW b \in Nat, NEW n \in Nat
  PROVE  Power(b, n) \in Nat /\ (b > 0 => Power(b, n) > 0)
<1> DEFINE T == {k \in Nat : ~ (Power(b, k) \in Nat /\ (b > 0 => Power(b, k) > 0))}
<1>1. SUFFICES ASSUME T # {} PROVE FALSE OBVIOUS
<1>2. PICK k \in T : \A x \in T : k <= x BY <1>1, LeastNumber
<1>3. k # 0 BY PowerZero
<1>4. k - 1 \in Nat /\ k - 1 \notin T BY <1>2, <1>3
<1>5. Power(b, (k - 1) + 1) = Power(b, k - 1) * b BY <1>4, PowerNext
<1>6. ASSUME NEW x \in Nat, b > 0 => x > 0
      PROVE  x * b \in Nat /\ (b > 0 => x * b > 0)
  BY <1>6
<1> QED BY <1>3, <1>4, <1>5, <1>6

(* A smaller power divides a larger one. *)
LEMMA PowerDivides ==
  ASSUME NEW b \in Nat, NEW i \in Nat, NEW d \in Nat
  PROVE  \E c \in Nat : Power(b, i + d) = c * Power(b, i)
<1> DEFINE T == {k \in Nat : ~ \E c \in Nat : Power(b, i + k) = c * Power(b, i)}
<1>1. SUFFICES ASSUME T # {} PROVE FALSE OBVIOUS
<1>2. PICK k \in T : \A x \in T : k <= x BY <1>1, LeastNumber
<1> DEFINE m == Power(b, i)
<1>3. m \in Nat BY PowerType
<1>4. k # 0
  <2>1. Power(b, i + 0) = 1 * m BY <1>3
  <2> QED BY <2>1
<1>5. k - 1 \in Nat /\ k - 1 \notin T BY <1>2, <1>4
<1>6. PICK c \in Nat : Power(b, i + (k - 1)) = c * m BY <1>5
<1>7. Power(b, (i + (k - 1)) + 1) = Power(b, i + (k - 1)) * b BY <1>5, PowerNext
<1>8. (i + (k - 1)) + 1 = i + k BY <1>5
<1> HIDE DEF m
<1>9. (c * m) * b = (c * b) * m /\ c * b \in Nat BY <1>3
<1>10. Power(b, i + k) = (c * b) * m BY <1>6, <1>7, <1>8, <1>9
<1> QED BY <1>2, <1>9, <1>10 DEF m

-----------------------------------------------------------------------------
(* Numbers that have the same remainder.                                   *)

(* a and b differ by a multiple of m. *)
Cong(a, b, m) == \E k \in Int : a = b + (k * m)

(* A number differs from its remainder by a multiple. *)
LEMMA CongSelf ==
  ASSUME NEW a \in Int, NEW m \in Nat \ {0}
  PROVE  (a % m) \in 0 .. m - 1 /\ Cong(a, a % m, m)
<1>1. (a % m) \in 0 .. m - 1 OBVIOUS
<1>2. (a \div m) \in Int /\ a = (a % m) + ((a \div m) * m) BY SMT
<1> QED BY <1>1, <1>2 DEF Cong

(* Congruent numbers are so in both directions, ... *)
LEMMA CongSymmetric ==
  ASSUME NEW a \in Int, NEW b \in Int, NEW m \in Nat, Cong(a, b, m)
  PROVE  Cong(b, a, m)
<1>1. PICK k \in Int : a = b + (k * m) BY DEF Cong
<1>2. b = a + ((-k) * m) /\ -k \in Int BY <1>1
<1> QED BY <1>2 DEF Cong

(* ... through a third one, ... *)
LEMMA CongTransitive ==
  ASSUME NEW a \in Int, NEW b \in Int, NEW c \in Int, NEW m \in Nat,
         Cong(a, b, m), Cong(b, c, m)
  PROVE  Cong(a, c, m)
<1>1. PICK k \in Int : a = b + (k * m) BY DEF Cong
<1>2. PICK l \in Int : b = c + (l * m) BY DEF Cong
<1>3. a = c + ((l + k) * m) /\ l + k \in Int BY <1>1, <1>2
<1> QED BY <1>3 DEF Cong

(* ... when others that are congruent are added, ... *)
LEMMA CongSum ==
  ASSUME NEW a \in Int, NEW b \in Int, NEW c \in Int, NEW d \in Int, NEW m \in Nat,
         Cong(a, b, m), Cong(c, d, m)
  PROVE  Cong(a + c, b + d, m)
<1>1. PICK k \in Int : a = b + (k * m) BY DEF Cong
<1>2. PICK l \in Int : c = d + (l * m) BY DEF Cong
<1>3. a + c = (b + d) + ((k + l) * m) /\ k + l \in Int BY <1>1, <1>2
<1> QED BY <1>3 DEF Cong

(* ... and when both are multiplied. *)
LEMMA CongTimes ==
  ASSUME NEW a \in Int, NEW b \in Int, NEW x \in Int, NEW m \in Nat, Cong(a, b, m)
  PROVE  Cong(a * x, b * x, m)
<1>1. PICK k \in Int : a = b + (k * m) BY DEF Cong
<1>2. a * x = (b * x) + ((k * x) * m) /\ k * x \in Int
  <2>1. k * m \in Int OBVIOUS
  <2>2. a * x = (b * x) + ((k * m) * x) BY <1>1, <2>1
  <2>3. (k * m) * x = (k * x) * m OBVIOUS
  <2> QED BY <2>2, <2>3
<1> QED BY <1>2 DEF Cong

(* What is congruent for a multiple is so for its factor. *)
LEMMA CongFactor ==
  ASSUME NEW a \in Int, NEW b \in Int, NEW c \in Int, NEW m \in Nat, Cong(a, b, c * m)
  PROVE  Cong(a, b, m)
<1>1. PICK k \in Int : a = b + (k * (c * m)) BY DEF Cong
<1>2. k * (c * m) = (k * c) * m /\ k * c \in Int OBVIOUS
<1> QED BY <1>1, <1>2 DEF Cong

(* There is one remainder only. *)
LEMMA RemainderUnique ==
  ASSUME NEW a \in Int, NEW q \in Int, NEW m \in Nat \ {0}, NEW r \in 0 .. m - 1,
         a = (q * m) + r
  PROVE  a % m = r
BY SMT

(* Congruent numbers have the same remainder, ... *)
LEMMA CongRemainder ==
  ASSUME NEW a \in Int, NEW b \in Int, NEW m \in Nat \ {0}, Cong(a, b, m)
  PROVE  a % m = b % m
<1> DEFINE r == b % m
<1>1. r \in 0 .. m - 1 /\ Cong(b, r, m) BY CongSelf
<1>2. Cong(a, r, m) BY <1>1, CongTransitive
<1> HIDE DEF r
<1>3. PICK k \in Int : a = r + (k * m) BY <1>2 DEF Cong
<1>4. a = (k * m) + r BY <1>1, <1>3
<1>5. a % m = r BY <1>1, <1>4, RemainderUnique
<1> QED BY <1>5 DEF r

(* ... and the other way round. *)
LEMMA RemainderCong ==
  ASSUME NEW a \in Int, NEW b \in Int, NEW m \in Nat \ {0}, a % m = b % m
  PROVE  Cong(a, b, m)
<1>1. (b % m) \in 0 .. m - 1 /\ Cong(b, b % m, m) BY CongSelf
<1>2. Cong(a, a % m, m) BY CongSelf
<1>3. (b % m) \in Int /\ Cong(a, b % m, m) BY <1>1, <1>2
<1>4. Cong(b % m, b, m) BY <1>1, <1>3, CongSymmetric
<1> QED BY <1>3, <1>4, CongTransitive

(* A sum of remainders is congruent to the sum.                            *)
LEMMA CongSumTo ==
  ASSUME NEW m \in Nat \ {0}, NEW n \in Nat, NEW g, \A k \in 1 .. n : g[k] \in Nat,
         NEW h, \A k \in 1 .. n : h[k] = g[k] % m
  PROVE  Cong(SumTo(h, n), SumTo(g, n), m)
<1> DEFINE T == {k \in Nat : k <= n /\ ~ Cong(SumTo(h, k), SumTo(g, k), m)}
<1>1. SUFFICES ASSUME T # {} PROVE FALSE OBVIOUS
<1>2. PICK k \in T : \A x \in T : k <= x BY <1>1, LeastNumber
<1>3. k # 0
  <2>1. SumTo(h, 0) = 0 /\ SumTo(g, 0) = 0 BY SumZero
  <2>2. Cong(0, 0, m)
    <3>1. 0 = 0 + (0 * m) OBVIOUS
    <3> QED BY <3>1 DEF Cong
  <2> QED BY <2>1, <2>2
<1>4. k - 1 \in 0 .. n /\ k \in 1 .. n /\ k - 1 \notin T BY <1>2, <1>3
<1>5. \A j \in 1 .. n : h[j] \in Nat
  <2> SUFFICES ASSUME NEW j \in 1 .. n PROVE h[j] \in Nat OBVIOUS
  <2>1. g[j] \in Int /\ h[j] = g[j] % m OBVIOUS
  <2>2. (g[j] % m) \in 0 .. m - 1 BY <2>1, CongSelf
  <2> QED BY <2>1, <2>2
<1>6. SumTo(h, k - 1) \in Nat /\ SumTo(g, k - 1) \in Nat BY <1>4, <1>5, SumType
<1>7. SumTo(h, (k - 1) + 1) = SumTo(h, k - 1) + h[(k - 1) + 1] BY <1>4, SumNext
<1>8. SumTo(g, (k - 1) + 1) = SumTo(g, k - 1) + g[(k - 1) + 1] BY <1>4, SumNext
<1>9. Cong(SumTo(h, k - 1), SumTo(g, k - 1), m) BY <1>4
<1>10. Cong(h[k], g[k], m)
  <2>1. g[k] \in Int /\ h[k] \in Int BY <1>4, <1>5
  <2>2. Cong(g[k], h[k], m) BY <1>4, <2>1, CongSelf
  <2> QED BY <2>1, <2>2, CongSymmetric
<1>11. Cong(SumTo(h, k - 1) + h[k], SumTo(g, k - 1) + g[k], m)
  <2>1. g[k] \in Int /\ h[k] \in Int BY <1>4, <1>5
  <2> QED BY <2>1, <1>6, <1>9, <1>10, CongSum
<1>12. (k - 1) + 1 = k BY <1>4
<1>13. Cong(SumTo(h, k), SumTo(g, k), m) BY <1>7, <1>8, <1>11, <1>12
<1> QED BY <1>2, <1>13

=============================================================================
