-------------------------------- MODULE Sums --------------------------------
(***************************************************************************)
(* Sums of the first elements of a sequence of numbers: sizes of chunks    *)
(* add up to offsets into a buffer, and a hash is a sum of bytes times     *)
(* powers.  (A power is written out because the provers do not know ^.)    *)
(***************************************************************************)
EXTENDS Integers

(* g[1] + ... + g[n] *)
SumTo(g, n) ==
  LET sum[k \in 0 .. n] == IF k = 0 THEN 0 ELSE sum[k - 1] + g[k]
  IN  sum[n]

(* b * ... * b, n times *)
Power(b, n) ==
  LET p[k \in 0 .. n] == IF k = 0 THEN 1 ELSE p[k - 1] * b
  IN  p[n]

=============================================================================
