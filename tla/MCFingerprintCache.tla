------------------------ MODULE MCFingerprintCache ------------------------
(***************************************************************************)
(* Small instances of FingerprintCache: the hashes collide, in the middle  *)
(* of the table or near its end, so that probes are long or go around.     *)
(***************************************************************************)
EXTENDS TableRemoval, TLC

CONSTANTS f1, f2, f3, f4, t1, t2

(* One proxy thread in each of two processes. *)
MCTwoProcs == [t \in {t1, t2} |-> IF t = t1 THEN "p1" ELSE "p2"]

(* Two threads of one process, which share its to_skip_insert_cache. *)
MCOneProc == [t \in {t1, t2} |-> "p1"]

(* All hash to one slot in the middle of the table. *)
MCCollide == [f \in {f1, f2, f3} |-> 1]

(* All hash to the last slot: probes go around the end of the table. *)
MCWrap == [f \in {f1, f2, f3} |-> TableSize - 1]

(* Two hash to the slot before the last, one to the last: probes of        *)
(* different keys overlap, and some of them go around.                     *)
MCNearEnd == [f \in {f1, f2, f3, f4} |-> IF f = f3 THEN TableSize - 1 ELSE TableSize - 2]

MCMixedSizes == [f \in {f1, f2, f3} |-> IF f = f1 THEN 1 ELSE IF f = f2 THEN 2 ELSE 3]
MCOneOrTwo == [f \in {f1, f2, f3, f4} |-> IF f = f2 THEN 2 ELSE 1]

(* With MCNearEnd and MCOneOrTwo, f1 and f4 have one hash and one size. *)
MCSymmetry == Permutations({f1, f4})

=============================================================================
