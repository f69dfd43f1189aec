-------------------------- MODULE FingerprintTable --------------------------
(***************************************************************************)
(* The open-addressing hash table of fingerprint_table.c: the arithmetic   *)
(* of a linear probe.  The bit vector is_empty_bit_vector is modelled as   *)
(* the set of slots whose bit is 1, a key as a model value (SHA-256 digest *)
(* without collisions), the hash of a key as a parameter.  Memory that was *)
(* never written is all zeroes: NoKey is the all-zero key.                 *)
(***************************************************************************)
EXTENDS Integers

CONSTANTS
  Fingerprints,   \* the SHA-256 digests that occur
  NoKey,          \* the all-zero key of a slot never written
  TableSize,      \* FINGERPRINT_TABLE_SIZE
  HashInd         \* fingerprint_hash_func_64 of the low 64 bits of a digest

ASSUME TableAssumption ==
  /\ NoKey \notin Fingerprints
  /\ TableSize \in Nat \ {0}
  /\ HashInd \in [Fingerprints -> 0 .. TableSize - 1]

Slots == 0 .. TableSize - 1

(* x % n for 0 <= x < 2 * n, the only case in which the code uses it. *)
Wrap(x, n) == IF x < n THEN x ELSE x - n

(* How far slot s lies behind slot start, going up and around the table. *)
ProbeDist(start, s) == IF start <= s THEN s - start ELSE (TableSize - start) + s

(* n is what get_next_ind_fingerprint_table returns: the first empty slot  *)
(* at or after start, going around, or TableSize if the table is full.     *)
IsNextInd(empty, start, n) ==
  IF empty = {}
    THEN n = TableSize
    ELSE /\ n \in empty
         /\ \A s \in empty : ProbeDist(start, n) <= ProbeDist(start, s)

(* Mutant: the probe stops one slot early. *)
ItemsToCheckShort(hash_ind, next_empty) ==
  IF hash_ind <= next_empty
    THEN next_empty - hash_ind - 1
    ELSE (TableSize - hash_ind) + next_empty

(* Mutant: the probe does not go around the end of the table. *)
ItemsToCheckNoWrap(hash_ind, next_empty) ==
  IF hash_ind <= next_empty
    THEN next_empty - hash_ind
    ELSE TableSize - hash_ind

(* items_to_check of find_fingerprint_table: when the next empty slot lies *)
(* before hash_ind, the count includes that empty slot too.                *)
ItemsToCheck(hash_ind, next_empty) ==
  IF hash_ind <= next_empty
    THEN next_empty - hash_ind
    ELSE (TableSize - hash_ind) + next_empty + 1

(* The slot that iteration i of the probe looks at. *)
ProbeSlot(hash_ind, i) == Wrap(hash_ind + i, TableSize)

(* The slots that find_fingerprint_table compares with the key, given the  *)
(* next empty slot it computed first.                                      *)
ProbedSlots(hash_ind, next_empty) ==
  {ProbeSlot(hash_ind, i) : i \in 0 .. ItemsToCheck(hash_ind, next_empty) - 1}

=============================================================================
