---------------------------- MODULE TableRemoval ----------------------------
(***************************************************************************)
(* The sequential algorithms of fingerprint_table.c that FingerprintCache  *)
(* leaves out: the scan of is_empty_bit_vector word by word, which         *)
(* FingerprintTable describes by its result, and the removal of a key,     *)
(* which nothing calls yet.  Both are operators on a table, checked in     *)
(* every table that concurrent insertions produce.  An item of the table   *)
(* is the pair <<key, entry>>.                                             *)
(***************************************************************************)
EXTENDS FingerprintCache, FiniteSetsExt

CONSTANT WordBits   \* slots in one element of is_empty_bit_vector: 64

ASSUME WordAssumption == WordBits \in Nat \ {0}

-----------------------------------------------------------------------------
(* get_next_ind_fingerprint_table.                                         *)

(* MY_CEIL(FINGERPRINT_TABLE_SIZE, 64) *)
bit_vector_size == (TableSize + WordBits - 1) \div WordBits

(* The bits that are 1 in word v of the vector. *)
Word(empty, v) == {b \in 0 .. WordBits - 1 : v * WordBits + b \in empty}

(* search_vector after k words: the first one without the bits below       *)
(* start_ind, the others whole; the last is the first one again.           *)
SearchVector(empty, start_ind, k) ==
  LET w == Word(empty, ((start_ind \div WordBits) + k) % bit_vector_size) IN
  IF k = 0 THEN {b \in w : b >= start_ind % WordBits} ELSE w

(* Mutant: the loop ends before it comes back to the first word. *)
GetNextIndOnce(empty, start_ind) ==
  LET found == {k \in 0 .. bit_vector_size - 1 :
                  SearchVector(empty, start_ind, k) # {}}
  IN IF found = {}
       THEN TableSize
       ELSE LET k == Min(found) IN
            WordBits * (((start_ind \div WordBits) + k) % bit_vector_size)
              + Min(SearchVector(empty, start_ind, k))

(* The first word that is not 0, and its least significant bit.            *)
GetNextInd(empty, start_ind) ==
  LET found == {k \in 0 .. bit_vector_size : SearchVector(empty, start_ind, k) # {}}
  IN IF found = {}
       THEN TableSize
       ELSE LET k == Min(found) IN
            WordBits * (((start_ind \div WordBits) + k) % bit_vector_size)
              + Min(SearchVector(empty, start_ind, k))

-----------------------------------------------------------------------------
(* remvove_fingerprint_table.                                              *)

(* find_fingerprint_table on a table nobody is writing. *)
Find(items, empty, f) ==
  LET n == ItemsToCheck(HashInd[f], GetNextInd(empty, HashInd[f]))
      hits == {k \in 0 .. n - 1 : items[ProbeSlot(HashInd[f], k)][1] = f}
  IN IF hits = {} THEN TableSize ELSE ProbeSlot(HashInd[f], Min(hits))

(* The slots behind the removed one, up to the next empty slot. *)
ItemsBehind(removed, end) ==
  IF removed < end
    THEN end - removed - 1
    ELSE (TableSize - removed - 1) + end

(* Mutant: keys that went around the end of the table are not moved. *)
MustMoveNoWrap(hash_ind, hole, cur_ind) ==
  cur_ind > hole /\ (hash_ind <= hole \/ hash_ind > cur_ind)

(* The key in cur_ind could no longer be found once hole is empty. *)
MustMove(hash_ind, hole, cur_ind) ==
  \/ cur_ind > hole /\ (hash_ind <= hole \/ hash_ind > cur_ind)
  \/ cur_ind < hole /\ (hash_ind <= hole /\ hash_ind > cur_ind)

(* One turn of the loop over the slots behind the removed one: the item in *)
(* cur_ind fills the hole and leaves a hole behind, if it must move.       *)
FillHole(s, cur_ind) ==
  IF MustMove(HashInd[s.items[cur_ind][1]], s.hole, cur_ind)
    THEN [items |-> [s.items EXCEPT ![s.hole] = s.items[cur_ind]], hole |-> cur_ind]
    ELSE s

(* The items, and the last hole, after n turns. *)
ShiftBack(items, removed, n) ==
  LET shift[k \in 0 .. n] ==
        IF k = 0 THEN [items |-> items, hole |-> removed]
                 ELSE FillHole(shift[k - 1], Wrap(removed + k, TableSize))
  IN  shift[n]

(* The table, its bit vector and its count after f has been removed: the   *)
(* keys behind it that must move have moved, and the last hole is cleared  *)
(* and marked empty.                                                       *)
Remove(items, empty, count, f) ==
  LET removed == Find(items, empty, f)
      last == ShiftBack(items, removed, ItemsBehind(removed, GetNextInd(empty, removed)))
  IN IF removed = TableSize
       THEN [items |-> items, empty |-> empty, cnt |-> count]
       ELSE [items |-> [last.items EXCEPT ![last.hole] = <<NoKey, ZeroEntry>>],
             empty |-> empty \cup {last.hole},
             cnt |-> count - 1]

-----------------------------------------------------------------------------
(* Properties.                                                             *)

Items == [s \in Slots |-> <<keys[s], entries[s]>>]

(* In every bit vector that insertions leave, and from every start, the    *)
(* scan by words in get_next_ind_fingerprint_table finds the first empty   *)
(* slot going around the table.                                            *)
ScanFindsNext ==
  \A start_ind \in Slots :
    IsNextInd(is_empty, start_ind, GetNextInd(is_empty, start_ind))

(* "Confirm that other positions can still be found": remove takes its key *)
(* and no other out of the table, whatever collisions built it, a lookup   *)
(* still finds every other key with its entry, and table.cnt still counts  *)
(* the slots in use.  It needs an empty slot and the lock, as its search   *)
(* for the key is a find.                                                  *)
RemovalKeepsOthers ==
  cache_lock = Free /\ is_empty # {} =>
    \A f \in Published :
      LET r == Remove(Items, is_empty, cnt, f) IN
      /\ Cardinality(r.empty) = Cardinality(is_empty) + 1
      /\ r.cnt + Cardinality(r.empty) = TableSize
      /\ Find(r.items, r.empty, f) = TableSize
      /\ \A s \in Slots \ is_empty : keys[s] # f =>
           LET now == Find(r.items, r.empty, keys[s]) IN
           now \in Slots \ r.empty /\ r.items[now] = Items[s]

=============================================================================
