----------------------- MODULE FingerprintCacheProofs -----------------------
(***************************************************************************)
(* Type correctness of FingerprintCache and its safety properties, proved  *)
(* from the inductive invariant CacheInv for every table size, number of   *)
(* pages, hash function and set of threads; and, at the end, what the      *)
(* algorithms of TableRemoval do in every table that insertions leave: the *)
(* scan of the bit vector by words, for every number of bits in a word,    *)
(* and the removal of a key.                                               *)
(***************************************************************************)
EXTENDS TableRemoval, SumProofs, FiniteSetTheorems

-----------------------------------------------------------------------------
(* The arithmetic of a linear probe.                                       *)

(* An index reduced modulo n by Wrap is below n. *)
LEMMA WrapInRange ==
  ASSUME NEW n \in Nat \ {0}, NEW x \in Nat, x < 2 * n
  PROVE  Wrap(x, n) \in 0 .. n - 1
BY DEF Wrap

(* Every iteration of find_fingerprint_table looks at a slot of the table. *)
LEMMA ProbeSlotInTable ==
  ASSUME NEW h \in Slots, NEW n \in 0 .. TableSize, NEW k \in Nat,
         k < ItemsToCheck(h, n)
  PROVE  ProbeSlot(h, k) \in Slots
BY TableAssumption DEF Slots, ItemsToCheck, ProbeSlot, Wrap

-----------------------------------------------------------------------------
(* Type correctness.                                                       *)

(* A thread that inserts or looks up a fingerprint has one at hand. *)
FpInv ==
  \A t \in Threads : 
    pc[t] \notin {"idle", "try_lock", "insert", "set_skip", "fault"}
      => fp[t] \in Fingerprints

TypeInv == TypeOK /\ FpInv

(* The shared memory as init_fingerprint_cache leaves it is well typed. *)
LEMMA TypeInit == Init => TypeInv
<1> SUFFICES ASSUME Init PROVE TypeInv
  OBVIOUS
<1> USE TableAssumption, CacheAssumption
<1>1. ZeroEntry \in Entry
  BY DEF ZeroEntry, Entry, Pages
<1>2. TypeOK
  BY <1>1 DEF Init, TypeOK, Slots, Pages, ZeroPage, Stages
<1>3. FpInv
  BY DEF Init, FpInv
<1> QED BY <1>2, <1>3 DEF TypeInv

(* Every action stores values of the right type, and a thread that leaves  *)
(* "idle" or "insert" has a fingerprint at hand.                           *)
LEMMA TypeNext == TypeInv /\ [Next]_vars => TypeInv'
<1> SUFFICES ASSUME TypeInv, [Next]_vars PROVE TypeInv'
  OBVIOUS
<1> USE TableAssumption, CacheAssumption DEF TypeInv
<1>0. ZeroEntry \in Entry
  BY DEF ZeroEntry, Entry, Pages
<1>f. ASSUME NEW T \in SUBSET Threads, FreshLocals(T)
      PROVE  /\ pc' \in [Threads -> Stages]
             /\ fp' \in [Threads -> Fingerprints \cup {NoKey}]
             /\ i' \in [Threads -> Nat]
             /\ next_empty' \in [Threads -> 0 .. TableSize]
             /\ entry' \in [Threads -> Entry]
             /\ there' \in [Threads -> BOOLEAN]
             /\ FpInv'
  <2>1. pc' \in [Threads -> Stages]
    BY <1>f DEF FreshLocals, TypeOK, Stages
  <2>2. /\ fp' \in [Threads -> Fingerprints \cup {NoKey}]
        /\ i' \in [Threads -> Nat]
        /\ next_empty' \in [Threads -> 0 .. TableSize]
    BY <1>f DEF FreshLocals, TypeOK
  <2>3. entry' \in [Threads -> Entry]
    BY <1>f, <1>0 DEF FreshLocals, TypeOK
  <2>4. there' \in [Threads -> BOOLEAN]
    BY <1>f DEF FreshLocals, TypeOK
  <2>5. FpInv'
    BY <1>f DEF FreshLocals, FpInv
  <2> QED BY <2>1, <2>2, <2>3, <2>4, <2>5
<1>1. ASSUME NEW t \in Threads, TestSkip(t) \/ TryLock(t) PROVE TypeInv'
  BY <1>1, SMTT(30) DEF TestSkip, TryLock, Goto, TypeOK, FpInv, sharedVars, Stages, InsertStages
<1>2. ASSUME NEW t \in Threads, Unlock(t) \/ TryLockFails(t) \/ SetSkip(t)
      PROVE TypeInv'
  BY <1>2, <1>f DEF Unlock, TryLockFails, SetSkip, TypeOK, sharedVars
<1>3. ASSUME NEW t \in Threads, NEW f \in Fingerprints, NoFreePages(t, f)
      PROVE TypeInv'
  BY <1>3 DEF NoFreePages, CacheIsFull, Goto, TypeOK, FpInv, sharedVars, Stages
<1>4. ASSUME NEW t \in Threads, NEW f \in Fingerprints, GetFreePages(t, f)
      PROVE TypeInv'
  <2> DEFINE n == NumPagesOf[f]
             newEntry == [size |-> n, page |-> [k \in PageInds |->
                IF k <= n THEN free_pages[Wrap(free_pages_read_ind + (k - 1), NumPages)]
                          ELSE 0]]
  <2>1. n \in Nat \ {0} /\ n <= num_free_pages /\ num_free_pages \in 0 .. NumPages
        /\ free_pages_read_ind \in Pages
    BY <1>4 DEF GetFreePages, TypeOK
  <2>2. \A k \in PageInds : k <= n => Wrap(free_pages_read_ind + (k - 1), NumPages) \in Pages
    BY <2>1, WrapInRange DEF Pages, PageInds
  <2>3. newEntry \in Entry
    BY <2>1, <2>2 DEF Entry, free_pages, Pages
  <2>4. num_free_pages - n \in 0 .. NumPages
    BY <2>1
  <2>5. Wrap(free_pages_read_ind + n, NumPages) \in Pages
    BY <2>1, WrapInRange DEF Pages
  <2>6. /\ entry' = [entry EXCEPT ![t] = newEntry]
        /\ num_free_pages' = num_free_pages - n
        /\ free_pages_read_ind' = Wrap(free_pages_read_ind + n, NumPages)
        /\ fp' = [fp EXCEPT ![t] = f]
        /\ i' = [i EXCEPT ![t] = 1]
        /\ pc' = [pc EXCEPT ![t] = "copy_in"]
        /\ UNCHANGED <<keys, entries, is_empty, cnt, pages, cache_lock,
                 to_skip_insert_cache, next_empty, buf, there, crashes>>
    BY <1>4 DEF GetFreePages, Goto
  <2> HIDE DEF newEntry, n
  <2>7. TypeOK'
    BY <2>3, <2>4, <2>5, <2>6 DEF TypeOK, Stages, InsertStages
  <2>8. FpInv'
    BY <2>6 DEF TypeOK, FpInv
  <2> QED BY <2>7, <2>8
<1>5. ASSUME NEW t \in Threads, CopyIn(t) PROVE TypeInv'
  <2>1. pages' \in [Pages -> (Fingerprints \cup {NoKey}) \X Nat]
    BY <1>5 DEF CopyIn, TypeOK
  <2>2. i' \in [Threads -> Nat]
    BY <1>5 DEF CopyIn, TypeOK
  <2>3. pc' \in [Threads -> Stages]
    BY <1>5 DEF CopyIn, Goto, TypeOK, Stages, InsertStages
  <2>4. FpInv'
    BY <1>5 DEF CopyIn, Goto, TypeOK, FpInv
  <2> QED BY <1>5, <2>1, <2>2, <2>3, <2>4 DEF CopyIn, TypeOK
<1>6. ASSUME NEW t \in Threads, FindDuplicate(t) PROVE TypeInv'
  BY <1>6 DEF FindDuplicate, Goto, TypeOK, FpInv, sharedVars, Stages, InsertStages
<1>7. ASSUME NEW t \in Threads, TableIsFull(t) PROVE TypeInv'
  BY <1>7 DEF TableIsFull, CacheIsFull, Goto, TypeOK, FpInv, sharedVars, Stages
<1>8. ASSUME NEW t \in Threads, FindInsertInd(t) PROVE TypeInv'
  BY <1>8 DEF FindInsertInd, Goto, TypeOK, FpInv, sharedVars, Stages, InsertStages
<1>9. ASSUME NEW t \in Threads, WriteKey(t) PROVE TypeInv'
  BY <1>9 DEF WriteKey, Goto, TypeOK, FpInv, Stages, InsertStages
<1>10. ASSUME NEW t \in Threads, WriteSize(t) PROVE TypeInv'
  <2>1. \A e1, e2 \in Entry : [e1 EXCEPT !.size = e2.size] \in Entry
    BY DEF Entry
  <2>2. entries' = [entries EXCEPT ![next_empty[t]] =
                      [entries[next_empty[t]] EXCEPT !.size = entry[t].size]]
    BY <1>10 DEF WriteSize
  <2>3. entries' \in [Slots -> Entry]
    BY <2>1, <2>2 DEF TypeOK
  <2> QED
    BY <1>10, <2>3 DEF WriteSize, Goto, TypeOK, FpInv, Stages, InsertStages
<1>11. ASSUME NEW t \in Threads, WritePages(t) PROVE TypeInv'
  <2>1. \A e1, e2 \in Entry : [e1 EXCEPT !.page = e2.page] \in Entry
    BY DEF Entry
  <2>2. entries' = [entries EXCEPT ![next_empty[t]] =
                      [entries[next_empty[t]] EXCEPT !.page = entry[t].page]]
    BY <1>11 DEF WritePages
  <2>3. entries' \in [Slots -> Entry]
    BY <2>1, <2>2 DEF TypeOK
  <2> QED
    BY <1>11, <2>3 DEF WritePages, Goto, TypeOK, FpInv, Stages, InsertStages
<1>12. ASSUME NEW t \in Threads, ClearBit(t) PROVE TypeInv'
  BY <1>12 DEF ClearBit, Goto, TypeOK, FpInv, Stages, InsertStages
<1>13. ASSUME NEW t \in Threads, NEW f \in Fingerprints, BeginLookup(t, f)
       PROVE TypeInv'
  BY <1>13 DEF BeginLookup, Goto, TypeOK, FpInv, sharedVars, Stages, LookupStages
<1>14. ASSUME NEW t \in Threads, ProbeNext(t) PROVE TypeInv'
  BY <1>14 DEF ProbeNext, TypeOK, FpInv, sharedVars
<1>15. ASSUME NEW t \in Threads, ProbeHit(t) PROVE TypeInv'
  <2>1. /\ HashInd[fp[t]] \in Slots
        /\ next_empty[t] \in 0 .. TableSize
        /\ i[t] \in Nat
    BY <1>15 DEF ProbeHit, TypeOK, FpInv, Slots
  <2>2. i[t] < ItemsToCheck(HashInd[fp[t]], next_empty[t])
    BY <1>15, <2>1 DEF ProbeHit, ProbeEnds, ItemsToCheck, Slots
  <2>3. SlotAt(t) \in Slots
    BY <2>1, <2>2, ProbeSlotInTable DEF SlotAt
  <2> QED BY <1>15, <2>3 DEF ProbeHit, Goto, TypeOK, FpInv, sharedVars, Stages, LookupStages
<1>16. ASSUME NEW t \in Threads, ProbeMiss(t) PROVE TypeInv'
  BY <1>16 DEF ProbeMiss, Goto, TypeOK, FpInv, sharedVars, Stages, LookupStages
<1>17. ASSUME NEW t \in Threads, CopyOut(t) PROVE TypeInv'
  BY <1>17 DEF CopyOut, Goto, TypeOK, FpInv, sharedVars, Stages, LookupStages
<1>18. ASSUME NEW t \in Threads, CopyOutFault(t) PROVE TypeInv'
  BY <1>18 DEF CopyOutFault, Goto, TypeOK, FpInv, sharedVars, Stages
<1>19. ASSUME NEW t \in Threads, EndLookup(t) PROVE TypeInv'
  BY <1>19, <1>f DEF EndLookup, TypeOK, sharedVars
<1>20. ASSUME NEW p \in Procs, Crash(p) PROVE TypeInv'
  <2> DEFINE T == {t \in Threads : ProcOf[t] = p}
  <2>1. FreshLocals(T)
    BY <1>20 DEF Crash
  <2> QED BY <1>20, <1>f, <2>1 DEF Crash, TypeOK, sharedVars
<1>21. CASE UNCHANGED vars
  BY <1>21 DEF vars, TypeOK, FpInv, sharedVars, localVars
<1> QED
  BY <1>1, <1>2, <1>3, <1>4, <1>5, <1>6, <1>7, <1>8, <1>9, <1>10, <1>11, <1>12,
     <1>13, <1>14, <1>15, <1>16, <1>17, <1>18, <1>19, <1>20, <1>21
     DEF Next, InsertStep, LookupStep

(* Every variable of the cache and of its callers always has its type. *)
THEOREM TypeCorrect == Spec => []TypeOK
<1>1. Spec => []TypeInv
  BY TypeInit, TypeNext, PTL DEF Spec
<1> QED BY <1>1, PTL DEF TypeInv

-----------------------------------------------------------------------------
(* The linear probe.                                                       *)

(* Different slots lie at different distances from the start of a probe,   *)
(* all less than the size of the table.                                    *)
LEMMA ProbeDistInjective ==
  ASSUME NEW h \in Slots, NEW s1 \in Slots, NEW s2 \in Slots
  PROVE  /\ ProbeDist(h, s1) \in 0 .. TableSize - 1
         /\ ProbeDist(h, s1) = ProbeDist(h, s2) => s1 = s2
BY TableAssumption DEF Slots, ProbeDist

(* Iteration k of a probe looks at the slot at distance k, unless it is    *)
(* the one at the empty slot n where a probe that goes around ends.        *)
LEMMA ProbedAreBefore ==
  ASSUME NEW h \in Slots, NEW n \in 0 .. TableSize, NEW k \in Nat,
         k < ItemsToCheck(h, n), ProbeSlot(h, k) # n
  PROVE  /\ ProbeDist(h, ProbeSlot(h, k)) = k
         /\ n # TableSize => k < ProbeDist(h, n)
BY TableAssumption DEF Slots, ProbeDist, ItemsToCheck, ProbeSlot, Wrap

(* A probe visits every slot that is nearer than the empty slot n, at the  *)
(* iteration that equals its distance.                                     *)
LEMMA BeforeAreProbed ==
  ASSUME NEW h \in Slots, NEW n \in Slots, NEW s \in Slots,
         ProbeDist(h, s) < ProbeDist(h, n)
  PROVE  /\ ProbeDist(h, s) \in Nat
         /\ ProbeDist(h, s) < ItemsToCheck(h, n)
         /\ ProbeSlot(h, ProbeDist(h, s)) = s
BY TableAssumption DEF Slots, ProbeDist, ItemsToCheck, ProbeSlot, Wrap

-----------------------------------------------------------------------------
(* What the insert stages keep true of the shared memory.                  *)

(* cache_lock lets one thread at a time into the insert stages. *)
LEMMA OneInserter ==
  ASSUME LockInv, NEW t \in Threads, NEW u \in Threads,
         pc[t] \in InsertStages, pc[u] \in InsertStages
  PROVE  u = t
BY DEF LockInv

(* init_fingerprint_cache establishes the invariant of the shared memory. *)
LEMMA StoreInit == Init => StoreInv
<1> SUFFICES ASSUME Init PROVE StoreInv
  OBVIOUS
<1> USE TableAssumption, CacheAssumption
<1>1. LockInv /\ HolderInv /\ CopiedInv /\ WritingInv
  BY DEF Init, LockInv, HolderInv, CopiedInv, WritingInv, InsertStages, Filling,
         Writing
<1>2. AllocInv
  BY DEF Init, AllocInv, Used, Wrap
<1>3. BelowInv /\ ProbeInv /\ PublishedIntact /\ UniqueKeys
  BY DEF Init, BelowInv, ProbeInv, PublishedIntact, UniqueKeys
<1>4. CountInv
  <2>1. Cardinality(Slots) = TableSize
    <3>1. Cardinality(0 .. TableSize - 1) = (TableSize - 1) - 0 + 1
      BY FS_Interval
    <3> QED BY <3>1 DEF Slots
  <2> QED BY <2>1 DEF Init, CountInv, Used, Filling
<1> QED BY <1>1, <1>2, <1>3, <1>4 DEF StoreInv

(* A step that stores nothing in shared memory and touches no thread that  *)
(* is filling a slot preserves StoreInv if it handles cache_lock right.    *)
LEMMA StoreFrame ==
  ASSUME StoreInv, UNCHANGED sharedVars, LockInv',
         \A t \in Threads : pc'[t] \in Filling =>
           /\ pc'[t] = pc[t]
           /\ fp'[t] = fp[t]
           /\ i'[t] = i[t]
           /\ next_empty'[t] = next_empty[t]
           /\ entry'[t] = entry[t]
  PROVE  StoreInv'
<1> USE DEF sharedVars
<1>0. Writing \subseteq Filling /\ Used' = Used /\ Published' = Published
  BY DEF Writing, Filling, Used, Published
<1>1. AllocInv' /\ ProbeInv' /\ PublishedIntact' /\ UniqueKeys'
  <2>1. AllocInv' /\ ProbeInv'
    BY <1>0 DEF StoreInv, AllocInv, ProbeInv
  <2>2. PublishedIntact' /\ UniqueKeys'
    BY DEF StoreInv, PublishedIntact, UniqueKeys, HoldsContent
  <2> QED BY <2>1, <2>2
<1>2. HolderInv'
  BY <1>0 DEF StoreInv, HolderInv, Holds
<1>3. CopiedInv'
  <2> SUFFICES ASSUME NEW t \in Threads, pc'[t] \in Filling PROVE Copied(t)'
    BY DEF CopiedInv
  <2>1. Copied(t)
    BY DEF StoreInv, CopiedInv
  <2> QED BY <2>1 DEF Copied
<1>4. BelowInv'
  BY <1>0 DEF StoreInv, BelowInv
<1>5. WritingInv'
  BY <1>0 DEF StoreInv, WritingInv, Writes
<1>6. CountInv'
  BY <1>0 DEF StoreInv, CountInv
<1> QED BY <1>1, <1>2, <1>3, <1>4, <1>5, <1>6 DEF StoreInv

(* The lock holder goes on to another insert stage, and is still alone. *)
LEMMA HolderGoesOn ==
  ASSUME LockInv, pc \in [Threads -> Stages], NEW t \in Threads,
         pc[t] \in InsertStages, NEW st \in InsertStages, Goto(t, st),
         UNCHANGED cache_lock
  PROVE  /\ LockInv'
         /\ pc'[t] = st
         /\ \A u \in Threads : pc'[u] \in InsertStages => u = t
         /\ \A u \in Threads : pc'[u] \in Filling \cup Writing => u = t
BY OneInserter DEF LockInv, Goto, Filling, Writing, InsertStages

(* get_free_cache_pages hands out the pages behind all those in use. *)
LEMMA StoreGetFreePages ==
  ASSUME TypeInv, StoreInv, NEW t \in Threads, NEW f \in Fingerprints,
         GetFreePages(t, f)
  PROVE  StoreInv'
<1> USE TableAssumption, CacheAssumption
<1> DEFINE n == NumPagesOf[f]
<1>1. /\ n \in Nat \ {0} /\ n <= num_free_pages
      /\ num_free_pages \in 0 .. NumPages
      /\ n <= ContentMaxPages
  BY DEF GetFreePages, TypeInv, TypeOK
<1>2. Used' = Used + n /\ Used \in Nat /\ Used + n <= NumPages
  BY <1>1 DEF GetFreePages, Used
<1>3. free_pages_read_ind = Used
  BY <1>1, <1>2 DEF StoreInv, AllocInv, Wrap
<1>4. /\ LockInv'
      /\ pc'[t] = "copy_in"
      /\ \A u \in Threads : pc'[u] \in Filling \cup Writing => u = t
  <2>1. Goto(t, "copy_in") /\ UNCHANGED cache_lock /\ pc[t] = "insert"
    BY DEF GetFreePages
  <2>2. "copy_in" \in InsertStages /\ "insert" \in InsertStages
    BY DEF InsertStages
  <2> QED BY <2>1, <2>2, HolderGoesOn DEF StoreInv, TypeInv, TypeOK
<1>5. fp'[t] = f /\ i'[t] = 1
  BY DEF GetFreePages, TypeInv, TypeOK
<1>6. /\ entry'[t].size = n
      /\ \A k \in 1 .. n : entry'[t].page[k] = Used + (k - 1)
  <2>1. entry'[t] = [size |-> n, page |-> [k \in PageInds |->
           IF k <= n THEN free_pages[Wrap(free_pages_read_ind + (k - 1), NumPages)]
                     ELSE 0]]
    BY DEF GetFreePages, TypeInv, TypeOK
  <2>2. \A k \in 1 .. n : Wrap(Used + (k - 1), NumPages) = Used + (k - 1)
    BY <1>1, <1>2 DEF Wrap
  <2>3. \A k \in 1 .. n : Used + (k - 1) \in Pages /\ k \in PageInds
    BY <1>1, <1>2 DEF Pages, PageInds
  <2> QED BY <1>3, <2>1, <2>2, <2>3 DEF free_pages
<1>7. UNCHANGED <<keys, entries, is_empty, cnt, pages>>
  BY DEF GetFreePages
<1>8. AllocInv'
  BY <1>1, <1>2, <1>3 DEF AllocInv, GetFreePages, Wrap, Used
<1>9. HolderInv'
  <2>1. Holds(t)'
    BY <1>1, <1>2, <1>5, <1>6 DEF Holds
  <2> QED BY <1>4, <2>1 DEF HolderInv
<1>10. CopiedInv'
  <2>1. Copied(t)'
    BY <1>1, <1>4, <1>5 DEF Copied
  <2> QED BY <1>4, <2>1 DEF CopiedInv
<1>11. BelowInv'
  <2> SUFFICES ASSUME NEW s \in Slots \ is_empty
               PROVE  /\ entries[s].size <= ContentMaxPages
                      /\ \A k \in 1 .. entries[s].size :
                           /\ entries[s].page[k] < Used'
                           /\ entries[s].page[k] < Used' - n
    BY <1>4, <1>5, <1>7 DEF BelowInv
  <2>1. entries[s] \in Entry /\ entries[s].size <= ContentMaxPages
    BY DEF TypeInv, TypeOK, StoreInv, BelowInv
  <2>2. \A k \in 1 .. entries[s].size : entries[s].page[k] < Used
    BY DEF StoreInv, BelowInv
  <2>3. \A k \in 1 .. entries[s].size : entries[s].page[k] \in Nat
    BY <2>1 DEF Entry, Pages, PageInds
  <2> QED BY <1>1, <1>2, <2>1, <2>2, <2>3
<1>12. WritingInv'
  BY <1>4 DEF WritingInv, Writing
<1>13. ProbeInv' /\ UniqueKeys' /\ PublishedIntact'
  BY <1>7, SMTT(30) DEF StoreInv, ProbeInv, UniqueKeys, PublishedIntact, HoldsContent
<1>14. CountInv'
  <2>1. cnt \in Nat /\ cnt <= Used /\ cnt + Cardinality(is_empty) = TableSize
    BY DEF TypeInv, TypeOK, StoreInv, CountInv
  <2> QED BY <1>1, <1>2, <1>4, <1>5, <1>7, <2>1 DEF CountInv
<1> QED BY <1>4, <1>8, <1>9, <1>10, <1>11, <1>12, <1>13, <1>14 DEF StoreInv

(* The pages being filled are not those of a published entry. *)
LEMMA StoreCopyIn ==
  ASSUME TypeInv, StoreInv, NEW t \in Threads, CopyIn(t)
  PROVE  StoreInv'
<1> USE TableAssumption, CacheAssumption
<1> DEFINE n == NumPagesOf[fp[t]]
           p == entry[t].page[i[t]]
           st == IF i[t] < n THEN "copy_in" ELSE "find"
<1>1. /\ pc[t] = "copy_in" /\ pc[t] \in Filling /\ pc[t] \in InsertStages
      /\ fp[t] \in Fingerprints /\ n \in Nat \ {0}
      /\ Used \in Nat /\ Used <= NumPages
  BY DEF CopyIn, Filling, InsertStages, TypeInv, TypeOK, FpInv, Used
<1>2. Holds(t) /\ Copied(t)
  BY <1>1 DEF StoreInv, HolderInv, CopiedInv
<1>3. i[t] \in 1 .. n
  BY <1>1, <1>2 DEF Copied
<1>4. p = (Used - n) + (i[t] - 1) /\ p \in Pages
  BY <1>1, <1>2, <1>3 DEF Holds, Pages
<1>5. /\ LockInv'
      /\ pc'[t] = st
      /\ \A u \in Threads : pc'[u] \in Filling \cup Writing => u = t
  <2>1. Goto(t, st) /\ UNCHANGED cache_lock /\ st \in InsertStages
    BY DEF CopyIn, InsertStages
  <2> HIDE DEF st
  <2> QED BY <1>1, <2>1, HolderGoesOn DEF StoreInv, TypeInv, TypeOK
<1>6. /\ UNCHANGED <<keys, entries, is_empty, cnt, num_free_pages,
                     free_pages_read_ind, fp, next_empty, entry>>
      /\ Used' = Used
      /\ i'[t] = i[t] + 1
      /\ \A q \in Pages : pages'[q] = IF q = p THEN <<fp[t], i[t]>> ELSE pages[q]
  BY <1>4 DEF CopyIn, TypeInv, TypeOK, Used
<1> HIDE DEF p
<1>7. HolderInv'
  <2>1. Holds(t)'
    BY <1>2, <1>6 DEF Holds
  <2> QED BY <1>5, <2>1 DEF HolderInv
<1>8. CopiedInv'
  <2>1. pc'[t] = "copy_in" => i'[t] \in 1 .. n
    BY <1>1, <1>3, <1>5, <1>6
  <2>2. ASSUME NEW k \in 1 .. n, pc'[t] = "copy_in" => k < i'[t]
        PROVE  pages'[entry[t].page[k]] = <<fp[t], k>>
    <3>1. k <= i[t]
      BY <1>1, <1>3, <1>5, <1>6, <2>2
    <3>2. entry[t].page[k] = (Used - n) + (k - 1) /\ entry[t].page[k] \in Pages
      BY <1>1, <1>2 DEF Holds, Pages
    <3>3. CASE k = i[t]
      BY <1>4, <1>6, <3>2, <3>3
    <3>4. CASE k < i[t]
      <4>1. pages[entry[t].page[k]] = <<fp[t], k>>
        BY <1>2, <3>4 DEF Copied
      <4>2. entry[t].page[k] # p
        BY <1>1, <1>3, <1>4, <3>2, <3>4
      <4> QED BY <1>6, <3>2, <4>1, <4>2
    <3> QED BY <1>3, <3>1, <3>3, <3>4
  <2>3. Copied(t)'
    BY <1>6, <2>1, <2>2 DEF Copied
  <2> QED BY <1>5, <2>3 DEF CopiedInv
<1>9. BelowInv'
  BY <1>1, <1>5, <1>6 DEF StoreInv, BelowInv
<1>10. WritingInv'
  BY <1>5 DEF WritingInv, Writing
<1>11. PublishedIntact'
  <2> SUFFICES ASSUME NEW s \in Slots \ is_empty
               PROVE  /\ keys[s] \in Fingerprints
                      /\ entries[s].size = NumPagesOf[keys[s]]
                      /\ \A k \in 1 .. NumPagesOf[keys[s]] :
                           pages'[entries[s].page[k]] = <<keys[s], k>>
    BY <1>6 DEF PublishedIntact, HoldsContent
  <2>1. /\ keys[s] \in Fingerprints
        /\ entries[s].size = NumPagesOf[keys[s]]
        /\ \A k \in 1 .. NumPagesOf[keys[s]] :
             pages[entries[s].page[k]] = <<keys[s], k>>
    BY DEF StoreInv, PublishedIntact, HoldsContent
  <2>2. entries[s] \in Entry /\ entries[s].size <= ContentMaxPages
    BY DEF TypeInv, TypeOK, StoreInv, BelowInv
  <2>3. \A k \in 1 .. entries[s].size : entries[s].page[k] < Used - n
    BY <1>1 DEF StoreInv, BelowInv
  <2>4. \A k \in 1 .. entries[s].size : entries[s].page[k] \in Pages
    BY <2>2 DEF Entry, PageInds
  <2>5. \A k \in 1 .. entries[s].size : entries[s].page[k] # p
    BY <1>1, <1>3, <1>4, <2>3, <2>4 DEF Pages
  <2> QED BY <1>6, <2>1, <2>4, <2>5
<1>12. AllocInv' /\ ProbeInv' /\ UniqueKeys'
  BY <1>6 DEF StoreInv, AllocInv, ProbeInv, UniqueKeys
<1>13. CountInv'
  BY <1>1, <1>5, <1>6 DEF StoreInv, CountInv
<1> QED BY <1>5, <1>7, <1>8, <1>9, <1>10, <1>11, <1>12, <1>13 DEF StoreInv

(* insert_fingerprint_table finds an empty slot behind the hash, and the   *)
(* search before it shows that the key is nowhere in the table.            *)
LEMMA StoreFindInsertInd ==
  ASSUME TypeInv, StoreInv, NEW t \in Threads, FindInsertInd(t)
  PROVE  StoreInv'
<1> USE TableAssumption, CacheAssumption
<1> DEFINE h == HashInd[fp[t]]
<1>1. PICK n \in 0 .. TableSize : /\ IsNextInd(is_empty, h, n)
                                  /\ ~ FoundUnderLock(t, n)
                                  /\ next_empty' = [next_empty EXCEPT ![t] = n]
  BY DEF FindInsertInd
<1>2. /\ pc[t] = "find" /\ pc[t] \in Filling /\ pc[t] \in InsertStages
      /\ fp[t] \in Fingerprints /\ h \in Slots
  BY DEF FindInsertInd, Filling, InsertStages, TypeInv, TypeOK, FpInv, Slots
<1>3. /\ UNCHANGED <<sharedVars, fp, i, entry>>
      /\ next_empty'[t] = n
      /\ Used' = Used
  BY <1>1 DEF FindInsertInd, TypeInv, TypeOK, Used, sharedVars
<1>4. /\ LockInv'
      /\ pc'[t] = "write_key"
      /\ \A u \in Threads : pc'[u] \in Filling \cup Writing => u = t
  <2>1. Goto(t, "write_key") /\ UNCHANGED cache_lock /\ "write_key" \in InsertStages
    BY DEF FindInsertInd, InsertStages
  <2> QED BY <1>2, <2>1, HolderGoesOn DEF StoreInv, TypeInv, TypeOK
<1>5. n \in is_empty /\ n \in Slots
  <2>1. is_empty # {}
    <3>1. cnt + Cardinality(is_empty) = TableSize /\ cnt # TableSize /\ cnt \in Nat
      BY DEF StoreInv, CountInv, FindInsertInd, TypeInv, TypeOK
    <3>2. is_empty = {} => Cardinality(is_empty) = 0
      BY FS_EmptySet
    <3> QED BY <3>1, <3>2
  <2> QED BY <1>1, <2>1 DEF IsNextInd, TypeInv, TypeOK
<1>6. fp[t] \notin Published
  <2> SUFFICES ASSUME NEW s \in Slots \ is_empty, keys[s] = fp[t] PROVE FALSE
    BY DEF Published
  <2>1. ProbeDist(h, s) < ProbeDist(h, n)
    BY <1>5 DEF StoreInv, ProbeInv
  <2>2. /\ ProbeDist(h, s) \in Nat
        /\ ProbeDist(h, s) < ItemsToCheck(h, n)
        /\ ProbeSlot(h, ProbeDist(h, s)) = s
    BY <1>2, <1>5, <2>1, BeforeAreProbed
  <2>3. ItemsToCheck(h, n) \in Nat
    BY <1>2 DEF ItemsToCheck, Slots
  <2>4. s \in ProbedSlots(h, n)
    BY <2>2, <2>3 DEF ProbedSlots
  <2> QED BY <1>1, <2>4 DEF FoundUnderLock
<1>7. WritingInv'
  <2>1. Writes(t)'
    BY <1>1, <1>3, <1>4, <1>5, <1>6 DEF Writes, sharedVars, Published
  <2> QED BY <1>4, <2>1 DEF WritingInv
<1>8. HolderInv'
  <2>1. Holds(t)
    BY <1>2 DEF StoreInv, HolderInv
  <2>2. Holds(t)'
    BY <1>3, <2>1 DEF Holds
  <2> QED BY <1>4, <2>2 DEF HolderInv
<1>9. CopiedInv'
  <2>1. Copied(t)
    BY <1>2 DEF StoreInv, CopiedInv
  <2>2. Copied(t)'
    BY <1>2, <1>3, <1>4, <2>1 DEF Copied, sharedVars
  <2> QED BY <1>4, <2>2 DEF CopiedInv
<1>10. BelowInv' /\ CountInv'
  BY <1>2, <1>3, <1>4 DEF StoreInv, BelowInv, CountInv, sharedVars
<1>11. AllocInv' /\ ProbeInv'
  BY <1>3 DEF StoreInv, AllocInv, ProbeInv, sharedVars
<1>12. PublishedIntact' /\ UniqueKeys'
  BY <1>3 DEF StoreInv, PublishedIntact, UniqueKeys, HoldsContent, sharedVars
<1> QED BY <1>4, <1>7, <1>8, <1>9, <1>10, <1>11, <1>12 DEF StoreInv

(* A store to the slot that is being written, which is still empty,        *)
(* disturbs no published entry.                                            *)
LEMMA StoreWrite ==
  ASSUME TypeInv, StoreInv, NEW t \in Threads, pc[t] \in Writing,
         NEW st \in Writing, Goto(t, st),
         UNCHANGED <<is_empty, cnt, pages, num_free_pages, free_pages_read_ind,
                     cache_lock, fp, i, next_empty, entry>>,
         \A s \in Slots : s # next_empty[t] =>
           keys'[s] = keys[s] /\ entries'[s] = entries[s],
         st # "write_key" => keys'[next_empty[t]] = fp[t],
         st \in {"write_pages", "clear_bit"} =>
           entries'[next_empty[t]].size = entry[t].size,
         st = "clear_bit" => entries'[next_empty[t]].page = entry[t].page
  PROVE  StoreInv'
<1> USE TableAssumption, CacheAssumption
<1>1. /\ Writing \subseteq Filling /\ Filling \subseteq InsertStages
      /\ "copy_in" \notin Writing /\ Used' = Used
  BY DEF Writing, Filling, InsertStages, Used
<1>2. /\ LockInv'
      /\ pc'[t] = st
      /\ \A u \in Threads : pc'[u] \in Filling \cup Writing => u = t
  BY <1>1, HolderGoesOn DEF StoreInv, TypeInv, TypeOK
<1>3. Writes(t) /\ Holds(t) /\ Copied(t)
  BY <1>1 DEF StoreInv, WritingInv, HolderInv, CopiedInv
<1>4. \A s \in Slots \ is_empty : keys'[s] = keys[s] /\ entries'[s] = entries[s]
  BY <1>3 DEF Writes
<1>5. Published' = Published
  BY <1>4 DEF Published
<1>6. WritingInv'
  <2>1. Writes(t)'
    BY <1>2, <1>3, <1>5 DEF Writes
  <2> QED BY <1>2, <2>1 DEF WritingInv
<1>7. HolderInv'
  <2>1. Holds(t)'
    BY <1>1, <1>3 DEF Holds
  <2> QED BY <1>2, <2>1 DEF HolderInv
<1>8. CopiedInv'
  <2>1. pc[t] # "copy_in" /\ pc'[t] # "copy_in"
    BY <1>1, <1>2
  <2>2. Copied(t)'
    BY <1>3, <2>1 DEF Copied
  <2> QED BY <1>2, <2>2 DEF CopiedInv
<1>9. BelowInv'
  BY <1>1, <1>2, <1>4 DEF StoreInv, BelowInv
<1>10. CountInv'
  BY <1>1, <1>2 DEF StoreInv, CountInv
<1>11. AllocInv' /\ ProbeInv'
  BY <1>1, <1>4 DEF StoreInv, AllocInv, ProbeInv
<1>12. UniqueKeys'
  BY <1>4 DEF StoreInv, UniqueKeys
<1>13. PublishedIntact'
  <2> SUFFICES ASSUME NEW s \in Slots \ is_empty
               PROVE  keys'[s] \in Fingerprints /\ HoldsContent(entries[s], keys[s])'
    BY DEF PublishedIntact
  <2>1. keys[s] \in Fingerprints /\ HoldsContent(entries[s], keys[s])
    BY DEF StoreInv, PublishedIntact
  <2> QED BY <1>4, <2>1 DEF HoldsContent
<1> QED
  BY <1>2, <1>6, <1>7, <1>8, <1>9, <1>10, <1>11, <1>12, <1>13 DEF StoreInv

(* The memcpy of the key, and the two parts of the memcpy of the value. *)
LEMMA StoreWriteItem ==
  ASSUME TypeInv, StoreInv, NEW t \in Threads,
         WriteKey(t) \/ WriteSize(t) \/ WritePages(t)
  PROVE  StoreInv'
<1> USE TableAssumption, CacheAssumption
<1>0. pc[t] \in Writing
  BY DEF WriteKey, WriteSize, WritePages, Writing
<1>1. Writes(t) /\ next_empty[t] \in Slots
  BY <1>0 DEF StoreInv, WritingInv, Writes, TypeInv, TypeOK
<1>2. CASE WriteKey(t)
  <2>1. "write_size" \in Writing /\ Goto(t, "write_size")
    BY <1>2 DEF WriteKey, Writing
  <2>2. keys'[next_empty[t]] = fp[t]
    BY <1>1, <1>2 DEF WriteKey, TypeInv, TypeOK
  <2>3. \A s \in Slots : s # next_empty[t] =>
          keys'[s] = keys[s] /\ entries'[s] = entries[s]
    BY <1>2 DEF WriteKey, TypeInv, TypeOK
  <2>4. UNCHANGED <<is_empty, cnt, pages, num_free_pages, free_pages_read_ind,
                    cache_lock, fp, i, next_empty, entry>>
    BY <1>2 DEF WriteKey
  <2> QED BY <1>0, <2>1, <2>2, <2>3, <2>4, StoreWrite
<1>3. CASE WriteSize(t)
  <2>1. "write_pages" \in Writing /\ Goto(t, "write_pages")
    BY <1>3 DEF WriteSize, Writing
  <2>2. entries' = [entries EXCEPT ![next_empty[t]] =
                      [entries[next_empty[t]] EXCEPT !.size = entry[t].size]]
    BY <1>3 DEF WriteSize
  <2>3. entries'[next_empty[t]].size = entry[t].size
    BY <1>1, <2>2 DEF TypeInv, TypeOK, Entry
  <2>4. \A s \in Slots : s # next_empty[t] =>
          keys'[s] = keys[s] /\ entries'[s] = entries[s]
    BY <1>3, <2>2 DEF WriteSize, TypeInv, TypeOK
  <2>5. keys'[next_empty[t]] = fp[t]
    BY <1>1, <1>3 DEF WriteSize, Writes
  <2>6. UNCHANGED <<is_empty, cnt, pages, num_free_pages, free_pages_read_ind,
                    cache_lock, fp, i, next_empty, entry>>
    BY <1>3 DEF WriteSize
  <2> QED BY <1>0, <2>1, <2>3, <2>4, <2>5, <2>6, StoreWrite
<1>4. CASE WritePages(t)
  <2>1. "clear_bit" \in Writing /\ Goto(t, "clear_bit")
    BY <1>4 DEF WritePages, Writing
  <2>2. entries' = [entries EXCEPT ![next_empty[t]] =
                      [entries[next_empty[t]] EXCEPT !.page = entry[t].page]]
    BY <1>4 DEF WritePages
  <2>3. entries[next_empty[t]].size = entry[t].size /\ keys[next_empty[t]] = fp[t]
    BY <1>1, <1>4 DEF WritePages, Writes
  <2>4. /\ entries'[next_empty[t]].size = entry[t].size
        /\ entries'[next_empty[t]].page = entry[t].page
    BY <1>1, <2>2, <2>3 DEF TypeInv, TypeOK, Entry
  <2>5. \A s \in Slots : s # next_empty[t] =>
          keys'[s] = keys[s] /\ entries'[s] = entries[s]
    BY <1>4, <2>2 DEF WritePages, TypeInv, TypeOK
  <2>6. keys'[next_empty[t]] = fp[t]
    BY <1>4, <2>3 DEF WritePages
  <2>7. UNCHANGED <<is_empty, cnt, pages, num_free_pages, free_pages_read_ind,
                    cache_lock, fp, i, next_empty, entry>>
    BY <1>4 DEF WritePages
  <2> QED BY <1>0, <2>1, <2>4, <2>5, <2>6, <2>7, StoreWrite
<1> QED BY <1>2, <1>3, <1>4

(* Clearing the bit publishes an entry that is whole. *)
LEMMA StoreClearBit ==
  ASSUME TypeInv, StoreInv, NEW t \in Threads, ClearBit(t)
  PROVE  StoreInv'
<1> USE TableAssumption, CacheAssumption
<1> DEFINE e == next_empty[t]
           n == NumPagesOf[fp[t]]
           h == HashInd[fp[t]]
<1>1. /\ pc[t] = "clear_bit" /\ pc[t] \in Filling /\ pc[t] \in Writing
      /\ pc[t] \in InsertStages
      /\ fp[t] \in Fingerprints /\ n \in Nat \ {0} /\ h \in Slots
      /\ Used \in Nat /\ is_empty \subseteq Slots
  <2>1. /\ pc[t] = "clear_bit" /\ pc[t] \in Filling /\ pc[t] \in Writing
        /\ pc[t] \in InsertStages
    BY DEF ClearBit, Filling, Writing, InsertStages
  <2>2. fp[t] \in Fingerprints /\ Used \in Nat /\ is_empty \subseteq Slots
    BY <2>1 DEF TypeInv, TypeOK, FpInv, Used
  <2> QED BY <2>1, <2>2 DEF Slots
<1>2. Holds(t) /\ Copied(t) /\ Writes(t)
  BY <1>1 DEF StoreInv, HolderInv, CopiedInv, WritingInv
<1>3. /\ e \in is_empty /\ IsNextInd(is_empty, h, e) /\ fp[t] \notin Published
      /\ keys[e] = fp[t] /\ entries[e].size = n /\ entries[e].page = entry[t].page
  BY <1>1, <1>2 DEF Writes, Holds
<1>4. /\ UNCHANGED <<keys, entries, pages, num_free_pages, free_pages_read_ind>>
      /\ is_empty' = is_empty \ {e}
      /\ cnt' = cnt + 1
      /\ Used' = Used
  BY DEF ClearBit, Used
<1>5. LockInv' /\ \A u \in Threads : pc'[u] \notin Filling \cup Writing
  <2>1. Goto(t, "insert") /\ UNCHANGED cache_lock /\ "insert" \in InsertStages
        /\ "insert" \notin Filling \cup Writing
    BY DEF ClearBit, InsertStages, Filling, Writing
  <2> QED BY <1>1, <2>1, HolderGoesOn DEF StoreInv, TypeInv, TypeOK
<1> HIDE DEF e, n, h
<1>6. HolderInv' /\ CopiedInv' /\ WritingInv'
  BY <1>5 DEF HolderInv, CopiedInv, WritingInv
<1>7. AllocInv'
  BY <1>4 DEF StoreInv, AllocInv
<1>8. BelowInv'
  <2> SUFFICES ASSUME NEW s \in Slots \ (is_empty \ {e})
               PROVE  /\ entries[s].size <= ContentMaxPages
                      /\ \A k \in 1 .. entries[s].size : entries[s].page[k] < Used
    BY <1>4, <1>5 DEF BelowInv
  <2>1. CASE s \notin is_empty
    BY <2>1 DEF StoreInv, BelowInv
  <2>2. CASE s = e
    BY <1>1, <1>2, <1>3, <2>2 DEF Holds, n
  <2> QED BY <2>1, <2>2
<1>9. PublishedIntact'
  <2> SUFFICES ASSUME NEW s \in Slots \ (is_empty \ {e})
               PROVE  keys[s] \in Fingerprints /\ HoldsContent(entries[s], keys[s])
    BY <1>4 DEF PublishedIntact, HoldsContent
  <2>1. CASE s \notin is_empty
    BY <2>1 DEF StoreInv, PublishedIntact
  <2>2. CASE s = e
    BY <1>1, <1>2, <1>3, <2>2 DEF Copied, HoldsContent, n
  <2> QED BY <2>1, <2>2
<1>10. UniqueKeys'
  <2>1. \A s \in Slots \ is_empty : keys[s] # keys[e]
    BY <1>3 DEF Published
  <2> QED BY <1>4, <2>1 DEF StoreInv, UniqueKeys
<1>11. ProbeInv'
  <2> SUFFICES ASSUME NEW s \in Slots \ (is_empty \ {e}), NEW x \in is_empty \ {e}
               PROVE  ProbeDist(HashInd[keys[s]], s) < ProbeDist(HashInd[keys[s]], x)
    BY <1>4 DEF ProbeInv
  <2>1. CASE s \notin is_empty
    BY <2>1 DEF StoreInv, ProbeInv
  <2>2. CASE s = e
    <3>1. HashInd[keys[s]] = h
      BY <1>3, <2>2 DEF h
    <3>2. ProbeDist(h, e) <= ProbeDist(h, x)
      BY <1>3 DEF IsNextInd
    <3>3. /\ ProbeDist(h, e) \in 0 .. TableSize - 1
          /\ ProbeDist(h, x) \in 0 .. TableSize - 1
          /\ ProbeDist(h, e) # ProbeDist(h, x)
      BY <1>1, <1>3, ProbeDistInjective
    <3> QED BY <2>2, <3>1, <3>2, <3>3
  <2> QED BY <2>1, <2>2
<1>12. CountInv'
  <2>1. /\ cnt \in Nat /\ cnt + Cardinality(is_empty) = TableSize
        /\ cnt + n <= Used
    BY <1>1 DEF StoreInv, CountInv, TypeInv, TypeOK, n
  <2>2. IsFiniteSet(is_empty)
    <3>1. IsFiniteSet(0 .. TableSize - 1)
      BY FS_Interval
    <3> QED BY <1>1, <3>1, FS_Subset DEF Slots
  <2>3. Cardinality(is_empty \ {e}) = Cardinality(is_empty) - 1
    BY <1>3, <2>2, FS_RemoveElement
  <2>4. Cardinality(is_empty) \in Nat
    BY <2>2, FS_CardinalityType
  <2> QED BY <1>1, <1>4, <1>5, <2>1, <2>3, <2>4 DEF CountInv
<1> QED BY <1>5, <1>6, <1>7, <1>8, <1>9, <1>10, <1>11, <1>12 DEF StoreInv

(* The threads in T are outside the insert stages from now on, and         *)
(* cache_lock is theirs no more.                                           *)
LEMMA StoreLeave ==
  ASSUME TypeInv, StoreInv, NEW T \in SUBSET Threads, FreshLocals(T),
         UNCHANGED sharedVars,
         \A t \in Threads : cache_lock' = t <=> cache_lock = t /\ t \notin T
  PROVE  StoreInv'
<1>1. LockInv'
  BY DEF StoreInv, LockInv, FreshLocals, InsertStages
<1>2. \A t \in Threads : pc'[t] \in Filling =>
           /\ pc'[t] = pc[t]
           /\ fp'[t] = fp[t]
           /\ i'[t] = i[t]
           /\ next_empty'[t] = next_empty[t]
           /\ entry'[t] = entry[t]
  BY DEF FreshLocals, Filling
<1> QED BY <1>1, <1>2, StoreFrame

(* A lookup changes nothing but locals of its own thread. *)
LEMMA StoreLookup ==
  ASSUME TypeInv, StoreInv, NEW t \in Threads,
         \/ \E f \in Fingerprints : BeginLookup(t, f)
         \/ ProbeNext(t) \/ ProbeHit(t) \/ ProbeMiss(t)
         \/ CopyOut(t) \/ CopyOutFault(t)
  PROVE  StoreInv'
<1> DEFINE stages == {"idle", "fault"} \cup LookupStages
<1>0. stages \cap InsertStages = {} /\ Filling \subseteq InsertStages
  BY DEF InsertStages, LookupStages, Filling
<1>1. UNCHANGED <<sharedVars, cache_lock>>
  BY DEF BeginLookup, ProbeNext, ProbeHit, ProbeMiss, CopyOut, CopyOutFault
<1>2. pc[t] \in stages /\ pc'[t] \in stages
  BY DEF BeginLookup, ProbeNext, ProbeHit, ProbeMiss, CopyOut, CopyOutFault, Goto,
         LookupStages, TypeInv, TypeOK
<1>3. \A u \in Threads : u # t =>
        /\ pc'[u] = pc[u]
        /\ fp'[u] = fp[u]
        /\ i'[u] = i[u]
        /\ next_empty'[u] = next_empty[u]
        /\ entry'[u] = entry[u]
  BY DEF BeginLookup, ProbeNext, ProbeHit, ProbeMiss, CopyOut, CopyOutFault, Goto,
         TypeInv, TypeOK
<1> HIDE DEF stages
<1>4. LockInv'
  <2> SUFFICES ASSUME NEW u \in Threads
               PROVE  cache_lock = u <=> pc'[u] \in InsertStages
    BY <1>1 DEF LockInv
  <2>1. cache_lock = u <=> pc[u] \in InsertStages
    BY DEF StoreInv, LockInv
  <2>2. CASE u = t
    BY <1>0, <1>2, <2>1, <2>2
  <2>3. CASE u # t
    BY <1>3, <2>1, <2>3
  <2> QED BY <2>2, <2>3
<1>5. \A u \in Threads : pc'[u] \in Filling => u # t
  BY <1>0, <1>2
<1> QED BY <1>1, <1>3, <1>4, <1>5, StoreFrame

(* Every step preserves the invariant of the shared memory. *)
LEMMA StoreNext == TypeInv /\ StoreInv /\ [Next]_vars => StoreInv'
<1> SUFFICES ASSUME TypeInv, StoreInv, [Next]_vars PROVE StoreInv'
  OBVIOUS
<1> USE CacheAssumption
<1>1. ASSUME NEW t \in Threads,
             \/ TestSkip(t) \/ TryLock(t)
             \/ CacheIsFull(t) /\ pc[t] \in InsertStages
      PROVE  StoreInv'
  <2>1. LockInv'
    BY <1>1 DEF TestSkip, TryLock, CacheIsFull, Goto, StoreInv, LockInv, InsertStages,
                TypeInv, TypeOK
  <2>2. \A u \in Threads : pc'[u] \in Filling =>
           /\ pc'[u] = pc[u]
           /\ fp'[u] = fp[u]
           /\ i'[u] = i[u]
           /\ next_empty'[u] = next_empty[u]
           /\ entry'[u] = entry[u]
    BY <1>1 DEF TestSkip, TryLock, CacheIsFull, Goto, Filling, TypeInv, TypeOK
  <2> QED BY <1>1, <2>1, <2>2, StoreFrame DEF TestSkip, TryLock, CacheIsFull
<1>2. ASSUME NEW t \in Threads,
             TableIsFull(t) \/ \E f \in Fingerprints : NoFreePages(t, f)
      PROVE  StoreInv'
  BY <1>1, <1>2 DEF TableIsFull, NoFreePages, InsertStages
<1>3. ASSUME NEW t \in Threads, Unlock(t) PROVE StoreInv'
  <2>1. {t} \in SUBSET Threads /\ FreshLocals({t}) /\ UNCHANGED sharedVars
    BY <1>3 DEF Unlock
  <2>2. \A u \in Threads : cache_lock' = u <=> cache_lock = u /\ u \notin {t}
    BY <1>3 DEF Unlock, StoreInv, LockInv, InsertStages
  <2> QED BY <2>1, <2>2, StoreLeave
<1>4. ASSUME NEW t \in Threads, FindDuplicate(t) PROVE StoreInv'
  <2>1. /\ Goto(t, "insert") /\ UNCHANGED <<sharedVars, cache_lock>>
        /\ pc[t] = "find"
        /\ "insert" \in InsertStages /\ "find" \in InsertStages
        /\ "insert" \notin Filling
    BY <1>4 DEF FindDuplicate, InsertStages, Filling
  <2>2. LockInv'
    BY <2>1, HolderGoesOn DEF StoreInv, TypeInv, TypeOK
  <2>3. \A u \in Threads : pc'[u] \in Filling => pc'[u] = pc[u]
    BY <2>1 DEF Goto, TypeInv, TypeOK
  <2> QED BY <1>4, <2>1, <2>2, <2>3, StoreFrame DEF FindDuplicate
<1>5. ASSUME NEW t \in Threads, EndLookup(t) \/ TryLockFails(t) \/ SetSkip(t)
      PROVE  StoreInv'
  <2>1. {t} \in SUBSET Threads /\ FreshLocals({t}) /\ UNCHANGED sharedVars
    BY <1>5 DEF EndLookup, TryLockFails, SetSkip
  <2>2. \A u \in Threads : cache_lock' = u <=> cache_lock = u /\ u \notin {t}
    BY <1>5 DEF EndLookup, TryLockFails, SetSkip, StoreInv, LockInv, InsertStages
  <2> QED BY <2>1, <2>2, StoreLeave
<1>6. ASSUME NEW p \in Procs, Crash(p) PROVE StoreInv'
  <2> DEFINE T == {t \in Threads : ProcOf[t] = p}
  <2>1. T \in SUBSET Threads /\ FreshLocals(T) /\ UNCHANGED sharedVars
    BY <1>6 DEF Crash
  <2>2. cache_lock' = IF cache_lock \in T THEN Orphan ELSE cache_lock
    BY <1>6 DEF Crash
  <2> HIDE DEF T
  <2>3. \A u \in Threads : cache_lock' = u <=> cache_lock = u /\ u \notin T
    BY <2>2
  <2> QED BY <2>1, <2>3, StoreLeave
<1>7. CASE UNCHANGED vars
  <2>1. LockInv'
    BY <1>7 DEF StoreInv, LockInv, vars, localVars
  <2> QED BY <1>7, <2>1, StoreFrame DEF vars, localVars
<1> QED
  BY <1>1, <1>2, <1>3, <1>4, <1>5, <1>6, <1>7, StoreGetFreePages, StoreCopyIn,
     StoreFindInsertInd, StoreWriteItem, StoreClearBit, StoreLookup
     DEF Next, InsertStep, LookupStep

(* With fewer pages than slots there is always an empty slot. *)
LEMMA StoreNeverFull ==
  ASSUME TypeInv, StoreInv, NumPages < TableSize
  PROVE  TableNeverFull
<1> USE TableAssumption, CacheAssumption
<1>1. /\ cnt \in Nat /\ cnt <= Used /\ cnt + Cardinality(is_empty) = TableSize
      /\ num_free_pages \in 0 .. NumPages
  BY DEF TypeInv, TypeOK, StoreInv, CountInv
<1>2. cnt < TableSize
  BY <1>1 DEF Used
<1>3. is_empty = {} => Cardinality(is_empty) = 0
  BY FS_EmptySet
<1> QED BY <1>1, <1>2, <1>3 DEF TableNeverFull

(* No step touches what is published. *)
LEMMA PublishedStaysNext ==
  ASSUME TypeInv, StoreInv, [Next]_vars
  PROVE  PublishedStays /\ is_empty' \subseteq is_empty
<1> USE TableAssumption, CacheAssumption
<1>1. CASE UNCHANGED <<keys, entries, is_empty, pages>>
  BY <1>1 DEF PublishedStays
<1>2. ASSUME NEW t \in Threads, CopyIn(t)
      PROVE  PublishedStays /\ is_empty' \subseteq is_empty
  <2> DEFINE n == NumPagesOf[fp[t]]
             p == entry[t].page[i[t]]
  <2>1. /\ pc[t] = "copy_in" /\ pc[t] \in Filling /\ n \in Nat \ {0}
        /\ Used \in Nat /\ i[t] \in Nat
    BY <1>2 DEF CopyIn, Filling, TypeInv, TypeOK, FpInv, Used
  <2>2. Holds(t) /\ i[t] \in 1 .. n
    BY <2>1 DEF StoreInv, HolderInv, CopiedInv, Copied
  <2>3. p = (Used - n) + (i[t] - 1)
    BY <2>1, <2>2 DEF Holds
  <2> HIDE DEF p
  <2> SUFFICES ASSUME NEW s \in Slots \ is_empty, NEW k \in 1 .. entries[s].size
               PROVE  pages'[entries[s].page[k]] = pages[entries[s].page[k]]
    BY <1>2 DEF CopyIn, PublishedStays
  <2>4. entries[s] \in Entry /\ entries[s].size <= ContentMaxPages
        /\ entries[s].page[k] < Used - n
    BY <2>1 DEF TypeInv, TypeOK, StoreInv, BelowInv
  <2>5. entries[s].page[k] \in Pages
    BY <2>4 DEF Entry, PageInds
  <2>6. entries[s].page[k] # p
    BY <2>1, <2>2, <2>3, <2>4, <2>5 DEF Pages
  <2>7. pages' = [pages EXCEPT ![p] = <<fp[t], i[t]>>]
    BY <1>2 DEF CopyIn, p
  <2> QED BY <2>5, <2>6, <2>7 DEF TypeInv, TypeOK
<1>3. ASSUME NEW t \in Threads, WriteKey(t) \/ WriteSize(t) \/ WritePages(t)
      PROVE  PublishedStays /\ is_empty' \subseteq is_empty
  <2>1. pc[t] \in Writing
    BY <1>3 DEF WriteKey, WriteSize, WritePages, Writing
  <2>2. next_empty[t] \in is_empty
    BY <2>1 DEF StoreInv, WritingInv, Writes
  <2>3. \A s \in Slots \ is_empty : keys'[s] = keys[s]
    BY <1>3, <2>2 DEF WriteKey, WriteSize, WritePages, TypeInv, TypeOK
  <2>4. \A s \in Slots \ is_empty : entries'[s] = entries[s]
    BY <1>3, <2>2 DEF WriteKey, WriteSize, WritePages, TypeInv, TypeOK
  <2>5. UNCHANGED <<is_empty, pages>>
    BY <1>3 DEF WriteKey, WriteSize, WritePages
  <2> QED BY <2>3, <2>4, <2>5 DEF PublishedStays
<1>4. ASSUME NEW t \in Threads, ClearBit(t)
      PROVE  PublishedStays /\ is_empty' \subseteq is_empty
  BY <1>4 DEF ClearBit, PublishedStays
<1>5. ASSUME NEW t \in Threads,
             \/ TestSkip(t) \/ TryLock(t) \/ TryLockFails(t) \/ SetSkip(t) \/ Unlock(t)
             \/ TableIsFull(t) \/ FindDuplicate(t) \/ FindInsertInd(t)
             \/ \E f \in Fingerprints : \/ NoFreePages(t, f) \/ GetFreePages(t, f)
                                        \/ BeginLookup(t, f)
      PROVE  UNCHANGED <<keys, entries, is_empty, pages>>
  BY <1>5 DEF TestSkip, TryLock, TryLockFails, SetSkip, Unlock, TableIsFull, FindDuplicate, FindInsertInd, NoFreePages,
              GetFreePages, BeginLookup, CacheIsFull, sharedVars
<1>6. ASSUME NEW t \in Threads, LookupStep(t)
      PROVE  UNCHANGED <<keys, entries, is_empty, pages>>
  BY <1>6 DEF LookupStep, ProbeNext, ProbeHit, ProbeMiss, CopyOut, CopyOutFault,
              EndLookup, sharedVars
<1>7. ASSUME NEW p \in Procs, Crash(p)
      PROVE  UNCHANGED <<keys, entries, is_empty, pages>>
  BY <1>7 DEF Crash, sharedVars
<1>8. CASE UNCHANGED vars
  BY <1>1, <1>8 DEF vars, sharedVars
<1> QED
  BY <1>1, <1>2, <1>3, <1>4, <1>5, <1>6, <1>7, <1>8 DEF Next, InsertStep

-----------------------------------------------------------------------------
(* What an unlocked lookup relies on.                                      *)

(* A lookup that is still probing looks at a slot before the empty one it  *)
(* computed, or at that one.                                               *)
LEMMA SlotAtBefore ==
  ASSUME TypeInv, NEW t \in Threads, pc[t] \in LookupStages, ~ ProbeEnds(t),
         SlotAt(t) # next_empty[t]
  PROVE  SlotAt(t) \in Before(t)
<1> USE TableAssumption
<1>1. /\ HashInd[fp[t]] \in Slots /\ next_empty[t] \in 0 .. TableSize /\ i[t] \in Nat
  BY DEF TypeInv, TypeOK, FpInv, LookupStages, Slots
<1>2. i[t] < ItemsToCheck(HashInd[fp[t]], next_empty[t])
  BY <1>1 DEF ProbeEnds, ItemsToCheck, Slots
<1>3. SlotAt(t) \in Slots
  BY <1>1, <1>2, ProbeSlotInTable DEF SlotAt
<1>4. /\ ProbeDist(HashInd[fp[t]], SlotAt(t)) = i[t]
      /\ next_empty[t] # TableSize => i[t] < ProbeDist(HashInd[fp[t]], next_empty[t])
  BY <1>1, <1>2, ProbedAreBefore DEF SlotAt
<1> QED BY <1>3, <1>4 DEF Before

(* A thread in the middle of a lookup made the step itself, or the step    *)
(* left its locals alone.                                                  *)
SameLocals(t) ==
  /\ pc'[t] = pc[t] /\ fp'[t] = fp[t] /\ i'[t] = i[t]
  /\ next_empty'[t] = next_empty[t] /\ entry'[t] = entry[t]
  /\ buf'[t] = buf[t] /\ there'[t] = there[t]

OwnLookupStep(t) ==
  \/ \E f \in Fingerprints : BeginLookup(t, f)
  \/ ProbeNext(t) \/ ProbeHit(t) \/ ProbeMiss(t) \/ CopyOut(t)

(* Every thread has an application buffer. *)
BufInv == buf = [t \in Threads |-> buf[t]]

(* The application buffers exist from the start, ... *)
LEMMA BufInit == Init => BufInv
BY DEF Init, BufInv

(* ... and every step keeps one for each thread. *)
LEMMA BufNext == BufInv /\ [Next]_vars => BufInv'
<1> SUFFICES ASSUME BufInv, [Next]_vars PROVE BufInv'
  OBVIOUS
<1>1. ASSUME NEW T, FreshLocals(T) PROVE BufInv'
  BY <1>1 DEF FreshLocals, BufInv
<1>2. ASSUME NEW t \in Threads, CopyOut(t) PROVE BufInv'
  BY <1>2 DEF CopyOut, BufInv
<1>3. CASE UNCHANGED buf
  BY <1>3 DEF BufInv
<1>4. ASSUME NEW t \in Threads, TestSkip(t) \/ InsertStep(t)
      PROVE  FreshLocals({t}) \/ UNCHANGED buf
  BY <1>4 DEF TestSkip, TryLock, TryLockFails, SetSkip, InsertStep, NoFreePages, GetFreePages, CopyIn, FindDuplicate,
              TableIsFull, FindInsertInd, WriteKey, WriteSize, WritePages, ClearBit,
              Unlock, CacheIsFull
<1>5. ASSUME NEW t \in Threads,
             LookupStep(t) \/ \E f \in Fingerprints : BeginLookup(t, f)
      PROVE  FreshLocals({t}) \/ CopyOut(t) \/ UNCHANGED buf
  BY <1>5 DEF LookupStep, BeginLookup, ProbeNext, ProbeHit, ProbeMiss, CopyOutFault,
              EndLookup
<1>6. ASSUME NEW p \in Procs, Crash(p)
      PROVE  FreshLocals({t \in Threads : ProcOf[t] = p})
  BY <1>6 DEF Crash
<1>7. CASE UNCHANGED vars
  BY <1>3, <1>7 DEF vars, localVars
<1> QED BY <1>1, <1>2, <1>3, <1>4, <1>5, <1>6, <1>7 DEF Next

(* After any step, a thread inside a lookup has made one of the five steps *)
(* of a lookup, or has the locals it had before.                           *)
LEMMA ReaderCases ==
  ASSUME TypeInv, BufInv, [Next]_vars, NEW t \in Threads, pc'[t] \in LookupStages
  PROVE  SameLocals(t) \/ OwnLookupStep(t)
<1> USE DEF SameLocals
<1>1. ASSUME NEW T, FreshLocals(T) PROVE SameLocals(t)
  BY <1>1 DEF FreshLocals, LookupStages
<1>2. ASSUME NEW u \in Threads, TestSkip(u) \/ InsertStep(u) PROVE SameLocals(t)
  <2>1. CASE TestSkip(u) \/ TryLock(u)
    BY <2>1 DEF TestSkip, TryLock, Goto, LookupStages, TypeInv, TypeOK
  <2>2. CASE Unlock(u) \/ TryLockFails(u) \/ SetSkip(u)
    BY <1>1, <2>2 DEF Unlock, TryLockFails, SetSkip
  <2>3. CASE \E f \in Fingerprints : GetFreePages(u, f)
    BY <2>3 DEF GetFreePages, Goto, LookupStages, TypeInv, TypeOK
  <2>4. CASE CopyIn(u)
    BY <2>4 DEF CopyIn, Goto, LookupStages, TypeInv, TypeOK
  <2>5. CASE FindDuplicate(u) \/ FindInsertInd(u)
    BY <2>5 DEF FindDuplicate, FindInsertInd, Goto, LookupStages, TypeInv, TypeOK
  <2>6. CASE WriteKey(u) \/ WriteSize(u) \/ WritePages(u) \/ ClearBit(u)
    BY <2>6 DEF WriteKey, WriteSize, WritePages, ClearBit, Goto, LookupStages,
                TypeInv, TypeOK
  <2>7. CASE TableIsFull(u) \/ \E f \in Fingerprints : NoFreePages(u, f)
    BY <2>7 DEF TableIsFull, NoFreePages, CacheIsFull, Goto, LookupStages, TypeInv,
                TypeOK
  <2> QED BY <1>2, <2>1, <2>2, <2>3, <2>4, <2>5, <2>6, <2>7 DEF InsertStep
<1>3. ASSUME NEW u \in Threads,
             LookupStep(u) \/ \E f \in Fingerprints : BeginLookup(u, f)
      PROVE  SameLocals(t) \/ OwnLookupStep(t)
  <2>1. CASE \E f \in Fingerprints : BeginLookup(u, f)
    BY <2>1, ZenonT(40) DEF BeginLookup, Goto, TypeInv, TypeOK, OwnLookupStep
  <2>2. CASE ProbeNext(u) \/ ProbeHit(u) \/ ProbeMiss(u)
    BY <2>2 DEF ProbeNext, ProbeHit, ProbeMiss, Goto, TypeInv, TypeOK, OwnLookupStep
  <2>3. CASE CopyOut(u)
    BY <2>3 DEF CopyOut, Goto, TypeInv, TypeOK, BufInv, OwnLookupStep
  <2>4. CASE CopyOutFault(u)
    BY <2>4 DEF CopyOutFault, Goto, LookupStages, TypeInv, TypeOK
  <2>5. CASE EndLookup(u)
    BY <1>1, <2>5 DEF EndLookup
  <2> QED BY <1>3, <2>1, <2>2, <2>3, <2>4, <2>5 DEF LookupStep
<1>4. ASSUME NEW p \in Procs, Crash(p) PROVE SameLocals(t)
  BY <1>1, <1>4 DEF Crash
<1>5. CASE UNCHANGED vars
  BY <1>5 DEF vars, localVars
<1> QED BY <1>2, <1>3, <1>4, <1>5 DEF Next

(* The steps of others leave alone what a lookup relies on. *)
LEMMA ReliesOthers ==
  ASSUME TypeInv, NEW t \in Threads, pc[t] \in LookupStages, Relies(t),
         PublishedStays, is_empty' \subseteq is_empty, SameLocals(t)
  PROVE  Relies(t)'
<1>1. Before(t)' = Before(t) /\ SlotAt(t)' = SlotAt(t) /\ ProbeEnds(t)' = ProbeEnds(t)
  BY DEF SameLocals, Before, SlotAt, ProbeEnds
<1>2. Before(t) \cap is_empty = {} /\ Before(t) \subseteq Slots
  BY DEF Relies, Before
<1>3. \A s \in Before(t) : keys'[s] = keys[s] /\ entries'[s] = entries[s]
  BY <1>2 DEF PublishedStays
<1>4. /\ (Before(t) \cap is_empty = {})'
      /\ NumPages < TableSize => next_empty'[t] # TableSize
      /\ pc'[t] = "missing" /\ next_empty'[t] # TableSize => ~ there'[t]
      /\ pc'[t] \in {"copy_out", "populated"} => ~ ProbeEnds(t)'
  BY <1>1, <1>2 DEF Relies, SameLocals
<1>5. ASSUME pc'[t] = "probe", there'[t], next_empty'[t] # TableSize
      PROVE  \E s \in Before(t)' : /\ keys'[s] = fp'[t]
                                   /\ i'[t] <= ProbeDist(HashInd[fp'[t]], s)
  <2>1. PICK s \in Before(t) : /\ keys[s] = fp[t]
                               /\ i[t] <= ProbeDist(HashInd[fp[t]], s)
    BY <1>5 DEF Relies, SameLocals
  <2> QED BY <1>1, <1>3, <2>1 DEF SameLocals
<1>6. ASSUME pc'[t] = "copy_out", SlotAt(t)' # next_empty'[t]
      PROVE  entry'[t] = entries'[SlotAt(t)'] /\ keys'[SlotAt(t)'] = fp'[t]
  <2>1. pc[t] = "copy_out" /\ SlotAt(t) # next_empty[t] /\ ~ ProbeEnds(t)
    BY <1>1, <1>6 DEF Relies, SameLocals
  <2>2. SlotAt(t) \in Before(t)
    BY <2>1, SlotAtBefore
  <2> QED BY <1>1, <1>3, <2>1, <2>2 DEF Relies, SameLocals
<1> QED BY <1>4, <1>5, <1>6 DEF Relies

(* A lookup starts out with the first empty slot behind the hash: every    *)
(* slot before it is in use, and a published fingerprint is in one of them.*)
LEMMA ReliesBegin ==
  ASSUME TypeInv, StoreInv, NEW t \in Threads, NEW f \in Fingerprints,
         BeginLookup(t, f)
  PROVE  Relies(t)'
<1> USE TableAssumption
<1>1. PICK n \in 0 .. TableSize : /\ IsNextInd(is_empty, HashInd[f], n)
                                  /\ next_empty' = [next_empty EXCEPT ![t] = n]
  BY DEF BeginLookup
<1>2. /\ next_empty'[t] = n /\ fp'[t] = f /\ i'[t] = 0 /\ pc'[t] = "probe"
      /\ there'[t] <=> f \in Published
      /\ UNCHANGED sharedVars
  BY <1>1 DEF BeginLookup, Goto, TypeInv, TypeOK
<1>3. is_empty \subseteq Slots /\ HashInd[f] \in Slots
  BY DEF TypeInv, TypeOK, Slots
<1>4. Before(t)' = {s \in Slots : \/ n = TableSize
                                  \/ ProbeDist(HashInd[f], s) < ProbeDist(HashInd[f], n)}
  BY <1>2 DEF Before
<1>5. n = TableSize <=> is_empty = {}
  BY <1>1, <1>3 DEF IsNextInd, Slots
<1>6. Before(t)' \cap is_empty = {}
  <2> SUFFICES ASSUME NEW s \in Before(t)', s \in is_empty PROVE FALSE
    OBVIOUS
  <2>1. s \in Slots /\ n \in Slots /\ ProbeDist(HashInd[f], s) < ProbeDist(HashInd[f], n)
    BY <1>1, <1>3, <1>4, <1>5 DEF IsNextInd
  <2>2. ProbeDist(HashInd[f], n) <= ProbeDist(HashInd[f], s)
    BY <1>1, <1>5 DEF IsNextInd
  <2>3. ProbeDist(HashInd[f], n) \in Int /\ ProbeDist(HashInd[f], s) \in Int
    BY <1>3, <2>1, ProbeDistInjective
  <2> QED BY <2>1, <2>2, <2>3
<1>7. NumPages < TableSize => n # TableSize
  BY <1>5, StoreNeverFull DEF TableNeverFull
<1>8. ASSUME f \in Published, n # TableSize
      PROVE  \E s \in Before(t)' : keys[s] = f /\ 0 <= ProbeDist(HashInd[f], s)
  <2>1. PICK s \in Slots \ is_empty : keys[s] = f
    BY <1>8 DEF Published
  <2>2. ProbeDist(HashInd[f], s) < ProbeDist(HashInd[f], n)
    BY <1>1, <1>5, <1>8, <2>1 DEF StoreInv, ProbeInv, IsNextInd
  <2>3. 0 <= ProbeDist(HashInd[f], s)
    BY <1>3, <2>1, ProbeDistInjective
  <2> QED BY <1>4, <2>1, <2>2, <2>3
<1> QED BY <1>2, <1>6, <1>7, <1>8 DEF Relies, sharedVars

(* The probe cannot run past the slot that holds the fingerprint: at the   *)
(* iteration that equals its distance the keys would have been equal.      *)
LEMMA ReliesProbeNext ==
  ASSUME TypeInv, NEW t \in Threads, Relies(t), ProbeNext(t)
  PROVE  Relies(t)'
<1> USE TableAssumption
<1> DEFINE h == HashInd[fp[t]]
<1>1. /\ pc[t] = "probe" /\ h \in Slots /\ i[t] \in Nat
      /\ next_empty[t] \in 0 .. TableSize
  BY DEF ProbeNext, TypeInv, TypeOK, FpInv, Slots
<1>2. /\ i'[t] = i[t] + 1
      /\ UNCHANGED <<keys, is_empty, pc, fp, next_empty, there>>
  BY DEF ProbeNext, TypeInv, TypeOK, sharedVars
<1>3. Before(t)' = Before(t)
  BY <1>2 DEF Before
<1>4. ASSUME there[t], next_empty[t] # TableSize
      PROVE  \E s \in Before(t) : /\ keys[s] = fp[t]
                                  /\ i[t] + 1 <= ProbeDist(h, s)
  <2>1. PICK s \in Before(t) : keys[s] = fp[t] /\ i[t] <= ProbeDist(h, s)
    BY <1>1, <1>4 DEF Relies
  <2>2. /\ s \in Slots /\ next_empty[t] \in Slots
        /\ ProbeDist(h, s) < ProbeDist(h, next_empty[t])
    BY <1>1, <1>4, <2>1 DEF Before, Slots
  <2>3. ProbeDist(h, s) \in Nat /\ ProbeSlot(h, ProbeDist(h, s)) = s
    BY <1>1, <2>2, BeforeAreProbed
  <2>4. i[t] # ProbeDist(h, s)
    BY <2>1, <2>3 DEF ProbeNext, SlotAt
  <2>5. i[t] + 1 <= ProbeDist(h, s)
    BY <1>1, <2>1, <2>3, <2>4
  <2> QED BY <2>1, <2>5
<1> HIDE DEF h
<1>5. (Before(t) \cap is_empty = {})' /\ (NumPages < TableSize => next_empty'[t] # TableSize)
  BY <1>2, <1>3 DEF Relies
<1> QED BY <1>1, <1>2, <1>3, <1>4, <1>5 DEF Relies, h

(* A hit takes over the entry of the slot. *)
LEMMA ReliesProbeHit ==
  ASSUME TypeInv, NEW t \in Threads, Relies(t), ProbeHit(t)
  PROVE  Relies(t)'
<1>1. /\ pc'[t] = "copy_out" /\ entry'[t] = entries[SlotAt(t)]
      /\ ~ ProbeEnds(t) /\ keys[SlotAt(t)] = fp[t]
      /\ UNCHANGED <<keys, entries, is_empty, fp, i, next_empty, there>>
  BY DEF ProbeHit, Goto, TypeInv, TypeOK, sharedVars
<1>2. Before(t)' = Before(t) /\ SlotAt(t)' = SlotAt(t) /\ ProbeEnds(t)' = ProbeEnds(t)
  BY <1>1 DEF Before, SlotAt, ProbeEnds
<1> QED BY <1>1, <1>2 DEF Relies

(* A probe that ends without a hit has passed every slot in which a        *)
(* fingerprint published at its start could be.                            *)
LEMMA ReliesProbeMiss ==
  ASSUME TypeInv, NEW t \in Threads, Relies(t), ProbeMiss(t)
  PROVE  Relies(t)'
<1> USE TableAssumption
<1> DEFINE h == HashInd[fp[t]]
<1>1. /\ pc[t] = "probe" /\ h \in Slots /\ i[t] \in Nat
      /\ next_empty[t] \in 0 .. TableSize /\ ProbeEnds(t)
  BY DEF ProbeMiss, TypeInv, TypeOK, FpInv, Slots
<1>2. /\ pc'[t] = "missing"
      /\ UNCHANGED <<is_empty, fp, next_empty, there>>
  BY DEF ProbeMiss, Goto, TypeInv, TypeOK, sharedVars
<1>3. Before(t)' = Before(t)
  BY <1>2 DEF Before
<1>4. ASSUME there[t], next_empty[t] # TableSize PROVE FALSE
  <2>1. PICK s \in Before(t) : keys[s] = fp[t] /\ i[t] <= ProbeDist(h, s)
    BY <1>1, <1>4 DEF Relies
  <2>2. /\ s \in Slots /\ next_empty[t] \in Slots
        /\ ProbeDist(h, s) < ProbeDist(h, next_empty[t])
    BY <1>1, <1>4, <2>1 DEF Before, Slots
  <2>3. ProbeDist(h, s) \in Nat /\ ProbeDist(h, s) < ItemsToCheck(h, next_empty[t])
    BY <1>1, <2>2, BeforeAreProbed
  <2>4. i[t] >= ItemsToCheck(h, next_empty[t]) /\ ItemsToCheck(h, next_empty[t]) \in Int
    BY <1>1 DEF ProbeEnds, ItemsToCheck, Slots
  <2> QED BY <1>1, <2>1, <2>3, <2>4
<1> QED BY <1>2, <1>3, <1>4 DEF Relies

(* The copy leaves the probe where it was. *)
LEMMA ReliesCopyOut ==
  ASSUME TypeInv, NEW t \in Threads, Relies(t), CopyOut(t)
  PROVE  Relies(t)'
<1>1. /\ pc[t] = "copy_out" /\ pc'[t] = "populated"
      /\ UNCHANGED <<is_empty, fp, i, next_empty, there>>
  BY DEF CopyOut, Goto, TypeInv, TypeOK, sharedVars
<1>2. Before(t)' = Before(t) /\ ProbeEnds(t)' = ProbeEnds(t)
  BY <1>1 DEF Before, ProbeEnds
<1> QED BY <1>1, <1>2 DEF Relies

(* What an unlocked lookup relies on holds after every step. *)
LEMMA ReaderNext ==
  ASSUME TypeInv, BufInv, StoreInv, ReaderInv, [Next]_vars
  PROVE  ReaderInv'
<1> SUFFICES ASSUME NEW t \in Threads, pc'[t] \in LookupStages PROVE Relies(t)'
  BY DEF ReaderInv
<1>1. SameLocals(t) \/ OwnLookupStep(t)
  BY ReaderCases
<1>2. CASE SameLocals(t)
  <2>1. pc[t] \in LookupStages /\ Relies(t)
    BY <1>2 DEF SameLocals, ReaderInv
  <2> QED BY <1>2, <2>1, PublishedStaysNext, ReliesOthers
<1>3. CASE \E f \in Fingerprints : BeginLookup(t, f)
  BY <1>3, ReliesBegin
<1>4. CASE ProbeNext(t) \/ ProbeHit(t) \/ ProbeMiss(t) \/ CopyOut(t)
  <2>1. pc[t] \in LookupStages /\ Relies(t)
    BY <1>4 DEF ReaderInv, LookupStages, ProbeNext, ProbeHit, ProbeMiss, CopyOut
  <2> QED
    BY <1>4, <2>1, ReliesProbeNext, ReliesProbeHit, ReliesProbeMiss, ReliesCopyOut
<1> QED BY <1>1, <1>2, <1>3, <1>4 DEF OwnLookupStep

(* copy_fingerprint_content runs on an entry that is published, so that    *)
(* what it copies is the content of the fingerprint.                       *)
LEMMA LookupIntactNext ==
  ASSUME TypeInv, BufInv, StoreInv, ReaderInv, LookupIntact, [Next]_vars
  PROVE  LookupIntact'
<1> SUFFICES ASSUME NEW t \in Threads, pc'[t] = "populated", SlotAt(t)' # next_empty'[t]
             PROVE  buf'[t] = [k \in 1 .. NumPagesOf[fp'[t]] |-> <<fp'[t], k>>]
  BY DEF LookupIntact
<1>1. SameLocals(t) \/ OwnLookupStep(t)
  BY ReaderCases DEF LookupStages
<1>2. CASE SameLocals(t)
  <2>1. SlotAt(t)' = SlotAt(t)
    BY <1>2 DEF SameLocals, SlotAt
  <2> QED BY <1>2, <2>1 DEF SameLocals, LookupIntact
<1>3. CASE CopyOut(t)
  <2>1. /\ pc[t] = "copy_out" /\ UNCHANGED <<fp, i, next_empty>>
        /\ buf'[t] = [k \in 1 .. entry[t].size |-> pages[entry[t].page[k]]]
    BY <1>3 DEF CopyOut, BufInv
  <2>2. Relies(t) /\ pc[t] \in LookupStages /\ SlotAt(t) # next_empty[t]
    BY <2>1 DEF ReaderInv, LookupStages, SlotAt
  <2>3. /\ ~ ProbeEnds(t)
        /\ entry[t] = entries[SlotAt(t)] /\ keys[SlotAt(t)] = fp[t]
    BY <2>1, <2>2 DEF Relies
  <2>4. SlotAt(t) \in Slots \ is_empty
    BY <2>2, <2>3, SlotAtBefore DEF Relies, Before
  <2>5. HoldsContent(entry[t], fp[t])
    BY <2>3, <2>4 DEF StoreInv, PublishedIntact
  <2> QED BY <2>1, <2>5 DEF HoldsContent
<1>4. ASSUME \/ \E f \in Fingerprints : BeginLookup(t, f)
             \/ ProbeNext(t) \/ ProbeHit(t) \/ ProbeMiss(t)
      PROVE  FALSE
  BY <1>4 DEF BeginLookup, ProbeNext, ProbeHit, ProbeMiss, Goto, TypeInv, TypeOK
<1> QED BY <1>1, <1>2, <1>3, <1>4 DEF OwnLookupStep

-----------------------------------------------------------------------------
(* The theorems.                                                           *)

(* All that the argument needs about a state. *)
FullInv == TypeInv /\ BufInv /\ CacheInv

(* Nothing is published at first, and nobody looks anything up. *)
LEMMA FullInit == Init => FullInv
<1> SUFFICES ASSUME Init PROVE FullInv
  OBVIOUS
<1>1. ReaderInv /\ LookupIntact
  BY DEF Init, ReaderInv, LookupIntact, LookupStages
<1> QED BY <1>1, TypeInit, BufInit, StoreInit DEF FullInv, CacheInv

(* Every step of every thread, and every crash, preserves the invariant. *)
LEMMA FullNext == FullInv /\ [Next]_vars => FullInv'
<1> SUFFICES ASSUME FullInv, [Next]_vars PROVE FullInv'
  OBVIOUS
<1>1. TypeInv /\ BufInv /\ StoreInv /\ ReaderInv /\ LookupIntact
  BY DEF FullInv, CacheInv
<1>2. TypeInv' /\ BufInv' /\ StoreInv'
  BY <1>1, TypeNext, BufNext, StoreNext
<1>3. ReaderInv' /\ LookupIntact'
  BY <1>1, ReaderNext, LookupIntactNext
<1> QED BY <1>2, <1>3 DEF FullInv, CacheInv

(* The inductive invariant holds in every reachable state. *)
LEMMA FullInvariant == Spec => []FullInv
BY FullInit, FullNext, PTL DEF Spec

(* What the insert stages keep true of the shared memory, and what an      *)
(* unlocked lookup relies on, holds in every reachable state.              *)
THEOREM CacheInvariant == Spec => []CacheInv
<1>1. FullInv => CacheInv
  BY DEF FullInv
<1> QED BY <1>1, FullInvariant, PTL

(* A fingerprint that insert_fingerprint published leads to its whole      *)
(* content, however many threads, crashes and full caches there are.       *)
THEOREM PublishedIsIntact == Spec => []PublishedIntact
<1>1. FullInv => PublishedIntact
  BY DEF FullInv, CacheInv, StoreInv
<1> QED BY <1>1, FullInvariant, PTL

(* insert_fingerprint never publishes a fingerprint twice.  It rests on    *)
(* ProbeInv: without removals the search under the lock is exhaustive.     *)
THEOREM KeysAreUnique == Spec => []UniqueKeys
<1>1. FullInv => UniqueKeys
  BY DEF FullInv, CacheInv, StoreInv
<1> QED BY <1>1, FullInvariant, PTL

(* No step touches the slot or the pages of a published fingerprint, which *)
(* is why a lookup needs no lock for them.                                 *)
THEOREM PublishedIsImmutable == Spec => EntriesImmutable
<1>1. FullInv /\ [Next]_vars => PublishedStays
  <2> SUFFICES ASSUME FullInv, [Next]_vars PROVE PublishedStays
    OBVIOUS
  <2> QED BY PublishedStaysNext DEF FullInv, CacheInv
<1>2. FullInv /\ [Next]_vars => [PublishedStays]_vars
  BY <1>1
<1> QED BY <1>2, FullInvariant, PTL DEF Spec, EntriesImmutable

(* An unlocked lookup that hits a slot other than the empty one it         *)
(* computed first delivers the content of its fingerprint.                 *)
THEOREM LookupIsIntact == Spec => []LookupIntact
<1>1. FullInv => LookupIntact
  BY DEF FullInv, CacheInv
<1> QED BY <1>1, FullInvariant, PTL

(* With more slots than pages, as config.h has it, the table is never      *)
(* full: every published entry owns a page of its own.                     *)
THEOREM TableIsNeverFull ==
  ASSUME NumPages < TableSize
  PROVE  Spec => []TableNeverFull
<1>1. FullInv => TableNeverFull
  BY StoreNeverFull DEF FullInv, CacheInv
<1> QED BY <1>1, FullInvariant, PTL

(* With more slots than pages, lookup_fingerprint never reports missing    *)
(* what was published when it began.                                       *)
THEOREM LookupIsComplete ==
  ASSUME NumPages < TableSize
  PROVE  Spec => []LookupComplete
<1>1. FullInv => LookupComplete
  BY DEF FullInv, CacheInv, ReaderInv, Relies, LookupComplete, LookupStages
<1> QED BY <1>1, FullInvariant, PTL

-----------------------------------------------------------------------------
(* The scan of the bit vector by words.                                    *)

(* Quotient and remainder. *)
LEMMA DivMod ==
  ASSUME NEW a \in Nat, NEW d \in Nat \ {0}
  PROVE  /\ a \div d \in Nat /\ a % d \in 0 .. d - 1
         /\ a = d * (a \div d) + (a % d)
<1>1. a \div d \in Int /\ a % d \in 0 .. d - 1 OBVIOUS
<1>2. a = d * (a \div d) + (a % d) OBVIOUS
<1>3. a \div d \in Nat BY <1>1, <1>2
<1> QED BY <1>1, <1>2, <1>3

(* One turn around the vector at most. *)
LEMMA ModWrap ==
  ASSUME NEW d \in Nat \ {0}, NEW x \in 0 .. d - 1, NEW y \in 0 .. d
  PROVE  (x + y) % d = IF x + y < d THEN x + y ELSE x + y - d
OBVIOUS

(* A number that is less is less by a whole d after multiplication with d. *)
LEMMA TimesLess ==
  ASSUME NEW d \in Nat, NEW x \in Int, NEW y \in Int, x < y
  PROVE  d * x + d <= d * y /\ d * x \in Int /\ d * y \in Int
<1>1. PICK z \in Nat : y = x + 1 + z
  <2>1. y - x - 1 \in Nat /\ y = x + 1 + (y - x - 1) OBVIOUS
  <2> QED BY <2>1
<1>2. d * z \in Nat OBVIOUS
<1>3. d * y = d * x + d + d * z BY <1>1
<1> QED BY <1>2, <1>3

(* The vector has a bit for every slot, and its last word has one of them. *)
LEMMA BitVectorSize ==
  /\ bit_vector_size \in Nat \ {0} /\ WordBits * bit_vector_size \in Nat
  /\ TableSize <= WordBits * bit_vector_size
  /\ WordBits \in Nat \ {0} /\ TableSize \in Nat \ {0}
<1>1. WordBits \in Nat \ {0} /\ TableSize \in Nat \ {0} BY WordAssumption, TableAssumption
<1>2. TableSize + WordBits - 1 \in Nat BY <1>1
<1>3. /\ bit_vector_size \in Nat
      /\ \E r \in 0 .. WordBits - 1 :
           TableSize + WordBits - 1 = WordBits * bit_vector_size + r
  BY <1>1, <1>2, DivMod DEF bit_vector_size
<1>4. TableSize <= WordBits * bit_vector_size /\ WordBits * bit_vector_size \in Nat
  BY <1>1, <1>3
<1>5. bit_vector_size # 0 BY <1>1, <1>4
<1> QED BY <1>1, <1>3, <1>4, <1>5

(* The word and the bit of a slot. *)
LEMMA SlotBit ==
  ASSUME NEW s \in Slots
  PROVE  \E v \in 0 .. bit_vector_size - 1, b \in 0 .. WordBits - 1 :
           s = WordBits * v + b /\ s \div WordBits = v /\ s % WordBits = b
<1>1. s \in Nat /\ s < TableSize BY BitVectorSize DEF Slots
<1>2. PICK v \in Nat, b \in 0 .. WordBits - 1 :
        s = WordBits * v + b /\ s \div WordBits = v /\ s % WordBits = b
  BY <1>1, DivMod, BitVectorSize
<1>3. v < bit_vector_size
  <2>1. SUFFICES ASSUME bit_vector_size <= v PROVE FALSE BY <1>2, BitVectorSize
  <2>2. WordBits * bit_vector_size <= WordBits * v
    <3>1. CASE bit_vector_size = v BY <3>1, BitVectorSize
    <3>2. CASE bit_vector_size < v BY <3>2, <1>2, BitVectorSize, TimesLess
    <3> QED BY <2>1, <3>1, <3>2, <1>2, BitVectorSize
  <2> QED BY <1>1, <1>2, <2>2, BitVectorSize
<1> QED BY <1>2, <1>3, BitVectorSize

(* The CHOOSE in Min finds a least number. *)
LEMMA LeastIsMin ==
  ASSUME NEW T \in SUBSET Nat, T # {}
  PROVE  Min(T) \in T /\ \A x \in T : Min(T) <= x
<1>1. \E n \in T : \A m \in T : n <= m BY LeastNumber
<1> QED BY <1>1 DEF Min

(* The word and the bit in which the scan from start_ind finds slot e: the *)
(* first word comes twice, with the bits below start_ind the second time.  *)
Finds(empty, start_ind, k, b) ==
  /\ k \in 0 .. bit_vector_size
  /\ b \in SearchVector(empty, start_ind, k)
  /\ k = bit_vector_size => b < start_ind % WordBits

SlotFound(start_ind, k, b) ==
  WordBits * (((start_ind \div WordBits) + k) % bit_vector_size) + b

(* Every empty slot is found. *)
LEMMA ScanFinds ==
  ASSUME NEW empty, empty \subseteq Slots, NEW start_ind \in Slots, NEW e \in empty
  PROVE  \E k \in 0 .. bit_vector_size, b \in 0 .. WordBits - 1 :
           Finds(empty, start_ind, k, b) /\ e = SlotFound(start_ind, k, b)
<1> DEFINE n == bit_vector_size
<1>1. PICK v \in 0 .. n - 1, b \in 0 .. WordBits - 1 : e = WordBits * v + b
  BY SlotBit
<1>2. PICK sv \in 0 .. n - 1, sb \in 0 .. WordBits - 1 :
        start_ind = WordBits * sv + sb /\ start_ind \div WordBits = sv /\ start_ind % WordBits = sb
  BY SlotBit
<1>3. n \in Nat \ {0} BY BitVectorSize
<1> HIDE DEF n
<1>4. PICK k \in 0 .. n :
        /\ k = 0 => b >= sb
        /\ k = n => b < sb
        /\ sv + k = v \/ sv + k = v + n
  <2>1. CASE v > sv \/ (v = sv /\ b >= sb)
    <3>1. v - sv \in 0 .. n /\ sv + (v - sv) = v /\ v - sv # n BY <1>1, <1>2, <1>3, <2>1
    <3> QED BY <1>1, <1>2, <2>1, <3>1
  <2>2. CASE ~ (v > sv \/ (v = sv /\ b >= sb))
    <3>1. /\ v - sv + n \in 0 .. n /\ sv + (v - sv + n) = v + n /\ v - sv + n # 0
          /\ v - sv + n = n => b < sb
      BY <1>1, <1>2, <1>3, <2>2
    <3> QED BY <3>1
  <2> QED BY <2>1, <2>2
<1>5. (sv + k) % n = v
  <2>1. (sv + k) % n = IF sv + k < n THEN sv + k ELSE sv + k - n
    BY <1>2, <1>3, <1>4, ModWrap
  <2> QED BY <1>1, <1>3, <1>4, <2>1
<1>6. b \in Word(empty, v)
  <2>1. WordBits * v = v * WordBits BY <1>1, <1>3, BitVectorSize DEF n
  <2> QED BY <1>1, <2>1 DEF Word
<1>7. b \in SearchVector(empty, start_ind, k)
  BY <1>2, <1>4, <1>5, <1>6 DEF SearchVector, n
<1>8. e = SlotFound(start_ind, k, b) BY <1>1, <1>2, <1>5 DEF SlotFound, n
<1> QED BY <1>1, <1>2, <1>4, <1>7, <1>8 DEF Finds, n

(* What is found is an empty slot, and how far behind start_ind it lies. *)
LEMMA FoundDist ==
  ASSUME NEW empty, empty \subseteq Slots, NEW start_ind \in Slots,
         NEW k, NEW b, Finds(empty, start_ind, k, b)
  PROVE  /\ SlotFound(start_ind, k, b) \in empty
         /\ b \in 0 .. WordBits - 1 /\ k \in 0 .. bit_vector_size
         /\ \/ /\ (start_ind \div WordBits) + k < bit_vector_size
               /\ start_ind <= SlotFound(start_ind, k, b)
               /\ SlotFound(start_ind, k, b)
                    = (start_ind - (start_ind % WordBits)) + WordBits * k + b
            \/ /\ (start_ind \div WordBits) + k >= bit_vector_size
               /\ SlotFound(start_ind, k, b) < start_ind
               /\ SlotFound(start_ind, k, b)
                    = (start_ind - (start_ind % WordBits)) + WordBits * k + b
                        - WordBits * bit_vector_size
<1>1. PICK sv \in 0 .. bit_vector_size - 1, sb \in 0 .. WordBits - 1 :
        start_ind = WordBits * sv + sb /\ start_ind \div WordBits = sv /\ start_ind % WordBits = sb
  BY SlotBit
<1>2. PICK n \in Nat \ {0} : n = bit_vector_size BY BitVectorSize
<1>3. PICK w \in Nat \ {0} : w = WordBits BY BitVectorSize
<1>4. k \in 0 .. n /\ (k = n => b < sb) BY <1>1, <1>2 DEF Finds
<1>5. PICK v : v = (sv + k) % n OBVIOUS
<1>6. v = IF sv + k < n THEN sv + k ELSE sv + k - n
  <2>1. (sv + k) % n = IF sv + k < n THEN sv + k ELSE sv + k - n
    BY <1>1, <1>2, <1>4, ModWrap
  <2> QED BY <1>5, <2>1
<1>7. b \in Word(empty, v) /\ (k = 0 => b >= sb)
  BY <1>1, <1>2, <1>5 DEF Finds, SearchVector
<1>8. v \in 0 .. n - 1 BY <1>1, <1>2, <1>4, <1>6
<1>9. b \in 0 .. w - 1 /\ v * w + b \in empty BY <1>3, <1>7 DEF Word
<1>10. SlotFound(start_ind, k, b) = w * v + b BY <1>1, <1>2, <1>3, <1>5 DEF SlotFound
<1>11. w * v = v * w BY <1>3, <1>8
<1>12. sv \in 0 .. n - 1 /\ sb \in 0 .. w - 1 /\ start_ind = w * sv + sb BY <1>1, <1>2, <1>3
<1>13. CASE sv + k < n
  <2>1. v = sv + k BY <1>6, <1>13
  <2>2. w * v = w * sv + w * k /\ w * k \in Nat /\ w * sv \in Nat BY <1>3, <1>4, <1>12, <2>1
  <2>3. k = 0 \/ w * k >= w BY <1>3, <1>4
  <2>4. w * k + b >= sb
    <3>1. CASE k = 0 BY <3>1, <1>7, <1>9, <1>12, <1>3
    <3>2. CASE w * k >= w BY <3>2, <1>9, <1>12, <2>2
    <3> QED BY <2>3, <3>1, <3>2
  <2> QED BY <1>1, <1>2, <1>3, <1>4, <1>9, <1>10, <1>11, <1>12, <1>13, <2>2, <2>4
<1>14. CASE sv + k >= n
  <2>1. v = sv + k - n BY <1>6, <1>14, <1>4, <1>12
  <2>2. w * v = w * sv + w * k - w * n /\ w * k \in Nat /\ w * sv \in Nat /\ w * n \in Nat
    BY <1>3, <1>4, <1>12, <2>1
  <2>3. w * v + b < w * sv + sb
    <3>1. CASE k = n BY <3>1, <1>4, <1>9, <1>12, <2>1, <2>2
    <3>2. CASE k # n
      <4>1. v < sv BY <3>2, <1>4, <1>12, <2>1
      <4>2. w * v + w <= w * sv BY <4>1, <1>3, <1>8, <1>12, TimesLess
      <4> QED BY <4>2, <1>3, <1>8, <1>9, <1>12, <2>2
    <3> QED BY <3>1, <3>2
  <2> QED BY <1>1, <1>2, <1>3, <1>4, <1>9, <1>10, <1>11, <1>12, <1>14, <2>2, <2>3
<1> QED BY <1>4, <1>12, <1>13, <1>14

(* Of two finds the one in an earlier word, or at a lower bit of the same, *)
(* lies no farther behind start_ind.                                       *)
LEMMA EarlierIsNearer ==
  ASSUME NEW empty, empty \subseteq Slots, NEW start_ind \in Slots,
         NEW k1, NEW b1, Finds(empty, start_ind, k1, b1),
         NEW k2, NEW b2, Finds(empty, start_ind, k2, b2),
         k1 <= k2, k1 = k2 => b1 <= b2
  PROVE  ProbeDist(start_ind, SlotFound(start_ind, k1, b1))
           <= ProbeDist(start_ind, SlotFound(start_ind, k2, b2))
<1>1. PICK w \in Nat \ {0} : w = WordBits BY BitVectorSize
<1>2. PICK n \in Nat \ {0} : n = bit_vector_size BY BitVectorSize
<1>3. PICK sv \in Nat : sv = start_ind \div WordBits BY BitVectorSize, SlotBit
<1>4. PICK o \in Int : o = start_ind - (start_ind % WordBits)
  <2>1. PICK sb \in 0 .. WordBits - 1 : start_ind % WordBits = sb BY SlotBit
  <2> QED BY <1>1, <2>1 DEF Slots
<1>5. PICK m \in Nat : m = WordBits * bit_vector_size BY BitVectorSize
<1>6. /\ k1 \in 0 .. n /\ k2 \in 0 .. n /\ b1 \in 0 .. w - 1 /\ b2 \in 0 .. w - 1
      /\ SlotFound(start_ind, k1, b1) \in Slots /\ SlotFound(start_ind, k2, b2) \in Slots
  BY <1>1, <1>2, FoundDist
<1>7. PICK e1 \in Slots : e1 = SlotFound(start_ind, k1, b1) BY <1>6
<1>8. PICK e2 \in Slots : e2 = SlotFound(start_ind, k2, b2) BY <1>6
<1>9. PICK p1 \in Nat : p1 = w * k1 BY <1>6
<1>10. PICK p2 \in Nat : p2 = w * k2 BY <1>6
<1>11. \/ sv + k1 < n /\ start_ind <= e1 /\ e1 = o + p1 + b1
       \/ sv + k1 >= n /\ e1 < start_ind /\ e1 = o + p1 + b1 - m
  BY <1>1, <1>2, <1>3, <1>4, <1>5, <1>7, <1>9, FoundDist
<1>12. \/ sv + k2 < n /\ start_ind <= e2 /\ e2 = o + p2 + b2
       \/ sv + k2 >= n /\ e2 < start_ind /\ e2 = o + p2 + b2 - m
  BY <1>1, <1>2, <1>3, <1>4, <1>5, <1>8, <1>10, FoundDist
<1>13. p1 + b1 <= p2 + b2
  <2>1. CASE k1 = k2 BY <2>1, <1>6, <1>9, <1>10
  <2>2. CASE k1 < k2
    <3>1. w * k1 + w <= w * k2 BY <2>2, <1>6, TimesLess
    <3> QED BY <3>1, <1>6, <1>9, <1>10
  <2> QED BY <2>1, <2>2, <1>6
<1>14. start_ind \in Nat /\ e1 \in Nat /\ e2 \in Nat
       /\ e1 < TableSize /\ e2 < TableSize /\ start_ind < TableSize /\ TableSize \in Nat
  BY TableAssumption DEF Slots
<1>15. ProbeDist(start_ind, e1) <= ProbeDist(start_ind, e2)
  BY <1>6, <1>11, <1>12, <1>13, <1>14 DEF ProbeDist
<1> QED BY <1>7, <1>8, <1>15

(* The first find is the least word and the least bit in it.               *)
LEMMA FirstFind ==
  ASSUME NEW empty, empty \subseteq Slots, NEW start_ind \in Slots, empty # {}
  PROVE  \E k, b : /\ Finds(empty, start_ind, k, b)
                   /\ GetNextInd(empty, start_ind) = SlotFound(start_ind, k, b)
                   /\ \A k2, b2 : Finds(empty, start_ind, k2, b2) =>
                        k <= k2 /\ (k = k2 => b <= b2)
<1> DEFINE found == {k \in 0 .. bit_vector_size : SearchVector(empty, start_ind, k) # {}}
           k == Min(found)
           b == Min(SearchVector(empty, start_ind, k))
<1>1. bit_vector_size \in Nat \ {0} BY BitVectorSize
<1>2. found # {} /\ found \in SUBSET Nat
  <2>1. PICK e \in empty : TRUE OBVIOUS
  <2>2. PICK k2 \in 0 .. bit_vector_size, b2 \in 0 .. WordBits - 1 :
          Finds(empty, start_ind, k2, b2)
    BY ScanFinds
  <2> QED BY <1>1, <2>2 DEF Finds
<1>3. GetNextInd(empty, start_ind) = SlotFound(start_ind, k, b)
  BY <1>2 DEF GetNextInd, SlotFound
<1>4. k \in found /\ \A x \in found : k <= x BY <1>2, LeastIsMin
<1>5. SearchVector(empty, start_ind, k) # {} /\ k \in 0 .. bit_vector_size BY <1>4
<1>6. SearchVector(empty, start_ind, k) \in SUBSET Nat BY BitVectorSize DEF SearchVector, Word
<1> HIDE DEF k, found
<1>7. /\ b \in SearchVector(empty, start_ind, k)
      /\ \A x \in SearchVector(empty, start_ind, k) : b <= x
  BY <1>5, <1>6, LeastIsMin
<1>8. k = bit_vector_size => b < start_ind % WordBits
  <2>1. SUFFICES ASSUME k = bit_vector_size, ~ (b < start_ind % WordBits) PROVE FALSE OBVIOUS
  <2>2. PICK sv \in 0 .. bit_vector_size - 1, sb \in 0 .. WordBits - 1 :
          start_ind \div WordBits = sv /\ start_ind % WordBits = sb
    BY SlotBit
  <2>3. PICK n \in Nat \ {0} : n = bit_vector_size BY <1>1
  <2>4. sv \in 0 .. n - 1 /\ n \in 0 .. n /\ 0 \in 0 .. n BY <2>2, <2>3
  <2>5. /\ (sv + n) % n = IF sv + n < n THEN sv + n ELSE sv + n - n
        /\ (sv + 0) % n = IF sv + 0 < n THEN sv + 0 ELSE sv + 0 - n
    BY <2>4, ModWrap
  <2>6. (sv + n) % n = sv /\ (sv + 0) % n = sv BY <2>4, <2>5
  <2>7. (sv + bit_vector_size) % bit_vector_size = sv BY <2>3, <2>6
  <2>8. (sv + 0) % bit_vector_size = sv BY <2>3, <2>6
  <2>9. b \in Word(empty, sv) BY <1>1, <1>7, <2>1, <2>2, <2>7 DEF SearchVector
  <2>10. b \in Nat BY <1>6, <1>7
  <2>11. b \in SearchVector(empty, start_ind, 0)
    BY <2>1, <2>2, <2>8, <2>9, <2>10, BitVectorSize DEF SearchVector
  <2>12. 0 \in found BY <1>1, <2>11 DEF found
  <2> QED BY <1>1, <1>4, <2>1, <2>12
<1>9. Finds(empty, start_ind, k, b) BY <1>5, <1>7, <1>8 DEF Finds
<1>10. ASSUME NEW k2, NEW b2, Finds(empty, start_ind, k2, b2)
       PROVE  k <= k2 /\ (k = k2 => b <= b2)
  <2>1. k2 \in found BY <1>10 DEF Finds, found
  <2> QED BY <1>4, <1>7, <1>10, <2>1 DEF Finds
<1> QED BY <1>3, <1>9, <1>10

(* get_next_ind_fingerprint_table finds the first empty slot, whatever the *)
(* length of the table, of a word and of the last word.                    *)
LEMMA ScanIsNext ==
  ASSUME NEW empty, empty \subseteq Slots, NEW start_ind \in Slots
  PROVE  IsNextInd(empty, start_ind, GetNextInd(empty, start_ind))
<1>1. CASE empty = {}
  <2>1. \A k : SearchVector(empty, start_ind, k) = {} BY <1>1 DEF SearchVector, Word
  <2>2. GetNextInd(empty, start_ind) = TableSize BY <2>1 DEF GetNextInd
  <2> QED BY <1>1, <2>2 DEF IsNextInd
<1>2. CASE empty # {}
  <2>1. PICK k, b : /\ Finds(empty, start_ind, k, b)
                    /\ GetNextInd(empty, start_ind) = SlotFound(start_ind, k, b)
                    /\ \A k2, b2 : Finds(empty, start_ind, k2, b2) =>
                         k <= k2 /\ (k = k2 => b <= b2)
    BY <1>2, FirstFind
  <2>2. SlotFound(start_ind, k, b) \in empty BY <2>1, FoundDist
  <2>3. ASSUME NEW e \in empty
        PROVE  ProbeDist(start_ind, SlotFound(start_ind, k, b)) <= ProbeDist(start_ind, e)
    <3>1. PICK k2, b2 : Finds(empty, start_ind, k2, b2) /\ e = SlotFound(start_ind, k2, b2)
      BY ScanFinds
    <3> QED BY <2>1, <3>1, EarlierIsNearer
  <2> QED BY <1>2, <2>1, <2>2, <2>3 DEF IsNextInd
<1> QED BY <1>1, <1>2

-----------------------------------------------------------------------------
(* Tables and lookups in them.                                             *)

(* A table in which every key can be found: distinct keys, none of them in *)
(* an empty slot, and no empty slot between the hash of a key and its slot.*)
Sound(items, empty) ==
  /\ empty \subseteq Slots /\ empty # {}
  /\ \A s \in Slots \ empty : items[s][1] \in Fingerprints
  /\ \A e \in empty : items[e][1] \notin Fingerprints
  /\ \A s1, s2 \in Slots \ empty : items[s1][1] = items[s2][1] => s1 = s2
  /\ \A s \in Slots \ empty, e \in empty :
       ProbeDist(HashInd[items[s][1]], s) < ProbeDist(HashInd[items[s][1]], e)

(* Where find_fingerprint_table looks, and what it finds there.            *)
LEMMA FindProbes ==
  ASSUME NEW items, NEW empty, Sound(items, empty), NEW f \in Fingerprints,
         NEW k \in Nat, k < ItemsToCheck(HashInd[f], GetNextInd(empty, HashInd[f])),
         items[ProbeSlot(HashInd[f], k)][1] = f
  PROVE  /\ ProbeSlot(HashInd[f], k) \in Slots \ empty
         /\ ProbeDist(HashInd[f], ProbeSlot(HashInd[f], k)) = k
<1>1. PICK h \in Slots : h = HashInd[f] BY TableAssumption DEF Slots
<1>2. PICK n : n = GetNextInd(empty, h) OBVIOUS
<1>3. n \in empty /\ n \in Slots /\ n \in 0 .. TableSize
  <2>1. IsNextInd(empty, h, n) BY <1>2, ScanIsNext DEF Sound
  <2>2. n \in empty /\ n \in Slots BY <2>1 DEF Sound, IsNextInd
  <2> QED BY <2>2, TableAssumption DEF Slots
<1>4. k < ItemsToCheck(h, n) /\ items[ProbeSlot(h, k)][1] = f BY <1>1, <1>2
<1>5. ProbeSlot(h, k) \in Slots BY <1>3, <1>4, ProbeSlotInTable
<1>6. ProbeSlot(h, k) \notin empty BY <1>4 DEF Sound
<1>7. ProbeSlot(h, k) # n BY <1>3, <1>6
<1>8. ProbeDist(h, ProbeSlot(h, k)) = k BY <1>3, <1>4, <1>7, ProbedAreBefore
<1> QED BY <1>1, <1>5, <1>6, <1>8

(* Every key of a sound table is found in its slot. *)
LEMMA FindHit ==
  ASSUME NEW items, NEW empty, Sound(items, empty), NEW s \in Slots \ empty
  PROVE  Find(items, empty, items[s][1]) = s
<1>1. PICK f \in Fingerprints : f = items[s][1] BY DEF Sound
<1>2. PICK h \in Slots : h = HashInd[f] BY TableAssumption DEF Slots
<1>3. PICK n : n = GetNextInd(empty, h) OBVIOUS
<1>4. n \in empty /\ n \in Slots BY <1>2, <1>3, ScanIsNext DEF Sound, IsNextInd
<1>5. PICK d : d = ProbeDist(h, s) OBVIOUS
<1>6. d < ProbeDist(h, n) BY <1>1, <1>2, <1>4, <1>5 DEF Sound
<1>7. d \in Nat /\ d < ItemsToCheck(h, n) /\ ProbeSlot(h, d) = s
  BY <1>4, <1>5, <1>6, BeforeAreProbed
<1> DEFINE hits == {k \in 0 .. ItemsToCheck(h, n) - 1 : items[ProbeSlot(h, k)][1] = f}
<1>8. ItemsToCheck(h, n) \in Nat BY <1>4, TableAssumption DEF Slots, ItemsToCheck
<1>9. d \in hits BY <1>1, <1>7, <1>8
<1>10. \A k \in hits : k = d
  <2> TAKE k \in hits
  <2>1. k \in Nat /\ k < ItemsToCheck(h, n) /\ items[ProbeSlot(h, k)][1] = f BY <1>8
  <2>2. ProbeSlot(h, k) \in Slots \ empty /\ ProbeDist(h, ProbeSlot(h, k)) = k
    BY <1>2, <1>3, <2>1, FindProbes
  <2>3. ProbeSlot(h, k) = s BY <1>1, <2>1, <2>2 DEF Sound
  <2> QED BY <1>5, <2>2, <2>3
<1>11. Find(items, empty, f) = IF hits = {} THEN TableSize ELSE ProbeSlot(h, Min(hits))
  BY <1>2, <1>3 DEF Find
<1> HIDE DEF hits
<1>12. hits # {} BY <1>9
<1>13. hits \in SUBSET Nat BY <1>7, <1>10
<1>14. Min(hits) = d BY <1>10, <1>12, <1>13, LeastIsMin
<1> QED BY <1>1, <1>7, <1>11, <1>12, <1>14

(* What is not in a sound table is not found. *)
LEMMA FindMiss ==
  ASSUME NEW items, NEW empty, Sound(items, empty), NEW f \in Fingerprints,
         \A s \in Slots \ empty : items[s][1] # f
  PROVE  Find(items, empty, f) = TableSize
<1>1. PICK n : n = ItemsToCheck(HashInd[f], GetNextInd(empty, HashInd[f])) OBVIOUS
<1>2. n \in Nat
  <2>1. HashInd[f] \in Slots BY TableAssumption DEF Slots
  <2>2. GetNextInd(empty, HashInd[f]) \in Slots BY <2>1, ScanIsNext DEF Sound, IsNextInd
  <2> QED BY <1>1, <2>1, <2>2, TableAssumption DEF Slots, ItemsToCheck
<1>3. {k \in 0 .. n - 1 : items[ProbeSlot(HashInd[f], k)][1] = f} = {}
  <2>1. SUFFICES ASSUME NEW k \in 0 .. n - 1, items[ProbeSlot(HashInd[f], k)][1] = f
                 PROVE  FALSE
    OBVIOUS
  <2>2. k \in Nat /\ k < n BY <1>2
  <2>3. ProbeSlot(HashInd[f], k) \in Slots \ empty BY <1>1, <2>1, <2>2, FindProbes
  <2> QED BY <2>1, <2>3
<1> QED BY <1>1, <1>3 DEF Find

-----------------------------------------------------------------------------
(* Removing a key.                                                         *)

(* Where the slots lie behind slot p.                                      *)
LEMMA DistFrom ==
  ASSUME NEW p \in Slots, NEW x \in Slots, NEW y \in Slots
  PROVE  LET dx == ProbeDist(p, x)
             dy == ProbeDist(p, y)
         IN  /\ dx \in 0 .. TableSize - 1 /\ dy \in 0 .. TableSize - 1
             /\ ProbeDist(x, y) = IF dx <= dy THEN dy - dx ELSE TableSize - dx + dy
             /\ dx = dy => x = y
BY TableAssumption DEF Slots, ProbeDist

(* The slot after k steps from p. *)
LEMMA StepsFrom ==
  ASSUME NEW p \in Slots, NEW k \in 0 .. TableSize - 1
  PROVE  Wrap(p + k, TableSize) \in Slots /\ ProbeDist(p, Wrap(p + k, TableSize)) = k
BY TableAssumption DEF Slots, ProbeDist, Wrap

(* The condition of the loop: the hole lies between hash and slot.         *)
LEMMA MustMoveIs ==
  ASSUME NEW h \in Slots, NEW hole \in Slots, NEW cur \in Slots, hole # cur
  PROVE  MustMove(h, hole, cur) <=> ProbeDist(h, hole) < ProbeDist(h, cur)
BY TableAssumption DEF Slots, ProbeDist, MustMove

IsTable(t) == t = [x \in Slots |-> t[x]]

(* The table while the loop runs: k slots behind removed are done, and all *)
(* items but the one in removed are still there.                           *)
Shifting(items, empty, removed, k, s) ==
  /\ s.hole \in Slots \ empty /\ ProbeDist(removed, s.hole) <= k
  /\ IsTable(s.items)
  /\ \A x \in Slots : x \in empty \/ ProbeDist(removed, x) > k => s.items[x] = items[x]
  /\ \A x \in (Slots \ empty) \ {s.hole} :
       /\ s.items[x][1] \in Fingerprints
       /\ \E y \in (Slots \ empty) \ {removed} : s.items[x] = items[y]
       /\ \A e \in empty :
            ProbeDist(HashInd[s.items[x][1]], x) < ProbeDist(HashInd[s.items[x][1]], e)
       /\ ProbeDist(removed, x) <= k =>
            ProbeDist(HashInd[s.items[x][1]], x) < ProbeDist(HashInd[s.items[x][1]], s.hole)
  /\ \A x, y \in (Slots \ empty) \ {s.hole} : s.items[x][1] = s.items[y][1] => x = y
  /\ \A y \in (Slots \ empty) \ {removed} :
       \E x \in (Slots \ empty) \ {s.hole} : s.items[x] = items[y]

(* No key lies on the far side of the next empty slot from where it would  *)
(* be reached: q is empty, a comes before q and x behind q, or the other   *)
(* way around, as seen from p.                                             *)
LEMMA NotAcross ==
  ASSUME NEW p \in Slots, NEW q \in Slots, NEW h \in Slots, NEW x \in Slots, NEW a \in Slots,
         ProbeDist(h, x) < ProbeDist(h, q), x # a,
         \/ ProbeDist(p, x) < ProbeDist(p, a) /\ ProbeDist(p, a) < ProbeDist(p, q)
              /\ ProbeDist(h, a) < ProbeDist(h, x)
         \/ ProbeDist(p, a) < ProbeDist(p, q) /\ ProbeDist(p, q) < ProbeDist(p, x)
              /\ ProbeDist(h, a) < ProbeDist(h, x)
  PROVE  FALSE
<1>1. PICK dh \in 0 .. TableSize - 1 : dh = ProbeDist(p, h) BY DistFrom
<1>2. PICK dq \in 0 .. TableSize - 1 : dq = ProbeDist(p, q) BY DistFrom
<1>3. PICK dx \in 0 .. TableSize - 1 : dx = ProbeDist(p, x) BY DistFrom
<1>4. PICK da \in 0 .. TableSize - 1 : da = ProbeDist(p, a) BY DistFrom
<1>5. ProbeDist(h, x) = IF dh <= dx THEN dx - dh ELSE TableSize - dh + dx
  BY <1>1, <1>3, TableAssumption DEF Slots, ProbeDist
<1>6. ProbeDist(h, q) = IF dh <= dq THEN dq - dh ELSE TableSize - dh + dq
  BY <1>1, <1>2, TableAssumption DEF Slots, ProbeDist
<1>7. ProbeDist(h, a) = IF dh <= da THEN da - dh ELSE TableSize - dh + da
  BY <1>1, <1>4, TableAssumption DEF Slots, ProbeDist
<1>8. TableSize \in Nat BY TableAssumption
<1> QED BY <1>1, <1>2, <1>3, <1>4, <1>5, <1>6, <1>7, <1>8

(* One turn of the loop. *)
LEMMA ShiftNext ==
  ASSUME NEW items, NEW empty, Sound(items, empty), NEW removed \in Slots \ empty,
         NEW q \in empty, \A e \in empty : ProbeDist(removed, q) <= ProbeDist(removed, e),
         NEW k \in Nat, k + 1 < ProbeDist(removed, q),
         NEW s, Shifting(items, empty, removed, k, s)
  PROVE  Shifting(items, empty, removed, k + 1, FillHole(s, Wrap(removed + (k + 1), TableSize)))
<1> DEFINE Dist(x) == ProbeDist(removed, x)
           Full == Slots \ empty
           Key(t, x) == t[x][1]
<1>1. PICK cur : cur = Wrap(removed + (k + 1), TableSize) OBVIOUS
<1>2. q \in Slots /\ Dist(q) \in 0 .. TableSize - 1 BY DistFrom DEF Sound
<1>3. cur \in Slots /\ Dist(cur) = k + 1
  <2>1. k + 1 \in 0 .. TableSize - 1 BY <1>2, TableAssumption
  <2> QED BY <1>1, <2>1, StepsFrom
<1>4. cur \in Full BY <1>2, <1>3
<1>5. PICK hole \in Full : hole = s.hole BY DEF Shifting
<1>6. PICK it : it = s.items OBVIOUS
<1>7. Dist(hole) <= k /\ IsTable(it) /\ hole # cur
  <2>1. Dist(hole) <= k /\ IsTable(it) BY <1>5, <1>6 DEF Shifting
  <2>2. hole # cur BY <1>3, <2>1
  <2> QED BY <2>1, <2>2
<1>8. \A x \in Slots : x \in empty \/ Dist(x) > k => it[x] = items[x]
  BY <1>6 DEF Shifting
<1>9. \A x \in Full \ {hole} :
        /\ Key(it, x) \in Fingerprints
        /\ \E y \in Full \ {removed} : it[x] = items[y]
        /\ \A e \in empty : ProbeDist(HashInd[Key(it, x)], x) < ProbeDist(HashInd[Key(it, x)], e)
        /\ Dist(x) <= k => ProbeDist(HashInd[Key(it, x)], x) < ProbeDist(HashInd[Key(it, x)], hole)
  BY <1>5, <1>6 DEF Shifting
<1>10. \A x, y \in Full \ {hole} : Key(it, x) = Key(it, y) => x = y
  BY <1>5, <1>6 DEF Shifting
<1>11. \A y \in Full \ {removed} : \E x \in Full \ {hole} : it[x] = items[y]
  BY <1>5, <1>6 DEF Shifting
<1>12. PICK h \in Slots : h = HashInd[Key(it, cur)]
  BY <1>4, <1>7, <1>9, TableAssumption DEF Slots
<1>13. MustMove(h, hole, cur) <=> ProbeDist(h, hole) < ProbeDist(h, cur)
  BY <1>3, <1>5, <1>7, MustMoveIs
<1>14. \A x \in Slots : Dist(x) \in 0 .. TableSize - 1 BY DistFrom
<1>15. \A x \in Slots : Dist(x) <= k + 1 => x = cur \/ Dist(x) <= k
  <2> TAKE x \in Slots
  <2>1. Dist(x) = k + 1 => x = cur BY <1>3, DistFrom
  <2> QED BY <1>14, <2>1
<1>16. ASSUME ~ MustMove(h, hole, cur)
       PROVE  Shifting(items, empty, removed, k + 1, s)
  <2>1. ProbeDist(h, cur) < ProbeDist(h, hole)
    BY <1>3, <1>5, <1>7, <1>12, <1>13, <1>16, ProbeDistInjective
  <2>2. \A x \in Full \ {hole} :
          Dist(x) <= k + 1 =>
            ProbeDist(HashInd[Key(it, x)], x) < ProbeDist(HashInd[Key(it, x)], hole)
    BY <1>9, <1>12, <1>15, <2>1
  <2>3. Dist(hole) <= k + 1 BY <1>7, <1>14
  <2>4. \A x \in Slots : x \in empty \/ Dist(x) > k + 1 => it[x] = items[x]
    BY <1>8, <1>14
  <2> HIDE DEF Dist, Key
  <2> QED BY <1>5, <1>6, <1>7, <1>9, <1>10, <1>11, <2>2, <2>3, <2>4 DEF Shifting, Dist, Key
<1>17. ASSUME MustMove(h, hole, cur)
       PROVE  Shifting(items, empty, removed, k + 1,
                       [items |-> [it EXCEPT ![hole] = it[cur]], hole |-> cur])
  <2>1. PICK it2 : it2 = [it EXCEPT ![hole] = it[cur]] OBVIOUS
  <2>2. IsTable(it2) BY <1>7, <2>1 DEF IsTable
  <2>3. it2[hole] = it[cur] /\ \A x \in Slots : x # hole => it2[x] = it[x]
    BY <1>5, <1>7, <2>1 DEF IsTable
  <2>4. \A x \in Slots : x \in empty \/ Dist(x) > k + 1 => it2[x] = items[x]
    BY <1>5, <1>7, <1>8, <1>14, <2>3
  <2>5. ProbeDist(h, hole) < ProbeDist(h, cur) BY <1>13, <1>17
  <2>6. \A x \in Full \ {cur} : x = hole \/ (x \in Full \ {hole} /\ it2[x] = it[x]) BY <2>3
  <2>7. cur \in Full \ {hole} BY <1>4, <1>7
  <2>8. \A x \in Full \ {cur} :
          /\ Key(it2, x) \in Fingerprints
          /\ \E y \in Full \ {removed} : it2[x] = items[y]
    BY <1>9, <2>3, <2>6, <2>7
  <2>9. \A x, y \in Full \ {cur} : Key(it2, x) = Key(it2, y) => x = y
    BY <1>10, <2>3, <2>6, <2>7
  <2>10. \A y \in Full \ {removed} : \E x \in Full \ {cur} : it2[x] = items[y]
    <3> TAKE y \in Full \ {removed}
    <3>1. PICK x \in Full \ {hole} : it[x] = items[y] BY <1>11
    <3>2. CASE x = cur BY <1>5, <1>7, <2>3, <3>1, <3>2
    <3>3. CASE x # cur BY <2>3, <3>1, <3>3
    <3> QED BY <3>2, <3>3
  <2>11. \A x \in Full \ {cur}, e \in empty :
           ProbeDist(HashInd[Key(it2, x)], x) < ProbeDist(HashInd[Key(it2, x)], e)
    <3> TAKE x \in Full \ {cur}, e \in empty
    <3>1. CASE x = hole
      <4>1. HashInd[Key(it2, x)] = h BY <1>12, <2>3, <3>1
      <4>2. ProbeDist(h, cur) < ProbeDist(h, e) BY <1>9, <1>12, <2>7
      <4>3. e \in Slots BY DEF Sound
      <4>4. /\ ProbeDist(h, hole) \in Int /\ ProbeDist(h, cur) \in Int
            /\ ProbeDist(h, e) \in Int
        BY <1>3, <4>3, ProbeDistInjective
      <4>5. ProbeDist(h, hole) < ProbeDist(h, e) BY <2>5, <4>2, <4>4
      <4> QED BY <3>1, <4>1, <4>5
    <3>2. CASE x # hole BY <1>9, <2>6, <3>2
    <3> QED BY <3>1, <3>2
  <2>12. \A x \in Full \ {cur} :
           Dist(x) <= k + 1 =>
             ProbeDist(HashInd[Key(it2, x)], x) < ProbeDist(HashInd[Key(it2, x)], cur)
    <3> SUFFICES ASSUME NEW x \in Full \ {cur}, Dist(x) <= k + 1
                 PROVE  ProbeDist(HashInd[Key(it2, x)], x)
                          < ProbeDist(HashInd[Key(it2, x)], cur)
      OBVIOUS
    <3>1. CASE x = hole
      <4>1. HashInd[Key(it2, x)] = h BY <1>12, <2>3, <3>1
      <4> QED BY <2>5, <3>1, <4>1
    <3>2. CASE x # hole
      <4>1. x \in Full \ {hole} /\ it2[x] = it[x] BY <2>6, <3>2
      <4>2. PICK g \in Slots : g = HashInd[Key(it, x)] BY <1>9, <4>1, TableAssumption DEF Slots
      <4>3. Dist(x) < Dist(cur) BY <1>3, <1>14, <1>15
      <4>4. ProbeDist(g, x) < ProbeDist(g, q) BY <1>9, <4>1, <4>2
      <4>5. ~ (ProbeDist(g, cur) < ProbeDist(g, x))
        BY <1>2, <1>3, <4>1, <4>2, <4>3, <4>4, NotAcross
      <4>6. /\ ProbeDist(g, cur) \in Int /\ ProbeDist(g, x) \in Int
            /\ ProbeDist(g, cur) # ProbeDist(g, x)
        BY <1>3, ProbeDistInjective
      <4>7. ProbeDist(g, x) < ProbeDist(g, cur) BY <4>5, <4>6
      <4> QED BY <4>1, <4>2, <4>7
    <3> QED BY <3>1, <3>2
  <2>13. Dist(cur) <= k + 1 BY <1>3
  <2> DEFINE new == [items |-> it2, hole |-> cur]
  <2>14. new.items = it2 /\ new.hole = cur OBVIOUS
  <2> HIDE DEF Dist, Key, new
  <2>15. Shifting(items, empty, removed, k + 1, new)
    BY <1>4, <2>2, <2>4, <2>8, <2>9, <2>10, <2>11, <2>12, <2>13, <2>14 DEF Shifting, Dist, Key
  <2> QED BY <2>1, <2>15 DEF new
<1>18. FillHole(s, cur) = IF MustMove(h, hole, cur)
                            THEN [items |-> [it EXCEPT ![hole] = it[cur]], hole |-> cur]
                            ELSE s
  BY <1>5, <1>6, <1>12 DEF FillHole
<1> QED BY <1>1, <1>16, <1>17, <1>18

(* sh is the function that ShiftBack defines, on 0 .. n. *)
IsShift(sh, items, removed, n) ==
  sh = [k \in 0 .. n |-> IF k = 0 THEN [items |-> items, hole |-> removed]
                         ELSE FillHole(sh[k - 1], Wrap(removed + k, TableSize))]

(* There is such a function, for every number of turns. *)
LEMMA ShiftExists ==
  ASSUME NEW items, NEW removed, NEW n \in Nat
  PROVE  \E sh : IsShift(sh, items, removed, n)
<1> DEFINE T == {m \in Nat : ~ \E sh : IsShift(sh, items, removed, m)}
           Start == [items |-> items, hole |-> removed]
           Turn(t, k) == FillHole(t, Wrap(removed + k, TableSize))
<1>1. SUFFICES ASSUME T # {} PROVE FALSE OBVIOUS
<1>2. PICK m \in T : \A k \in T : m <= k BY <1>1, LeastNumber
<1> HIDE DEF Start, Turn
<1>3. m # 0
  <2>1. IsShift([k \in 0 .. 0 |-> Start], items, removed, 0) BY DEF IsShift, Start
  <2> QED BY <2>1
<1>4. m - 1 \in Nat /\ m - 1 \notin T BY <1>2, <1>3
<1>5. PICK sh : IsShift(sh, items, removed, m - 1) BY <1>4
<1>6. sh = [k \in 0 .. m - 1 |-> IF k = 0 THEN Start ELSE Turn(sh[k - 1], k)]
  BY <1>5 DEF IsShift, Start, Turn
<1> DEFINE t == [k \in 0 .. m |-> IF k = m THEN Turn(sh[m - 1], m) ELSE sh[k]]
<1>7. t = [k \in 0 .. m |-> IF k = 0 THEN Start ELSE Turn(t[k - 1], k)]
  <2> SUFFICES ASSUME NEW k \in 0 .. m
               PROVE  t[k] = IF k = 0 THEN Start ELSE Turn(t[k - 1], k)
    OBVIOUS
  <2>1. CASE k = m BY <2>1, <1>3, <1>4
  <2>2. CASE k # m /\ k # 0
    <3>1. k \in 0 .. m - 1 /\ k - 1 \in 0 .. m - 1 BY <2>2, <1>4
    <3>2. sh[k] = Turn(sh[k - 1], k) BY <3>1, <2>2, <1>6
    <3> QED BY <2>2, <3>1, <3>2
  <2>3. CASE k # m /\ k = 0
    <3>1. sh[0] = Start BY <1>4, <1>6
    <3> QED BY <2>3, <3>1
  <2> QED BY <2>1, <2>2, <2>3
<1> HIDE DEF t
<1>8. IsShift(t, items, removed, m) BY <1>7 DEF IsShift, Start, Turn
<1> QED BY <1>2, <1>8

(* The loop as a whole. *)
LEMMA ShiftEnds ==
  ASSUME NEW items, NEW empty, Sound(items, empty), IsTable(items),
         NEW removed \in Slots \ empty,
         NEW q \in empty, \A e \in empty : ProbeDist(removed, q) <= ProbeDist(removed, e),
         NEW n \in Nat, n < ProbeDist(removed, q)
  PROVE  Shifting(items, empty, removed, n, ShiftBack(items, removed, n))
<1> DEFINE sh == CHOOSE x : IsShift(x, items, removed, n)
<1>1. IsShift(sh, items, removed, n) BY ShiftExists
<1>2. ShiftBack(items, removed, n) = sh[n] BY DEF ShiftBack, IsShift
<1> HIDE DEF sh
<1>3. sh[0] = [items |-> items, hole |-> removed] BY <1>1 DEF IsShift
<1>4. \A k \in 1 .. n : sh[k] = FillHole(sh[k - 1], Wrap(removed + k, TableSize))
  BY <1>1 DEF IsShift
<1> DEFINE T == {k \in Nat : k <= n /\ ~ Shifting(items, empty, removed, k, sh[k])}
<1>5. T = {}
  <2>1. SUFFICES ASSUME T # {} PROVE FALSE OBVIOUS
  <2>2. PICK k \in T : \A x \in T : k <= x BY <2>1, LeastNumber
  <2>3. Shifting(items, empty, removed, 0, sh[0])
    <3>1. sh[0].items = items /\ sh[0].hole = removed BY <1>3
    <3>2. \A x \in Slots : ProbeDist(removed, x) \in Nat
      BY DistFrom, TableAssumption
    <3>3. ProbeDist(removed, removed) = 0 BY DEF ProbeDist, Slots
    <3>4. \A x \in Slots : ProbeDist(removed, x) <= 0 => x = removed
      BY <3>2, <3>3, DistFrom
    <3>5. \A x \in (Slots \ empty) \ {removed} : ~ (ProbeDist(removed, x) <= 0) BY <3>4
    <3>6. \A x \in (Slots \ empty) \ {removed} :
            /\ items[x][1] \in Fingerprints
            /\ \E y \in (Slots \ empty) \ {removed} : items[x] = items[y]
            /\ \A e \in empty :
                 ProbeDist(HashInd[items[x][1]], x) < ProbeDist(HashInd[items[x][1]], e)
            /\ ProbeDist(removed, x) <= 0 =>
                 ProbeDist(HashInd[items[x][1]], x) < ProbeDist(HashInd[items[x][1]], removed)
      BY <3>5 DEF Sound
    <3>7. \A x, y \in (Slots \ empty) \ {removed} : items[x][1] = items[y][1] => x = y
      BY DEF Sound
    <3>8. \A y \in (Slots \ empty) \ {removed} :
            \E x \in (Slots \ empty) \ {removed} : items[x] = items[y]
      OBVIOUS
    <3>9. ProbeDist(removed, removed) <= 0 /\ removed \in Slots \ empty /\ IsTable(items)
      BY <3>3
    <3> QED BY <3>1, <3>6, <3>7, <3>8, <3>9 DEF Shifting
  <2>4. k # 0 BY <2>2, <2>3
  <2>5. k - 1 \in Nat /\ k - 1 \notin T /\ k - 1 <= n /\ (k - 1) + 1 = k BY <2>2, <2>4
  <2>6. Shifting(items, empty, removed, k - 1, sh[k - 1]) BY <2>5
  <2>7. q \in Slots /\ ProbeDist(removed, q) \in Nat BY DistFrom, TableAssumption DEF Sound
  <2>8. (k - 1) + 1 < ProbeDist(removed, q) BY <2>2, <2>5, <2>7
  <2>9. Shifting(items, empty, removed, (k - 1) + 1,
                 FillHole(sh[k - 1], Wrap(removed + ((k - 1) + 1), TableSize)))
    BY <2>5, <2>6, <2>8, ShiftNext
  <2>10. sh[k] = FillHole(sh[k - 1], Wrap(removed + k, TableSize)) BY <1>4, <2>2, <2>4
  <2> QED BY <2>2, <2>5, <2>9, <2>10
<1>6. n \notin T BY <1>5
<1> QED BY <1>2, <1>6

(* What is left of a table after the key in slot removed has been taken    *)
(* out: one more hole, and every other item.                               *)
TakesOut(items, empty, count, removed, r) ==
  /\ r.cnt = count - 1
  /\ Sound(r.items, r.empty)
  /\ \E hole \in Slots \ empty : r.empty = empty \cup {hole}
  /\ \A x \in Slots \ r.empty :
       \E y \in (Slots \ empty) \ {removed} : r.items[x] = items[y]
  /\ \A y \in (Slots \ empty) \ {removed} :
       \E x \in Slots \ r.empty : r.items[x] = items[y]

(* What remvove_fingerprint_table leaves behind. *)
LEMMA RemoveEffect ==
  ASSUME NEW items, NEW empty, NEW count, Sound(items, empty), IsTable(items),
         NEW removed \in Slots \ empty,
         NEW r, r = Remove(items, empty, count, items[removed][1])
  PROVE  TakesOut(items, empty, count, removed, r)
<1>1. Find(items, empty, items[removed][1]) = removed BY FindHit
<1>2. removed # TableSize BY TableAssumption DEF Slots
<1>3. PICK q : q = GetNextInd(empty, removed) OBVIOUS
<1>4. q \in empty /\ \A e \in empty : ProbeDist(removed, q) <= ProbeDist(removed, e)
  BY <1>3, ScanIsNext DEF Sound, IsNextInd
<1>5. q \in Slots /\ q # removed BY <1>4 DEF Sound
<1>6. PICK n \in Nat : n = ItemsBehind(removed, q) /\ n + 1 = ProbeDist(removed, q)
  BY <1>5, TableAssumption DEF Slots, ItemsBehind, ProbeDist
<1>7. PICK s : s = ShiftBack(items, removed, n) OBVIOUS
<1>8. n < ProbeDist(removed, q) BY <1>6
<1>9. Shifting(items, empty, removed, n, s) BY <1>4, <1>7, <1>8, ShiftEnds
<1>10. PICK hole \in Slots \ empty : hole = s.hole BY <1>9 DEF Shifting
<1>11. PICK it : it = s.items OBVIOUS
<1>12. PICK it2 : it2 = [it EXCEPT ![hole] = <<NoKey, ZeroEntry>>] OBVIOUS
<1>13. PICK empty2 : empty2 = empty \cup {hole} OBVIOUS
<1>14. Remove(items, empty, count, items[removed][1])
         = [items |-> it2, empty |-> empty2, cnt |-> count - 1]
  BY <1>1, <1>2, <1>3, <1>6, <1>7, <1>10, <1>11, <1>12, <1>13 DEF Remove
<1>15. it2[hole] = <<NoKey, ZeroEntry>> /\ \A x \in Slots : x # hole => it2[x] = it[x]
  BY <1>9, <1>11, <1>12 DEF Shifting, IsTable
<1>16. Slots \ empty2 = (Slots \ empty) \ {hole} BY <1>13
<1>17. \A x \in Slots \ empty2 :
         /\ it2[x][1] \in Fingerprints
         /\ \E y \in (Slots \ empty) \ {removed} : it2[x] = items[y]
         /\ \A e \in empty :
              ProbeDist(HashInd[it2[x][1]], x) < ProbeDist(HashInd[it2[x][1]], e)
  BY <1>9, <1>10, <1>11, <1>15, <1>16 DEF Shifting
<1>18. \A x, y \in Slots \ empty2 : it2[x][1] = it2[y][1] => x = y
  BY <1>9, <1>10, <1>11, <1>15, <1>16 DEF Shifting
<1>19. \A y \in (Slots \ empty) \ {removed} : \E x \in Slots \ empty2 : it2[x] = items[y]
  BY <1>9, <1>10, <1>11, <1>15, <1>16 DEF Shifting
<1>20. \A e \in empty2 : it2[e][1] \notin Fingerprints
  <2> TAKE e \in empty2
  <2>1. CASE e = hole BY <1>15, <2>1, TableAssumption
  <2>2. CASE e # hole
    <3>1. e \in empty /\ e \in Slots BY <1>13, <2>2 DEF Sound
    <3>2. it2[e] = items[e] BY <1>9, <1>11, <1>15, <2>2, <3>1 DEF Shifting
    <3> QED BY <3>1, <3>2 DEF Sound
  <2> QED BY <2>1, <2>2
<1>21. \A x \in Slots \ empty2 :
         ProbeDist(HashInd[it2[x][1]], x) < ProbeDist(HashInd[it2[x][1]], hole)
  <2> TAKE x \in Slots \ empty2
  <2>1. x \in (Slots \ empty) \ {hole} /\ it2[x] = it[x] BY <1>15, <1>16
  <2>2. PICK g \in Slots : g = HashInd[it2[x][1]] BY <1>17, TableAssumption DEF Slots
  <2>3. /\ ProbeDist(removed, x) \in Nat /\ ProbeDist(removed, hole) \in Nat
        /\ ProbeDist(removed, hole) <= n /\ ProbeDist(removed, x) # ProbeDist(removed, q)
    <3>1. x # q BY <1>4, <2>1
    <3> QED BY <1>5, <1>9, <1>10, <2>1, <3>1, DistFrom, TableAssumption DEF Shifting
  <2>4. CASE ProbeDist(removed, x) <= n
    <3>1. ProbeDist(HashInd[it[x][1]], x) < ProbeDist(HashInd[it[x][1]], hole)
      BY <1>9, <1>10, <1>11, <2>1, <2>4 DEF Shifting
    <3> QED BY <2>1, <3>1
  <2>5. CASE ~ (ProbeDist(removed, x) <= n)
    <3>1. ProbeDist(removed, hole) < ProbeDist(removed, q) /\ ProbeDist(removed, q) < ProbeDist(removed, x)
      BY <1>6, <2>3, <2>5
    <3>2. ProbeDist(g, x) < ProbeDist(g, q) BY <1>4, <1>17, <2>2
    <3>3. ~ (ProbeDist(g, hole) < ProbeDist(g, x))
      BY <1>5, <1>10, <2>1, <3>1, <3>2, NotAcross
    <3>4. /\ ProbeDist(g, hole) \in Int /\ ProbeDist(g, x) \in Int
          /\ ProbeDist(g, hole) # ProbeDist(g, x)
      BY <2>1, ProbeDistInjective
    <3>5. ProbeDist(g, x) < ProbeDist(g, hole) BY <3>3, <3>4
    <3> QED BY <2>2, <3>5
  <2> QED BY <2>4, <2>5
<1>22. r.items = it2 /\ r.empty = empty2 /\ r.cnt = count - 1 BY <1>14
<1>23. Sound(it2, empty2)
  <2>1. empty2 \subseteq Slots /\ empty2 # {} BY <1>10, <1>13 DEF Sound
  <2>2. \A x \in Slots \ empty2, e \in empty2 :
          ProbeDist(HashInd[it2[x][1]], x) < ProbeDist(HashInd[it2[x][1]], e)
    BY <1>13, <1>17, <1>21
  <2> QED BY <1>17, <1>18, <1>20, <2>1, <2>2 DEF Sound
<1>24. /\ r.cnt = count - 1
       /\ Sound(r.items, r.empty)
       /\ \E h \in Slots \ empty : r.empty = empty \cup {h}
       /\ \A x \in Slots \ r.empty :
            \E y \in (Slots \ empty) \ {removed} : r.items[x] = items[y]
       /\ \A y \in (Slots \ empty) \ {removed} :
            \E x \in Slots \ r.empty : r.items[x] = items[y]
  BY <1>10, <1>13, <1>17, <1>19, <1>22, <1>23
<1> QED BY <1>24, Zenon DEF TakesOut

-----------------------------------------------------------------------------
(* The table that a removal finds.                                         *)

(* An insertion that has written its key and not yet cleared its bit.      *)
HalfWritten == {"write_size", "write_pages", "clear_bit"}

(* A slot whose bit is 1 holds a key only while an insertion is about to   *)
(* clear the bit, or if the process was killed at that point.              *)
EmptyKeysInv ==
  \A e \in is_empty : keys[e] # NoKey =>
    \/ cache_lock = Orphan
    \/ \E t \in Threads : pc[t] \in HalfWritten /\ next_empty[t] = e

(* In the table that init_fingerprint_cache leaves, no slot holds a key. *)
LEMMA EmptyKeysInit == Init => EmptyKeysInv
BY DEF Init, EmptyKeysInv

(* A step that writes no key and clears no bit, and leaves the insertions  *)
(* in between alone.                                                       *)
LEMMA EmptyKeysFrame ==
  ASSUME EmptyKeysInv, keys' = keys, is_empty' = is_empty,
         cache_lock = Orphan => cache_lock' = Orphan,
         \A t \in Threads : pc[t] \in HalfWritten =>
           \/ pc'[t] \in HalfWritten /\ next_empty'[t] = next_empty[t]
           \/ cache_lock' = Orphan
  PROVE  EmptyKeysInv'
BY DEF EmptyKeysInv

(* The steps of the thread t that are not in between. *)
LEMMA EmptyKeysOther ==
  ASSUME TypeInv, EmptyKeysInv, keys' = keys, is_empty' = is_empty,
         cache_lock = Orphan => cache_lock' = Orphan,
         NEW t \in Threads, pc[t] \notin HalfWritten,
         \A u \in Threads \ {t} : pc'[u] = pc[u] /\ next_empty'[u] = next_empty[u]
  PROVE  EmptyKeysInv'
BY EmptyKeysFrame

(* Every action preserves it. *)
LEMMA EmptyKeysNext ==
  ASSUME TypeInv, StoreInv, EmptyKeysInv, [Next]_vars
  PROVE  EmptyKeysInv'
<1> USE CacheAssumption
<1>0. /\ pc \in [Threads -> Stages] /\ next_empty \in [Threads -> 0 .. TableSize]
      /\ keys \in [Slots -> Fingerprints \cup {NoKey}]
      /\ \A t \in Threads : cache_lock = t <=> pc[t] \in InsertStages
  BY DEF TypeInv, TypeOK, StoreInv, LockInv
<1>1. ASSUME NEW t \in Threads,
             \/ TestSkip(t) \/ TryLock(t) \/ FindDuplicate(t)
             \/ (CacheIsFull(t) /\ pc[t] \in {"insert", "find"})
      PROVE  EmptyKeysInv'
  <2>1. keys' = keys /\ is_empty' = is_empty /\ (cache_lock = Orphan => cache_lock' = Orphan)
    BY <1>0, <1>1 DEF TestSkip, TryLock, FindDuplicate, CacheIsFull, sharedVars, InsertStages
  <2>2. pc[t] \notin HalfWritten
    BY <1>1 DEF TestSkip, TryLock, FindDuplicate, HalfWritten
  <2>3. \A u \in Threads \ {t} : pc'[u] = pc[u] /\ next_empty'[u] = next_empty[u]
    BY <1>0, <1>1 DEF TestSkip, TryLock, FindDuplicate, CacheIsFull, Goto
  <2> QED BY <2>1, <2>2, <2>3, EmptyKeysOther
<1>2. ASSUME NEW t \in Threads, Unlock(t) \/ EndLookup(t) \/ TryLockFails(t) \/ SetSkip(t)
      PROVE  EmptyKeysInv'
  <2>1. keys' = keys /\ is_empty' = is_empty /\ (cache_lock = Orphan => cache_lock' = Orphan)
    BY <1>0, <1>2 DEF Unlock, EndLookup, TryLockFails, SetSkip, sharedVars, InsertStages
  <2>2. pc[t] \notin HalfWritten
    BY <1>2 DEF Unlock, EndLookup, TryLockFails, SetSkip, HalfWritten
  <2>3. \A u \in Threads \ {t} : pc'[u] = pc[u] /\ next_empty'[u] = next_empty[u]
    BY <1>2 DEF Unlock, EndLookup, TryLockFails, SetSkip, FreshLocals
  <2> QED BY <2>1, <2>2, <2>3, EmptyKeysOther
<1>3. ASSUME NEW t \in Threads,
             \/ ProbeNext(t) \/ ProbeHit(t) \/ ProbeMiss(t) \/ CopyOut(t) \/ CopyOutFault(t)
             \/ CopyIn(t) \/ \E f \in Fingerprints : BeginLookup(t, f) \/ GetFreePages(t, f)
      PROVE  EmptyKeysInv'
  <2>1. keys' = keys /\ is_empty' = is_empty /\ (cache_lock = Orphan => cache_lock' = Orphan)
    BY <1>3 DEF ProbeNext, ProbeHit, ProbeMiss, CopyOut, CopyOutFault, CopyIn, BeginLookup,
                GetFreePages, sharedVars
  <2>2. pc[t] \notin HalfWritten
    BY <1>3 DEF ProbeNext, ProbeHit, ProbeMiss, CopyOut, CopyOutFault, CopyIn, BeginLookup,
                GetFreePages, HalfWritten
  <2>3. \A u \in Threads \ {t} : pc'[u] = pc[u] /\ next_empty'[u] = next_empty[u]
    BY <1>0, <1>3 DEF ProbeNext, ProbeHit, ProbeMiss, CopyOut, CopyOutFault, CopyIn,
                      BeginLookup, GetFreePages, Goto
  <2> QED BY <2>1, <2>2, <2>3, EmptyKeysOther
<1>4. ASSUME NEW t \in Threads, FindInsertInd(t) PROVE EmptyKeysInv'
  <2>1. keys' = keys /\ is_empty' = is_empty /\ cache_lock' = cache_lock
    BY <1>4 DEF FindInsertInd, sharedVars
  <2>2. pc[t] \notin HalfWritten BY <1>4 DEF FindInsertInd, HalfWritten
  <2>3. \A u \in Threads \ {t} : pc'[u] = pc[u] /\ next_empty'[u] = next_empty[u]
    BY <1>0, <1>4 DEF FindInsertInd, Goto
  <2> QED BY <2>1, <2>2, <2>3, EmptyKeysOther
<1>5. ASSUME NEW t \in Threads, WriteKey(t) PROVE EmptyKeysInv'
  <2>1. \A e \in Slots : e # next_empty[t] => keys'[e] = keys[e]
    BY <1>0, <1>5 DEF WriteKey
  <2>2. is_empty' = is_empty /\ next_empty' = next_empty /\ cache_lock' = cache_lock
    BY <1>5 DEF WriteKey
  <2>3. /\ pc'[t] = "write_size"
        /\ \A u \in Threads \ {t} : pc'[u] = pc[u]
        /\ pc[t] \notin HalfWritten
    BY <1>0, <1>5 DEF WriteKey, Goto, HalfWritten
  <2>4. is_empty \subseteq Slots BY DEF TypeInv, TypeOK
  <2> QED BY <2>1, <2>2, <2>3, <2>4 DEF EmptyKeysInv, HalfWritten
<1>6. ASSUME NEW t \in Threads, WriteSize(t) \/ WritePages(t) PROVE EmptyKeysInv'
  <2>1. /\ keys' = keys /\ is_empty' = is_empty /\ cache_lock' = cache_lock
        /\ next_empty' = next_empty
    BY <1>6 DEF WriteSize, WritePages
  <2>2. pc'[t] \in HalfWritten /\ \A u \in Threads \ {t} : pc'[u] = pc[u]
    BY <1>0, <1>6 DEF WriteSize, WritePages, Goto, HalfWritten
  <2> QED BY <2>1, <2>2, EmptyKeysFrame
<1>7. ASSUME NEW t \in Threads, ClearBit(t) PROVE EmptyKeysInv'
  <2>1. /\ keys' = keys /\ cache_lock' = cache_lock /\ next_empty' = next_empty
        /\ is_empty' = is_empty \ {next_empty[t]}
    BY <1>7 DEF ClearBit
  <2>2. \A u \in Threads \ {t} : pc'[u] = pc[u] BY <1>0, <1>7 DEF ClearBit, Goto
  <2> QED BY <2>1, <2>2 DEF EmptyKeysInv
<1>8. ASSUME NEW p \in Procs, Crash(p) PROVE EmptyKeysInv'
  <2> DEFINE T == {t \in Threads : ProcOf[t] = p}
  <2>1. T \in SUBSET Threads /\ FreshLocals(T) /\ UNCHANGED sharedVars
    BY <1>8 DEF Crash
  <2>2. cache_lock' = IF cache_lock \in T THEN Orphan ELSE cache_lock
    BY <1>8 DEF Crash
  <2> HIDE DEF T
  <2>3. ASSUME NEW u \in Threads, pc[u] \in HalfWritten
        PROVE  \/ pc'[u] \in HalfWritten /\ next_empty'[u] = next_empty[u]
               \/ cache_lock' = Orphan
    <3>1. CASE u \in T
      <4>1. cache_lock = u BY <1>0, <2>3 DEF HalfWritten, InsertStages
      <4> QED BY <2>2, <3>1, <4>1
    <3>2. CASE u \notin T BY <2>1, <2>3, <3>2 DEF FreshLocals
    <3> QED BY <3>1, <3>2
  <2>4. keys' = keys /\ is_empty' = is_empty BY <2>1 DEF sharedVars
  <2> QED BY <2>2, <2>3, <2>4, EmptyKeysFrame
<1>9. CASE UNCHANGED vars
  BY <1>9, EmptyKeysFrame DEF vars, sharedVars, localVars
<1>10. ASSUME NEW t \in Threads, TableIsFull(t) \/ \E f \in Fingerprints : NoFreePages(t, f)
       PROVE  EmptyKeysInv'
  BY <1>1, <1>10 DEF TableIsFull, NoFreePages
<1> QED
  BY <1>1, <1>2, <1>3, <1>4, <1>5, <1>6, <1>7, <1>8, <1>9, <1>10
     DEF Next, InsertStep, LookupStep

(* get_next_ind_fingerprint_table finds the first empty slot in every bit  *)
(* vector that insertions leave, for any length of the table and any       *)
(* number of bits in a word.                                               *)
THEOREM ScanIsExact == Spec => []ScanFindsNext
<1>1. FullInv => ScanFindsNext
  BY ScanIsNext DEF FullInv, TypeInv, TypeOK, ScanFindsNext
<1> QED BY <1>1, FullInvariant, PTL

(* The table that nobody is writing. *)
LEMMA QuietTableSound ==
  ASSUME FullInv, EmptyKeysInv, cache_lock = Free, is_empty # {}
  PROVE  Sound(Items, is_empty) /\ IsTable(Items)
<1>1. \A s \in Slots : Items[s] = <<keys[s], entries[s]>> BY DEF Items
<1>2. \A s \in Slots : Items[s][1] = keys[s] BY <1>1
<1>3. is_empty \subseteq Slots BY DEF FullInv, TypeInv, TypeOK
<1>4. PublishedIntact /\ UniqueKeys /\ ProbeInv /\ LockInv
  BY DEF FullInv, CacheInv, StoreInv
<1>5. \A e \in is_empty : keys[e] = NoKey
  <2>1. \A t \in Threads : pc[t] \notin HalfWritten
    BY <1>4, CacheAssumption DEF LockInv, HalfWritten, InsertStages
  <2> QED BY <2>1, CacheAssumption DEF EmptyKeysInv
<1>6. \A e \in is_empty : Items[e][1] \notin Fingerprints
  BY <1>2, <1>3, <1>5, TableAssumption
<1>7. /\ \A s \in Slots \ is_empty : Items[s][1] \in Fingerprints
      /\ \A s1, s2 \in Slots \ is_empty : Items[s1][1] = Items[s2][1] => s1 = s2
      /\ \A s \in Slots \ is_empty, e \in is_empty :
           ProbeDist(HashInd[Items[s][1]], s) < ProbeDist(HashInd[Items[s][1]], e)
  BY <1>2, <1>4 DEF PublishedIntact, UniqueKeys, ProbeInv
<1>8. IsTable(Items) BY DEF Items, IsTable
<1> QED BY <1>3, <1>6, <1>7, <1>8 DEF Sound

(* Remove does in every such table what RemovalKeepsOthers says. *)
LEMMA RemovalIsExact ==
  ASSUME FullInv, EmptyKeysInv
  PROVE  RemovalKeepsOthers
<1> SUFFICES ASSUME cache_lock = Free, is_empty # {}, NEW f \in Published
             PROVE  LET r == Remove(Items, is_empty, cnt, f) IN
                    /\ Cardinality(r.empty) = Cardinality(is_empty) + 1
                    /\ r.cnt + Cardinality(r.empty) = TableSize
                    /\ Find(r.items, r.empty, f) = TableSize
                    /\ \A s \in Slots \ is_empty : keys[s] # f =>
                         LET now == Find(r.items, r.empty, keys[s]) IN
                         now \in Slots \ r.empty /\ r.items[now] = Items[s]
  BY DEF RemovalKeepsOthers
<1>1. Sound(Items, is_empty) /\ IsTable(Items) BY QuietTableSound
<1>2. \A s \in Slots : Items[s][1] = keys[s] BY DEF Items
<1>3. PICK removed \in Slots \ is_empty : f = Items[removed][1] BY <1>2 DEF Published
<1>4. PICK r : r = Remove(Items, is_empty, cnt, f) OBVIOUS
<1>5. /\ r.cnt = cnt - 1
      /\ Sound(r.items, r.empty)
      /\ \E hole \in Slots \ is_empty : r.empty = is_empty \cup {hole}
      /\ \A x \in Slots \ r.empty :
           \E y \in (Slots \ is_empty) \ {removed} : r.items[x] = Items[y]
      /\ \A y \in (Slots \ is_empty) \ {removed} :
           \E x \in Slots \ r.empty : r.items[x] = Items[y]
  <2>1. r = Remove(Items, is_empty, cnt, Items[removed][1]) BY <1>3, <1>4
  <2>2. TakesOut(Items, is_empty, cnt, removed, r) BY <1>1, <2>1, RemoveEffect, Zenon
  <2> QED BY <2>2, Zenon DEF TakesOut
<1>11. IsFiniteSet(is_empty) /\ Cardinality(is_empty) \in Nat
  <2>1. IsFiniteSet(Slots) BY FS_Interval, TableAssumption DEF Slots
  <2>2. IsFiniteSet(is_empty) BY <1>1, <2>1, FS_Subset DEF Sound
  <2> QED BY <2>2, FS_CardinalityType
<1>6. Cardinality(r.empty) = Cardinality(is_empty) + 1
  <2>3. PICK hole \in Slots \ is_empty : r.empty = is_empty \cup {hole} BY <1>5
  <2> QED BY <1>11, <2>3, FS_AddElement
<1>10. r.cnt + Cardinality(r.empty) = TableSize
  <2>1. /\ cnt + Cardinality(is_empty) = TableSize /\ cnt \in Nat
        /\ TableSize \in Nat
    BY TableAssumption DEF FullInv, CacheInv, StoreInv, CountInv, TypeInv, TypeOK
  <2> QED BY <1>5, <1>6, <1>11, <2>1
<1>7. f \in Fingerprints BY <1>1, <1>3 DEF Sound
<1>8. Find(r.items, r.empty, f) = TableSize
  <2>1. \A x \in Slots \ r.empty : r.items[x][1] # f
    <3>1. \A x \in Slots \ r.empty :
            \E y \in (Slots \ is_empty) \ {removed} : r.items[x] = Items[y]
      BY <1>5
    <3>2. \A y \in (Slots \ is_empty) \ {removed} : Items[y][1] # f BY <1>1, <1>3 DEF Sound
    <3> QED BY <3>1, <3>2
  <2> QED BY <1>5, <1>7, <2>1, FindMiss
<1>9. ASSUME NEW s \in Slots \ is_empty, keys[s] # f
      PROVE  LET now == Find(r.items, r.empty, keys[s]) IN
             now \in Slots \ r.empty /\ r.items[now] = Items[s]
  <2>1. s \in (Slots \ is_empty) \ {removed} BY <1>2, <1>3, <1>9
  <2>2. PICK x \in Slots \ r.empty : r.items[x] = Items[s] BY <1>5, <2>1
  <2>3. r.items[x][1] = keys[s] BY <1>2, <2>2
  <2>4. Find(r.items, r.empty, keys[s]) = x BY <1>5, <2>3, FindHit
  <2> QED BY <2>2, <2>4
<1> QED BY <1>4, <1>6, <1>8, <1>9, <1>10

(* Removing a fingerprint takes it and no other out of the table, a lookup *)
(* still finds every other one with its entry, and the count stays that of *)
(* the slots in use, whatever collisions built the table and however long  *)
(* it is.                                                                  *)
THEOREM RemovalIsSafe == Spec => []RemovalKeepsOthers
<1>1. FullInv /\ EmptyKeysInv /\ [Next]_vars => EmptyKeysInv'
  BY EmptyKeysNext DEF FullInv, CacheInv
<1>2. Spec => []EmptyKeysInv
  BY <1>1, EmptyKeysInit, FullInvariant, PTL DEF Spec
<1>3. FullInv /\ EmptyKeysInv => RemovalKeepsOthers BY RemovalIsExact
<1> QED BY <1>2, <1>3, FullInvariant, PTL

-----------------------------------------------------------------------------
(* The cache is a store.                                                   *)

(* A key that was written stays, published or not: only the lock holder    *)
(* writes keys, and the slot it writes to holds none.                      *)
LEMMA WriteKeyFresh ==
  ASSUME TypeInv, StoreInv, EmptyKeysInv, NEW t \in Threads, pc[t] = "write_key"
  PROVE  \A e \in is_empty : keys[e] = NoKey
<1>1. LockInv /\ cache_lock = t BY DEF StoreInv, LockInv, InsertStages
<1>2. cache_lock # Orphan BY <1>1, CacheAssumption
<1>3. ASSUME NEW u \in Threads, pc[u] \in HalfWritten PROVE FALSE
  <2>1. cache_lock = u BY <1>1, <1>3 DEF LockInv, HalfWritten, InsertStages
  <2> QED BY <1>1, <1>3, <2>1 DEF HalfWritten
<1> QED BY <1>2, <1>3 DEF EmptyKeysInv

(* The keys in the table under any step. *)
LEMMA KeysStay ==
  ASSUME TypeInv, StoreInv, EmptyKeysInv, [Next]_vars, NEW s \in Slots, keys[s] # NoKey
  PROVE  keys'[s] = keys[s]
<1>1. ASSUME NEW t \in Threads, WriteKey(t) PROVE keys'[s] = keys[s]
  <2>1. pc[t] = "write_key" /\ keys' = [keys EXCEPT ![next_empty[t]] = fp[t]]
    BY <1>1 DEF WriteKey
  <2>2. next_empty[t] \in is_empty BY <2>1 DEF StoreInv, WritingInv, Writing, Writes
  <2>3. next_empty[t] # s BY <2>1, <2>2, WriteKeyFresh
  <2> QED BY <2>1, <2>3 DEF TypeInv, TypeOK
<1>2. ASSUME NEW t \in Threads, TestSkip(t) \/ LookupStep(t) \/ InsertStep(t),
             ~ WriteKey(t)
      PROVE  keys' = keys
  BY <1>2 DEF TestSkip, TryLock, TryLockFails, SetSkip, Unlock, InsertStep, NoFreePages,
              GetFreePages, CopyIn, FindDuplicate, TableIsFull, FindInsertInd, WriteSize,
              WritePages, ClearBit, CacheIsFull, LookupStep, ProbeNext, ProbeHit, ProbeMiss,
              CopyOut, CopyOutFault, EndLookup, sharedVars
<1>3. ASSUME NEW t \in Threads, NEW f \in Fingerprints, BeginLookup(t, f)
      PROVE  keys' = keys
  BY <1>3 DEF BeginLookup, sharedVars
<1>4. ASSUME NEW p \in Procs, Crash(p) PROVE keys' = keys
  BY <1>4 DEF Crash, sharedVars
<1>5. CASE UNCHANGED vars BY <1>5 DEF vars, sharedVars
<1> QED BY <1>1, <1>2, <1>3, <1>4, <1>5 DEF Next

(* A lookup that copies has met its key, and if it has been published from *)
(* the start, in a published slot.                                         *)
Meets(t) ==
  /\ keys[SlotAt(t)] = fp[t]
  /\ NumPages < TableSize /\ there[t] => SlotAt(t) # next_empty[t]

MeetsInv == \A t \in Threads : pc[t] = "copy_out" => Meets(t)

(* The slot that a probe compares is in the table. *)
LEMMA SlotAtInTable ==
  ASSUME TypeInv, NEW t \in Threads, pc[t] \in LookupStages, ~ ProbeEnds(t)
  PROVE  SlotAt(t) \in Slots
<1> USE TableAssumption
<1>1. /\ HashInd[fp[t]] \in Slots /\ next_empty[t] \in 0 .. TableSize /\ i[t] \in Nat
  BY DEF TypeInv, TypeOK, FpInv, LookupStages, Slots
<1>2. i[t] < ItemsToCheck(HashInd[fp[t]], next_empty[t])
  BY <1>1 DEF ProbeEnds, ItemsToCheck, Slots
<1> QED BY <1>1, <1>2, ProbeSlotInTable DEF SlotAt

(* A hit on what was published at the start comes before the empty slot.   *)
LEMMA MeetsProbeHit ==
  ASSUME TypeInv, NEW t \in Threads, Relies(t), ProbeHit(t)
  PROVE  Meets(t)'
<1> USE TableAssumption
<1> DEFINE h == HashInd[fp[t]]
<1>1. /\ pc[t] = "probe" /\ ~ ProbeEnds(t) /\ keys[SlotAt(t)] = fp[t]
      /\ UNCHANGED <<keys, fp, i, next_empty, there>>
  BY DEF ProbeHit, sharedVars
<1>2. h \in Slots /\ i[t] \in Nat /\ next_empty[t] \in 0 .. TableSize
  BY <1>1 DEF TypeInv, TypeOK, FpInv, Slots
<1>3. SlotAt(t)' = SlotAt(t) BY <1>1 DEF SlotAt
<1>4. ASSUME NumPages < TableSize, there[t], SlotAt(t) = next_empty[t] PROVE FALSE
  <2>1. next_empty[t] # TableSize /\ next_empty[t] \in Slots
    BY <1>2, <1>4 DEF Relies, Slots
  <2>2. PICK s \in Before(t) : keys[s] = fp[t] /\ i[t] <= ProbeDist(h, s)
    BY <1>1, <1>4, <2>1 DEF Relies
  <2>3. s \in Slots /\ ProbeDist(h, s) < ProbeDist(h, next_empty[t])
    BY <2>1, <2>2 DEF Before
  <2>4. ProbeDist(h, s) \in 0 .. TableSize - 1 /\ ProbeDist(h, next_empty[t]) \in Int
    BY <1>2, <2>1, <2>3, ProbeDistInjective
  <2>5. i[t] < TableSize BY <1>2, <2>2, <2>4
  <2>6. ProbeDist(h, SlotAt(t)) = i[t]
    BY <1>2, <2>5 DEF SlotAt, ProbeSlot, ProbeDist, Wrap, Slots
  <2> QED BY <1>2, <1>4, <2>2, <2>3, <2>4, <2>6
<1> QED BY <1>1, <1>3, <1>4 DEF Meets

(* Every step keeps it. *)
LEMMA MeetsNext ==
  ASSUME FullInv, EmptyKeysInv, MeetsInv, [Next]_vars
  PROVE  MeetsInv'
<1> SUFFICES ASSUME NEW t \in Threads, pc'[t] = "copy_out" PROVE Meets(t)'
  BY DEF MeetsInv
<1>1. TypeInv /\ BufInv /\ StoreInv /\ ReaderInv BY DEF FullInv, CacheInv
<1>2. SameLocals(t) \/ OwnLookupStep(t) BY <1>1, ReaderCases DEF LookupStages
<1>3. CASE SameLocals(t)
  <2>1. pc[t] = "copy_out" /\ pc[t] \in LookupStages BY <1>3 DEF SameLocals, LookupStages
  <2>2. Relies(t) /\ Meets(t) BY <1>1, <2>1 DEF ReaderInv, MeetsInv
  <2>3. SlotAt(t) \in Slots BY <1>1, <2>1, <2>2, SlotAtInTable DEF Relies
  <2>4. fp[t] # NoKey BY <1>1, <2>1, TableAssumption DEF TypeInv, FpInv
  <2>5. keys'[SlotAt(t)] = keys[SlotAt(t)] BY <1>1, <2>2, <2>3, <2>4, KeysStay DEF Meets
  <2>6. SlotAt(t)' = SlotAt(t) BY <1>3 DEF SameLocals, SlotAt
  <2> QED BY <1>3, <2>2, <2>5, <2>6 DEF Meets, SameLocals
<1>4. CASE ProbeHit(t)
  <2>1. Relies(t) BY <1>1, <1>4 DEF ProbeHit, ReaderInv, LookupStages
  <2> QED BY <1>1, <1>4, <2>1, MeetsProbeHit
<1>5. ASSUME \/ \E f \in Fingerprints : BeginLookup(t, f)
             \/ ProbeNext(t) \/ ProbeMiss(t) \/ CopyOut(t)
      PROVE  FALSE
  BY <1>1, <1>5 DEF BeginLookup, ProbeNext, ProbeMiss, CopyOut, Goto, TypeInv, TypeOK
<1> QED BY <1>2, <1>3, <1>4, <1>5 DEF OwnLookupStep

(* The variables of the store, as the refinement mapping has them. *)
Coming == {keys[s] : s \in is_empty} \ {NoKey}
Asked == [t \in Threads |-> IF Asking(t) THEN fp[t] ELSE NoKey]
Known == [t \in Threads |-> Asking(t) /\ there[t]]
Replies == [t \in Threads |-> ReplyTo(t)]

(* The step of another thread does not touch the stack of u. *)
Untouched(u) ==
  pc'[u] = pc[u] /\ fp'[u] = fp[u] /\ there'[u] = there[u] /\ buf'[u] = buf[u]

(* Thread u is in no lookup, neither before nor after the step. *)
Silent(u) == ~ Asking(u) /\ ~ Asking(u)'

(* What u can see of the store stays as it is. *)
SameView(u) ==
  /\ Asked'[u] = Asked[u]
  /\ Known'[u] = Known[u]
  /\ Replies'[u] = Replies[u]

(* The store looks the same to a thread that is not in a lookup, or whose  *)
(* stack is not touched.                                                   *)
LEMMA ViewStays ==
  ASSUME NEW u \in Threads, Untouched(u) \/ Silent(u)
  PROVE  SameView(u)
<1>1. CASE Untouched(u)
  BY <1>1 DEF Untouched, SameView, Asked, Known, Replies, Asking, ReplyTo
<1>2. CASE Silent(u)
  <2>1. pc[u] \notin {"populated", "missing", "fault"} /\ pc'[u] \notin {"populated", "missing", "fault"}
    BY <1>2 DEF Silent, Asking, LookupStages
  <2>2. ReplyTo(u)' = ReplyTo(u) BY <2>1 DEF ReplyTo
  <2>3. Asked'[u] = Asked[u] BY <1>2 DEF Silent, Asked
  <2>4. Known'[u] = Known[u] BY <1>2 DEF Silent, Known
  <2> QED BY <2>2, <2>3, <2>4 DEF SameView, Replies
<1> QED BY <1>1, <1>2

(* The variables are functions of the threads. *)
LEMMA ViewsStay ==
  ASSUME \A u \in Threads : SameView(u)
  PROVE  Asked' = Asked /\ Known' = Known /\ Replies' = Replies
<1>1. \A u \in Threads : Asked'[u] = Asked[u] /\ Known'[u] = Known[u] /\ Replies'[u] = Replies[u]
  BY DEF SameView
<1>2. Asked' = [u \in Threads |-> Asked'[u]] /\ Asked = [u \in Threads |-> Asked[u]]
  BY DEF Asked
<1>3. Known' = [u \in Threads |-> Known'[u]] /\ Known = [u \in Threads |-> Known[u]]
  BY DEF Known
<1>4. Replies' = [u \in Threads |-> Replies'[u]] /\ Replies = [u \in Threads |-> Replies[u]]
  BY DEF Replies
<1> HIDE DEF Asked, Known, Replies
<1> QED BY <1>1, <1>2, <1>3, <1>4

(* A step of thread t that no client sees. *)
LEMMA UnseenStep ==
  ASSUME NEW t \in Threads, UNCHANGED <<keys, is_empty>>,
         \A u \in Threads \ {t} : Untouched(u) \/ Silent(u), SameView(t)
  PROVE  UNCHANGED <<Published, Coming, Asked, Known, Replies>>
<1>1. \A u \in Threads : SameView(u) BY ViewStays
<1> QED BY <1>1, ViewsStay DEF Published, Coming

(* A step in which the lookup of thread t gets its answer. *)
LEMMA AnswerStep ==
  ASSUME NEW t \in Threads, UNCHANGED <<keys, is_empty>>,
         \A u \in Threads \ {t} : Untouched(u),
         Asking(t), Asking(t)', fp'[t] = fp[t], there'[t] = there[t]
  PROVE  /\ UNCHANGED <<Published, Coming, Asked, Known>>
         /\ Replies' = [Replies EXCEPT ![t] = ReplyTo(t)']
<1>1. \A u \in Threads \ {t} : SameView(u) BY ViewStays
<1>2. Asked'[t] = Asked[t] /\ Known'[t] = Known[t] BY DEF Asked, Known
<1>3. \A u \in Threads : Asked'[u] = Asked[u] /\ Known'[u] = Known[u]
  BY <1>1, <1>2 DEF SameView
<1>4. Asked' = [u \in Threads |-> Asked'[u]] /\ Asked = [u \in Threads |-> Asked[u]]
  BY DEF Asked
<1>5. Known' = [u \in Threads |-> Known'[u]] /\ Known = [u \in Threads |-> Known[u]]
  BY DEF Known
<1>6. Replies' = [u \in Threads |-> Replies'[u]] /\ Replies = [u \in Threads |-> Replies[u]]
      /\ Replies'[t] = ReplyTo(t)'
  BY DEF Replies
<1>7. \A u \in Threads \ {t} : Replies'[u] = Replies[u] BY <1>1 DEF SameView
<1>8. UNCHANGED <<Published, Coming>> BY DEF Published, Coming
<1> HIDE DEF Asked, Known, Replies
<1>9. Asked' = Asked /\ Known' = Known BY <1>3, <1>4, <1>5
<1>10. Replies' = [Replies EXCEPT ![t] = ReplyTo(t)'] BY <1>6, <1>7
<1> QED BY <1>8, <1>9, <1>10

(* The stacks of the threads in T are gone. *)
LEMMA LeaveStep ==
  ASSUME NEW T \in SUBSET Threads, FreshLocals(T), UNCHANGED <<keys, is_empty>>
  PROVE  Store!Leave(T)
<1>1. ASSUME NEW u \in Threads, u \notin T PROVE SameView(u)
  <2>1. Untouched(u) BY <1>1 DEF FreshLocals, Untouched
  <2> QED BY <2>1, ViewStays
<1>2. ASSUME NEW u \in T
      PROVE  Asked'[u] = NoKey /\ Known'[u] = FALSE /\ Replies'[u] = Store!NoReply
  <2>1. u \in Threads /\ pc'[u] = "idle" BY <1>2 DEF FreshLocals
  <2>2. ~ Asking(u)' BY <2>1 DEF Asking, LookupStages
  <2>3. ReplyTo(u)' = Store!NoReply BY <2>1 DEF ReplyTo, Store!NoReply
  <2>4. Asked'[u] = NoKey BY <2>1, <2>2 DEF Asked
  <2>5. Known'[u] = FALSE BY <2>1, <2>2 DEF Known
  <2> QED BY <2>1, <2>3, <2>4, <2>5 DEF Replies
<1>3. Asked' = [u \in Threads |-> Asked'[u]] BY DEF Asked
<1>4. Known' = [u \in Threads |-> Known'[u]] BY DEF Known
<1>5. Replies' = [u \in Threads |-> Replies'[u]] BY DEF Replies
<1>6. UNCHANGED <<Published, Coming>> BY DEF Published, Coming
<1>7. \A u \in Threads : Asked'[u] = IF u \in T THEN NoKey ELSE Asked[u]
  BY <1>1, <1>2 DEF SameView
<1>8. \A u \in Threads : Known'[u] = IF u \in T THEN FALSE ELSE Known[u]
  BY <1>1, <1>2 DEF SameView
<1>9. \A u \in Threads : Replies'[u] = IF u \in T THEN Store!NoReply ELSE Replies[u]
  BY <1>1, <1>2 DEF SameView
<1> HIDE DEF Asked, Known, Replies
<1>10. Asked' = [u \in Threads |-> IF u \in T THEN NoKey ELSE Asked[u]] BY <1>3, <1>7
<1>11. Known' = [u \in Threads |-> IF u \in T THEN FALSE ELSE Known[u]] BY <1>4, <1>8
<1>12. Replies' = [u \in Threads |-> IF u \in T THEN Store!NoReply ELSE Replies[u]]
  BY <1>5, <1>9
<1> QED BY <1>6, <1>10, <1>11, <1>12 DEF Store!Leave, Asked, Known, Replies, Coming

(* The steps of an insertion that neither write a key nor clear a bit are  *)
(* not seen.                                                               *)
LEMMA InsertUnseen ==
  ASSUME TypeInv, NEW t \in Threads, TestSkip(t) \/ InsertStep(t),
         ~ WriteKey(t), ~ ClearBit(t)
  PROVE  UNCHANGED <<Published, Coming, Asked, Known, Replies>>
<1>0. pc \in [Threads -> Stages] /\ fp \in [Threads -> Fingerprints \cup {NoKey}]
  BY DEF TypeInv, TypeOK
<1>1. UNCHANGED <<keys, is_empty>>
  BY DEF TestSkip, TryLock, TryLockFails, SetSkip, Unlock, InsertStep, NoFreePages,
         GetFreePages, CopyIn, FindDuplicate, TableIsFull, FindInsertInd, WriteSize,
         WritePages, CacheIsFull, sharedVars
<1>2. /\ ~ Asking(t)
      /\ ~ Asking(t)'
      /\ \A u \in Threads \ {t} : Untouched(u)
  <2>1. CASE TryLockFails(t) \/ SetSkip(t) \/ Unlock(t)
    BY <2>1 DEF TryLockFails, SetSkip, Unlock, FreshLocals, Untouched, Asking, LookupStages
  <2>2. CASE TestSkip(t) \/ TryLock(t) \/ FindDuplicate(t) \/ FindInsertInd(t)
    BY <1>0, <2>2 DEF TestSkip, TryLock, FindDuplicate, FindInsertInd, Goto, Untouched, Asking,
                      LookupStages
  <2>3. CASE TableIsFull(t) \/ \E f \in Fingerprints : NoFreePages(t, f)
    BY <1>0, <2>3 DEF TableIsFull, NoFreePages, CacheIsFull, Goto, Untouched, Asking,
                      LookupStages
  <2>4. CASE WriteSize(t) \/ WritePages(t)
    BY <1>0, <2>4 DEF WriteSize, WritePages, Goto, Untouched, Asking, LookupStages
  <2>5. CASE CopyIn(t)
    <3>1. pc'[t] \in {"copy_in", "find"} BY <1>0, <2>5 DEF CopyIn, Goto
    <3> QED BY <1>0, <2>5, <3>1 DEF CopyIn, Goto, Untouched, Asking, LookupStages
  <2>6. CASE \E f \in Fingerprints : GetFreePages(t, f)
    BY <1>0, <2>6 DEF GetFreePages, Goto, Untouched, Asking, LookupStages
  <2> QED BY <2>1, <2>2, <2>3, <2>4, <2>5, <2>6 DEF InsertStep
<1>3. SameView(t) BY <1>2, ViewStays DEF Silent
<1> QED BY <1>1, <1>2, <1>3, UnseenStep

(* The key that is written first announces what is coming, ... *)
LEMMA WriteKeyMaps ==
  ASSUME TypeInv, StoreInv, EmptyKeysInv, NEW t \in Threads, WriteKey(t)
  PROVE  \E f \in Fingerprints : Store!BeginStore(f)
<1>1. /\ pc[t] = "write_key" /\ pc'[t] = "write_size"
      /\ keys' = [keys EXCEPT ![next_empty[t]] = fp[t]] /\ is_empty' = is_empty
      /\ \A u \in Threads \ {t} : Untouched(u)
  BY DEF WriteKey, Goto, Untouched, TypeInv, TypeOK
<1>2. /\ next_empty[t] \in is_empty /\ fp[t] \notin Published /\ fp[t] \in Fingerprints
      /\ is_empty \subseteq Slots
  BY <1>1 DEF StoreInv, WritingInv, Writing, Writes, TypeInv, TypeOK, FpInv
<1>3. \A e \in is_empty : keys[e] = NoKey BY <1>1, WriteKeyFresh
<1>4. fp[t] # NoKey BY <1>2, TableAssumption
<1>5. Coming = {} BY <1>3 DEF Coming
<1>6. /\ keys'[next_empty[t]] = fp[t]
      /\ \A s \in Slots : s # next_empty[t] => keys'[s] = keys[s]
  BY <1>1, <1>2 DEF TypeInv, TypeOK
<1>7. Coming' = {fp[t]} BY <1>1, <1>2, <1>3, <1>4, <1>6 DEF Coming
<1>8. Published' = Published BY <1>1, <1>2, <1>6 DEF Published
<1>9. Silent(t) BY <1>1 DEF Silent, Asking, LookupStages
<1>10. UNCHANGED <<Asked, Known, Replies>> BY <1>1, <1>9, ViewStays, ViewsStay
<1>11. PICK f \in Fingerprints : f = fp[t] BY <1>2
<1>12. Store!BeginStore(f)
  BY <1>2, <1>5, <1>7, <1>8, <1>10, <1>11
     DEF Store!BeginStore, Coming, Asked, Known, Replies
<1> QED BY <1>12

(* ... and the bit that is cleared last publishes it and nothing else.     *)
LEMMA ClearBitMaps ==
  ASSUME TypeInv, StoreInv, EmptyKeysInv, NEW t \in Threads, ClearBit(t)
  PROVE  Store!EndStore
<1>1. /\ pc[t] = "clear_bit" /\ pc'[t] = "insert" /\ keys' = keys
      /\ is_empty' = is_empty \ {next_empty[t]}
      /\ \A u \in Threads \ {t} : Untouched(u)
  BY DEF ClearBit, Goto, Untouched, TypeInv, TypeOK
<1>2. /\ next_empty[t] \in is_empty /\ keys[next_empty[t]] = fp[t] /\ fp[t] \in Fingerprints
      /\ is_empty \subseteq Slots
  BY <1>1 DEF StoreInv, WritingInv, Writing, Writes, TypeInv, TypeOK, FpInv
<1>3. fp[t] # NoKey BY <1>2, TableAssumption
<1>4. LockInv /\ cache_lock = t /\ cache_lock # Orphan
  BY <1>1, CacheAssumption DEF StoreInv, LockInv, InsertStages
<1>5. ASSUME NEW e \in is_empty, keys[e] # NoKey PROVE e = next_empty[t]
  <2>1. PICK u \in Threads : pc[u] \in HalfWritten /\ next_empty[u] = e
    BY <1>4, <1>5 DEF EmptyKeysInv
  <2>2. cache_lock = u BY <1>4, <2>1 DEF LockInv, HalfWritten, InsertStages
  <2> QED BY <1>4, <2>1, <2>2
<1>6. Coming = {fp[t]} BY <1>2, <1>3, <1>5 DEF Coming
<1>7. Coming' = {} BY <1>1, <1>5 DEF Coming
<1>8. Published' = Published \cup {fp[t]} BY <1>1, <1>2 DEF Published
<1>9. Silent(t) BY <1>1 DEF Silent, Asking, LookupStages
<1>10. UNCHANGED <<Asked, Known, Replies>> BY <1>1, <1>9, ViewStays, ViewsStay
<1> QED
  BY <1>6, <1>7, <1>8, <1>10 DEF Store!EndStore, Coming, Asked, Known, Replies

(* lookup_fingerprint is called. *)
LEMMA BeginLookupMaps ==
  ASSUME TypeInv, NEW t \in Threads, NEW f \in Fingerprints, BeginLookup(t, f)
  PROVE  Store!Ask(t, f)
<1>1. /\ pc[t] = "idle" /\ pc'[t] = "probe" /\ fp'[t] = f
      /\ UNCHANGED <<keys, is_empty>>
      /\ \A u \in Threads \ {t} : Untouched(u)
  BY DEF BeginLookup, Goto, Untouched, TypeInv, TypeOK, sharedVars
<1>2. \A u \in Threads \ {t} : SameView(u) BY <1>1, ViewStays
<1>3. ~ Asking(t) /\ Asking(t)' BY <1>1 DEF Asking, LookupStages
<1>4. ReplyTo(t)' = ReplyTo(t) BY <1>1 DEF ReplyTo
<1>5. Asked[t] = NoKey BY <1>3 DEF Asked
<1>6. Asked'[t] = f BY <1>1, <1>3 DEF Asked
<1>7. Known'[t] = (f \in Published)
  <2>1. Known'[t] = (Asking(t)' /\ there'[t]) BY DEF Known
  <2>2. there'[t] <=> f \in Published BY DEF BeginLookup, TypeInv, TypeOK
  <2>3. Known'[t] <=> f \in Published BY <1>3, <2>1, <2>2
  <2>4. Known'[t] \in BOOLEAN BY <2>1
  <2> QED BY <2>3, <2>4
<1>8. Replies'[t] = Replies[t] BY <1>4 DEF Replies
<1>9. Asked' = [u \in Threads |-> Asked'[u]] /\ Asked = [u \in Threads |-> Asked[u]]
  BY DEF Asked
<1>10. Known' = [u \in Threads |-> Known'[u]] /\ Known = [u \in Threads |-> Known[u]]
  BY DEF Known
<1>11. Replies' = [u \in Threads |-> Replies'[u]] /\ Replies = [u \in Threads |-> Replies[u]]
  BY DEF Replies
<1>12. UNCHANGED <<Published, Coming>> BY <1>1 DEF Published, Coming
<1>13. \A u \in Threads \ {t} :
         Asked'[u] = Asked[u] /\ Known'[u] = Known[u] /\ Replies'[u] = Replies[u]
  BY <1>2 DEF SameView
<1> HIDE DEF Asked, Known, Replies
<1>14. Asked' = [Asked EXCEPT ![t] = f] BY <1>6, <1>9, <1>13
<1>15. Known' = [Known EXCEPT ![t] = f \in Published] BY <1>7, <1>10, <1>13
<1>16. Replies' = Replies BY <1>8, <1>11, <1>13
<1> QED
  BY <1>5, <1>12, <1>14, <1>15, <1>16 DEF Store!Ask, Coming, Asked, Known, Replies

(* A probe that goes on, or has hit, has not answered yet. *)
LEMMA ProbeUnseen ==
  ASSUME TypeInv, NEW t \in Threads, ProbeNext(t) \/ ProbeHit(t)
  PROVE  UNCHANGED <<Published, Coming, Asked, Known, Replies>>
<1>1. /\ UNCHANGED <<keys, is_empty, fp, there, buf>>
      /\ pc[t] = "probe" /\ pc'[t] \in {"probe", "copy_out"}
      /\ \A u \in Threads \ {t} : pc'[u] = pc[u]
  BY DEF ProbeNext, ProbeHit, Goto, TypeInv, TypeOK, sharedVars
<1>2. Asking(t) /\ Asking(t)' BY <1>1 DEF Asking, LookupStages
<1>3. ReplyTo(t)' = ReplyTo(t) BY <1>1 DEF ReplyTo
<1>4. Asked'[t] = Asked[t] BY <1>1, <1>2 DEF Asked
<1>5. Known'[t] = Known[t] BY <1>1, <1>2 DEF Known
<1>6. SameView(t) BY <1>3, <1>4, <1>5 DEF SameView, Replies
<1>7. \A u \in Threads \ {t} : Untouched(u) BY <1>1 DEF Untouched
<1> QED BY <1>1, <1>6, <1>7, UnseenStep

(* What a lookup has asked for, as long as it has no answer. *)
LEMMA WaitingView ==
  ASSUME TypeInv, NEW t \in Threads, pc[t] \in {"probe", "copy_out"}
  PROVE  /\ Asking(t) /\ Asked[t] = fp[t] /\ fp[t] \in Fingerprints /\ fp[t] # NoKey
         /\ Known[t] = (Asking(t) /\ there[t])
         /\ Replies[t] = Store!NoReply
<1>1. Asking(t) BY DEF Asking, LookupStages
<1>2. fp[t] \in Fingerprints /\ fp[t] # NoKey BY TableAssumption DEF TypeInv, FpInv
<1>3. ReplyTo(t) = Store!NoReply BY DEF ReplyTo, Store!NoReply
<1>4. Asked[t] = fp[t] BY <1>1 DEF Asked
<1>5. Known[t] = (Asking(t) /\ there[t]) BY DEF Known
<1>6. Replies[t] = Store!NoReply BY <1>3 DEF Replies
<1> QED BY <1>1, <1>2, <1>4, <1>5, <1>6

(* "missing" is answered only for what was not published at the start. *)
LEMMA ProbeMissMaps ==
  ASSUME TypeInv, ReaderInv', NumPages < TableSize, NEW t \in Threads, ProbeMiss(t)
  PROVE  Store!Miss(t)
<1>1. /\ UNCHANGED <<keys, is_empty, fp, there, buf, next_empty>>
      /\ pc[t] = "probe" /\ pc'[t] = "missing"
      /\ \A u \in Threads \ {t} : Untouched(u)
  BY DEF ProbeMiss, Goto, Untouched, TypeInv, TypeOK, sharedVars
<1>2. Asking(t) /\ Asking(t)' BY <1>1 DEF Asking, LookupStages
<1>3. Relies(t)' BY <1>1 DEF ReaderInv, LookupStages
<1>4. ~ there[t] BY <1>1, <1>3 DEF Relies
<1>5. /\ UNCHANGED <<Published, Coming, Asked, Known>>
      /\ Replies' = [Replies EXCEPT ![t] = ReplyTo(t)']
  BY <1>1, <1>2, AnswerStep
<1>6. ReplyTo(t)' = Store!Missing BY <1>1 DEF ReplyTo, Store!Missing
<1>7. Asked[t] # NoKey /\ Replies[t] = Store!NoReply /\ ~ Known[t]
  BY <1>1, <1>4, WaitingView
<1> QED
  BY <1>5, <1>6, <1>7 DEF Store!Miss, Store!Waits, Coming, Asked, Known, Replies

(* What a copy has to do with the slot it was hit in: a published one,     *)
(* with the entry of the fingerprint; or the empty slot of the probe, and  *)
(* then the fingerprint was not published at the start.                    *)
LEMMA CopyCases ==
  ASSUME FullInv, MeetsInv, NumPages < TableSize, NEW t \in Threads, pc[t] = "copy_out"
  PROVE  /\ fp[t] \in Published \cup Coming
         /\ \/ /\ SlotAt(t) # next_empty[t] /\ fp[t] \in Published /\ entry[t].size > 0
            \/ ~ there[t]
<1>1. TypeInv /\ StoreInv /\ ReaderInv BY DEF FullInv, CacheInv
<1>2. Relies(t) /\ pc[t] \in LookupStages /\ ~ ProbeEnds(t)
  BY <1>1 DEF ReaderInv, LookupStages, Relies
<1>3. SlotAt(t) \in Slots BY <1>1, <1>2, SlotAtInTable
<1>4. keys[SlotAt(t)] = fp[t] /\ (there[t] => SlotAt(t) # next_empty[t])
  BY DEF MeetsInv, Meets
<1>5. fp[t] \in Fingerprints /\ fp[t] # NoKey BY <1>1, TableAssumption DEF TypeInv, FpInv
<1>6. fp[t] \in Published \cup Coming
  BY <1>3, <1>4, <1>5 DEF Published, Coming
<1>7. CASE SlotAt(t) # next_empty[t]
  <2>1. entry[t] = entries[SlotAt(t)] BY <1>2, <1>7 DEF Relies
  <2>2. SlotAt(t) \in Slots \ is_empty
    BY <1>1, <1>2, <1>7, SlotAtBefore DEF Relies, Before
  <2>3. fp[t] \in Published BY <1>4, <2>2 DEF Published
  <2>4. HoldsContent(entry[t], fp[t])
    BY <1>1, <1>4, <2>1, <2>2 DEF StoreInv, PublishedIntact
  <2>5. entry[t].size > 0 BY <1>5, <2>4, CacheAssumption DEF HoldsContent
  <2> QED BY <1>6, <1>7, <2>3, <2>5
<1>8. CASE SlotAt(t) = next_empty[t] BY <1>4, <1>6, <1>8
<1> QED BY <1>7, <1>8

(* A copy gives the content, or what was half stored. *)
LEMMA CopyOutMaps ==
  ASSUME FullInv, FullInv', MeetsInv, NumPages < TableSize, NEW t \in Threads,
         CopyOut(t) \/ CopyOutFault(t)
  PROVE  Store!Hit(t) \/ Store!Torn(t)
<1>0. TypeInv BY DEF FullInv
<1>1. /\ UNCHANGED <<keys, is_empty, fp, there, i, next_empty>>
      /\ pc[t] = "copy_out" /\ pc'[t] \in {"populated", "fault"}
      /\ pc'[t] = "fault" => entry[t].size = 0
      /\ \A u \in Threads \ {t} : Untouched(u)
  <2>1. UNCHANGED <<keys, is_empty, fp, there, i, next_empty>>
    BY DEF CopyOut, CopyOutFault, sharedVars
  <2>2. pc[t] = "copy_out" /\ pc'[t] \in {"populated", "fault"}
    BY <1>0 DEF CopyOut, CopyOutFault, Goto, TypeInv, TypeOK
  <2>3. pc'[t] = "fault" => entry[t].size = 0
    BY <1>0 DEF CopyOut, CopyOutFault, Goto, TypeInv, TypeOK
  <2>4. \A u \in Threads \ {t} : buf'[u] = buf[u]
    BY DEF CopyOut, CopyOutFault, FullInv, BufInv
  <2>5. \A u \in Threads \ {t} : pc'[u] = pc[u]
    BY <1>0 DEF CopyOut, CopyOutFault, Goto, TypeInv, TypeOK
  <2> QED BY <2>1, <2>2, <2>3, <2>4, <2>5 DEF Untouched
<1>2. Asking(t) /\ Asking(t)' BY <1>1 DEF Asking, LookupStages
<1>3. /\ UNCHANGED <<Published, Coming, Asked, Known>>
      /\ Replies' = [Replies EXCEPT ![t] = ReplyTo(t)']
  BY <1>1, <1>2, AnswerStep
<1>4. /\ Asked[t] = fp[t] /\ fp[t] \in Fingerprints /\ fp[t] # NoKey
      /\ Known[t] = (Asking(t) /\ there[t]) /\ Replies[t] = Store!NoReply
  BY <1>0, <1>1, WaitingView
<1>5. fp[t] \in Published \cup Coming BY <1>1, CopyCases
<1>6. CASE SlotAt(t) # next_empty[t] /\ fp[t] \in Published /\ entry[t].size > 0
  <2>1. pc'[t] = "populated" BY <1>0, <1>1, <1>6
  <2>2. SlotAt(t)' # next_empty'[t] BY <1>1, <1>6 DEF SlotAt
  <2>3. buf'[t] = [k \in 1 .. NumPagesOf[fp[t]] |-> <<fp[t], k>>]
    BY <1>1, <2>1, <2>2 DEF FullInv, CacheInv, LookupIntact
  <2>4. ReplyTo(t)' = Store!Found(fp[t])
    BY <1>4, <2>1, <2>3 DEF ReplyTo, Store!Found
  <2>5. Store!Hit(t)
    BY <1>3, <1>4, <1>6, <2>4
       DEF Store!Hit, Store!Waits, Coming, Asked, Known, Replies
  <2> QED BY <2>5
<1>7. CASE ~ there[t]
  <2>1. ~ Known[t] BY <1>4, <1>7
  <2>2. ReplyTo(t)'.kind \in {"content", "fault"} BY <1>1 DEF ReplyTo
  <2>3. Replies'[t] = ReplyTo(t)' BY DEF Replies
  <2>4. Store!Torn(t)
    BY <1>3, <1>4, <1>5, <2>1, <2>2, <2>3
       DEF Store!Torn, Store!Waits, Coming, Asked, Known, Replies
  <2> QED BY <2>4
<1> QED BY <1>1, <1>6, <1>7, CopyCases

(* Every step of the cache is one of the store, or is not seen. *)
LEMMA StepIsStore ==
  ASSUME FullInv, FullInv', EmptyKeysInv, MeetsInv, NumPages < TableSize, [Next]_vars
  PROVE  Store!Next \/ UNCHANGED <<Published, Coming, Asked, Known, Replies>>
<1>0. TypeInv /\ StoreInv /\ ReaderInv' BY DEF FullInv, CacheInv
<1>1. ASSUME NEW t \in Threads, WriteKey(t) PROVE Store!Next
  BY <1>0, <1>1, WriteKeyMaps DEF Store!Next
<1>2. ASSUME NEW t \in Threads, ClearBit(t) PROVE Store!Next
  BY <1>0, <1>2, ClearBitMaps DEF Store!Next
<1>3. ASSUME NEW t \in Threads, TestSkip(t) \/ InsertStep(t), ~ WriteKey(t), ~ ClearBit(t)
      PROVE  UNCHANGED <<Published, Coming, Asked, Known, Replies>>
  BY <1>0, <1>3, InsertUnseen
<1>4. ASSUME NEW t \in Threads, NEW f \in Fingerprints, BeginLookup(t, f) PROVE Store!Next
  BY <1>0, <1>4, BeginLookupMaps DEF Store!Next
<1>5. ASSUME NEW t \in Threads, ProbeNext(t) \/ ProbeHit(t)
      PROVE  UNCHANGED <<Published, Coming, Asked, Known, Replies>>
  BY <1>0, <1>5, ProbeUnseen
<1>6. ASSUME NEW t \in Threads, ProbeMiss(t) PROVE Store!Next
  BY <1>0, <1>6, ProbeMissMaps DEF Store!Next
<1>7. ASSUME NEW t \in Threads, CopyOut(t) \/ CopyOutFault(t) PROVE Store!Next
  BY <1>7, CopyOutMaps DEF Store!Next
<1>8. ASSUME NEW t \in Threads, EndLookup(t) PROVE Store!Next
  <2>1. FreshLocals({t}) /\ UNCHANGED <<keys, is_empty>> BY <1>8 DEF EndLookup, sharedVars
  <2>2. Store!Leave({t}) BY <2>1, LeaveStep
  <2>3. {t} \in SUBSET Threads OBVIOUS
  <2> QED BY <2>2, <2>3 DEF Store!Next
<1>9. ASSUME NEW p \in Procs, Crash(p) PROVE Store!Next
  <2> DEFINE T == {t \in Threads : ProcOf[t] = p}
  <2>1. T \in SUBSET Threads OBVIOUS
  <2>2. FreshLocals(T) /\ UNCHANGED <<keys, is_empty>> BY <1>9 DEF Crash, sharedVars
  <2> HIDE DEF T
  <2>3. Store!Leave(T) BY <2>1, <2>2, LeaveStep
  <2> QED BY <2>1, <2>3 DEF Store!Next
<1>10. CASE UNCHANGED vars
  <2>1. UNCHANGED <<keys, is_empty>> BY <1>10 DEF vars, sharedVars
  <2>2. \A u \in Threads : Untouched(u) BY <1>10 DEF vars, localVars, Untouched
  <2>3. UNCHANGED <<Asked, Known, Replies>> BY <2>2, ViewStays, ViewsStay
  <2> QED BY <2>1, <2>3 DEF Published, Coming
<1> QED
  BY <1>1, <1>2, <1>3, <1>4, <1>5, <1>6, <1>7, <1>8, <1>9, <1>10 DEF Next, LookupStep

(* A cache just initialised is an empty store. *)
LEMMA InitIsStore == Init => Store!Init
<1> SUFFICES ASSUME Init PROVE Store!Init OBVIOUS
<1>1. \A t \in Threads : ~ Asking(t) /\ ReplyTo(t) = Store!NoReply
  BY DEF Init, Asking, LookupStages, ReplyTo, Store!NoReply
<1>2. Published = {} /\ Coming = {} BY DEF Init, Published, Coming
<1>3. Asked = [t \in Threads |-> NoKey] BY <1>1 DEF Asked
<1>4. Known = [t \in Threads |-> FALSE] BY <1>1 DEF Known
<1>5. Replies = [t \in Threads |-> Store!NoReply] BY <1>1 DEF Replies
<1> QED BY <1>2, <1>3, <1>4, <1>5 DEF Store!Init, Coming, Asked, Known, Replies

(* The fingerprint cache implements the store: with more slots than pages, *)
(* as config.h has it, whatever threads and killed processes do, every     *)
(* step is one of ContentStore or is not seen by any client.               *)
THEOREM CacheIsStore ==
  ASSUME NumPages < TableSize PROVE Spec => ImplementsStore
<1>1. Init => FullInv /\ EmptyKeysInv /\ MeetsInv
  BY FullInit, EmptyKeysInit DEF Init, MeetsInv
<1>2. FullInv /\ EmptyKeysInv /\ MeetsInv /\ [Next]_vars
        => (FullInv /\ EmptyKeysInv /\ MeetsInv)'
  BY FullNext, EmptyKeysNext, MeetsNext DEF FullInv, CacheInv
<1>3. FullInv /\ FullInv' /\ EmptyKeysInv /\ MeetsInv /\ [Next]_vars
        => [Store!Next]_(Store!storeVars)
  BY StepIsStore DEF Store!storeVars, Coming, Asked, Known, Replies
<1> QED BY <1>1, <1>2, <1>3, InitIsStore, PTL DEF Spec, ImplementsStore, Store!Spec

=============================================================================
