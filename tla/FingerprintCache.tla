-------------------------- MODULE FingerprintCache --------------------------
(***************************************************************************)
(* The fingerprint cache in POSIX shared memory (fingerprint_cache.c,      *)
(* fingerprint_table.c) as the proxy threads of several processes use it   *)
(* from net_dedup.c.                                                       *)
(*                                                                         *)
(* Insertions (process_insert_outbound_fingerprints and                    *)
(* processs_insert_inbound_fingerprints) hold cache_lock, which they take  *)
(* with trylock; lookups (process_populate_from_net_cache) take no lock.   *)
(* An insertion is therefore split at every store to shared memory that a  *)
(* lookup can observe, and a lookup at every probe.  The stores become     *)
(* visible in program order, as the x86-64 build makes them.               *)
(*                                                                         *)
(* The list of fingerprints of one request is abstracted to a free choice  *)
(* of the next fingerprint on every turn of the loop.  Content is counted  *)
(* in pages: page k of the content of fingerprint f is <<f, k>>.           *)
(***************************************************************************)
EXTENDS FingerprintTable, FiniteSets

CONSTANTS
  Threads,          \* proxy threads that call the plugin
  ProcOf,           \* the process of a thread
  NumPages,         \* FINGERPRINT_CACHE_NUM_PAGES
  ContentMaxPages,  \* FINGERPRINT_CONTENT_MAX_PAGES
  NumPagesOf,       \* MY_CEIL(content_size, FINGERPRINT_CACHE_PAGE_SIZE)
  MaxCrashes,       \* bound on the number of killed processes
  Free,             \* cache_lock is not held
  Orphan            \* cache_lock is held by a thread that no longer exists

ASSUME CacheAssumption ==
  /\ NumPages \in Nat \ {0}
  /\ ContentMaxPages \in Nat \ {0}
  /\ NumPagesOf \in [Fingerprints -> Nat \ {0}]
  /\ MaxCrashes \in Nat
  /\ Free \notin Threads
  /\ Orphan \notin Threads
  /\ Free # Orphan

Procs == {ProcOf[t] : t \in Threads}
Pages == 0 .. NumPages - 1
PageInds == 1 .. ContentMaxPages

(* What a page, and an entry of the table, hold before anything is stored. *)
ZeroPage == <<NoKey, 0>>
ZeroEntry == [size |-> 0, page |-> [k \in PageInds |-> 0]]

VARIABLES
  (* shared memory: Fingerprint_Cache *)
  keys,                 \* table.items, the key part
  entries,              \* table.items, the Fingerprint_Entry part
  is_empty,             \* table.is_empty_bit_vector
  cnt,                  \* table.cnt
  pages,                \* cache, page by page
  num_free_pages,
  free_pages_read_ind,
  cache_lock,
  (* of each process *)
  to_skip_insert_cache,
  (* of each thread, on its stack *)
  pc,
  fp,                   \* the fingerprint at hand
  i,                    \* loop index
  next_empty,           \* slot computed from the bit vector
  entry,                \* new_entry of an insertion, entry of a lookup
  buf,                  \* application buffer a lookup fills
  (* bookkeeping of the model *)
  there,                \* was fp in the table when the lookup began?
  crashes

sharedVars == <<keys, entries, is_empty, cnt, pages, num_free_pages,
                free_pages_read_ind>>
localVars == <<pc, fp, i, next_empty, entry, buf, there>>
vars == <<sharedVars, cache_lock, to_skip_insert_cache, localVars, crashes>>

InsertStages == {"insert", "copy_in", "find", "write_key", "write_size",
                 "write_pages", "clear_bit"}
LookupStages == {"probe", "copy_out", "populated", "missing"}
Stages == {"idle", "try_lock", "set_skip", "fault"} \cup InsertStages \cup LookupStages

Entry == [size : Nat, page : [PageInds -> Pages]]

(* The fingerprints a lookup that started now would have to find. *)
Published == {keys[s] : s \in Slots \ is_empty}

(* e leads to the whole content of f. *)
HoldsContent(e, f) ==
  /\ e.size = NumPagesOf[f]
  /\ \A k \in 1 .. NumPagesOf[f] : pages[e.page[k]] = <<f, k>>

(* free_pages as init_fingerprint_cache fills it; nothing writes it later. *)
free_pages == [k \in Pages |-> k]

(* init_fingerprint_cache, init_fingerprint_table; each process starts     *)
(* with or without SKIP_INSERT_CACHE in its environment.                   *)
Init ==
  /\ keys = [s \in Slots |-> NoKey]
  /\ entries = [s \in Slots |-> ZeroEntry]
  /\ is_empty = Slots
  /\ cnt = 0
  /\ pages = [p \in Pages |-> ZeroPage]
  /\ num_free_pages = NumPages
  /\ free_pages_read_ind = 0
  /\ cache_lock = Free
  /\ to_skip_insert_cache \in [Procs -> BOOLEAN]
  /\ pc = [t \in Threads |-> "idle"]
  /\ fp = [t \in Threads |-> NoKey]
  /\ i = [t \in Threads |-> 0]
  /\ next_empty = [t \in Threads |-> 0]
  /\ entry = [t \in Threads |-> ZeroEntry]
  /\ buf = [t \in Threads |-> <<>>]
  /\ there = [t \in Threads |-> FALSE]
  /\ crashes = 0

(* The stack frames of the threads in T are gone. *)
FreshLocals(T) ==
  /\ pc' = [t \in Threads |-> IF t \in T THEN "idle" ELSE pc[t]]
  /\ fp' = [t \in Threads |-> IF t \in T THEN NoKey ELSE fp[t]]
  /\ i' = [t \in Threads |-> IF t \in T THEN 0 ELSE i[t]]
  /\ next_empty' = [t \in Threads |-> IF t \in T THEN 0 ELSE next_empty[t]]
  /\ entry' = [t \in Threads |-> IF t \in T THEN ZeroEntry ELSE entry[t]]
  /\ buf' = [t \in Threads |-> IF t \in T THEN <<>> ELSE buf[t]]
  /\ there' = [t \in Threads |-> IF t \in T THEN FALSE ELSE there[t]]

Goto(t, stage) == pc' = [pc EXCEPT ![t] = stage]

-----------------------------------------------------------------------------
(* Insertion, under cache_lock.                                            *)

(* An insert stage begins.  With to_skip_insert_cache set it returns 1 and *)
(* changes nothing; the flag may be set by another thread after the test.  *)
TestSkip(t) ==
  /\ pc[t] = "idle"
  /\ ~ to_skip_insert_cache[ProcOf[t]]
  /\ Goto(t, "try_lock")
  /\ UNCHANGED <<sharedVars, cache_lock, to_skip_insert_cache, fp, i,
                 next_empty, entry, buf, there, crashes>>

(* pthread_mutex_trylock fails, and the stage returns 0. *)
TryLockFails(t) ==
  /\ pc[t] = "try_lock"
  /\ cache_lock # Free
  /\ FreshLocals({t})
  /\ UNCHANGED <<sharedVars, cache_lock, to_skip_insert_cache, crashes>>

(* Mutant: the result is tested with "< 0", which EBUSY is not. *)
TryLockUntested(t) ==
  /\ pc[t] = "try_lock"
  /\ cache_lock' = t
  /\ Goto(t, "insert")
  /\ UNCHANGED <<sharedVars, to_skip_insert_cache, fp, i, next_empty, entry,
                 buf, there, crashes>>

TryLock(t) ==
  /\ pc[t] = "try_lock"
  /\ cache_lock = Free
  /\ cache_lock' = t
  /\ Goto(t, "insert")
  /\ UNCHANGED <<sharedVars, to_skip_insert_cache, fp, i, next_empty, entry,
                 buf, there, crashes>>

(* The loop over the fingerprints of the request is over. *)
Unlock(t) ==
  /\ pc[t] = "insert"
  /\ cache_lock' = Free
  /\ FreshLocals({t})
  /\ UNCHANGED <<sharedVars, to_skip_insert_cache, crashes>>

(* Mutant: the error path forgets pthread_mutex_unlock. *)
CacheIsFullKeepsLock(t) ==
  /\ Goto(t, "set_skip")
  /\ UNCHANGED <<sharedVars, cache_lock, to_skip_insert_cache, fp, i,
                 next_empty, entry, buf, there, crashes>>

(* insert_fingerprint returned -1: "CACHE IS FULL".  The lock is given     *)
(* back first, ...                                                         *)
CacheIsFull(t) ==
  /\ cache_lock' = Free
  /\ Goto(t, "set_skip")
  /\ UNCHANGED <<sharedVars, to_skip_insert_cache, fp, i, next_empty, entry,
                 buf, there, crashes>>

(* ... and then the process stops inserting for good. *)
SetSkip(t) ==
  /\ pc[t] = "set_skip"
  /\ to_skip_insert_cache' = [to_skip_insert_cache EXCEPT ![ProcOf[t]] = TRUE]
  /\ FreshLocals({t})
  /\ UNCHANGED <<sharedVars, cache_lock, crashes>>

(* get_free_cache_pages has no room for the next fingerprint, f. *)
NoFreePages(t, f) ==
  /\ pc[t] = "insert"
  /\ \/ NumPagesOf[f] > ContentMaxPages
     \/ NumPagesOf[f] > num_free_pages
  /\ CacheIsFull(t)

(* Mutant: the read index is not taken modulo FINGERPRINT_CACHE_NUM_PAGES. *)
GetFreePagesNoWrap(t, f) ==
  /\ pc[t] = "insert"
  /\ NumPagesOf[f] <= ContentMaxPages
  /\ NumPagesOf[f] <= num_free_pages
  /\ fp' = [fp EXCEPT ![t] = f]
  /\ entry' = [entry EXCEPT ![t] =
       [size |-> NumPagesOf[f],
        page |-> [k \in PageInds |->
           IF k <= NumPagesOf[f] THEN free_pages_read_ind + (k - 1) ELSE 0]]]
  /\ num_free_pages' = num_free_pages - NumPagesOf[f]
  /\ free_pages_read_ind' = free_pages_read_ind + NumPagesOf[f]
  /\ i' = [i EXCEPT ![t] = 1]
  /\ Goto(t, "copy_in")
  /\ UNCHANGED <<keys, entries, is_empty, cnt, pages, cache_lock,
                 to_skip_insert_cache, next_empty, buf, there, crashes>>

(* Mutant: num_free_pages is not decreased, so pages are handed out again. *)
GetFreePagesNoCount(t, f) ==
  /\ pc[t] = "insert"
  /\ NumPagesOf[f] <= ContentMaxPages
  /\ NumPagesOf[f] <= num_free_pages
  /\ fp' = [fp EXCEPT ![t] = f]
  /\ entry' = [entry EXCEPT ![t] =
       [size |-> NumPagesOf[f],
        page |-> [k \in PageInds |->
           IF k <= NumPagesOf[f]
             THEN Wrap(free_pages_read_ind + (k - 1), NumPages) ELSE 0]]]
  /\ free_pages_read_ind' = Wrap(free_pages_read_ind + NumPagesOf[f], NumPages)
  /\ i' = [i EXCEPT ![t] = 1]
  /\ Goto(t, "copy_in")
  /\ UNCHANGED <<keys, entries, is_empty, cnt, pages, num_free_pages,
                 cache_lock, to_skip_insert_cache, next_empty, buf, there,
                 crashes>>

(* get_free_cache_pages hands out the pages for the next fingerprint, f.   *)
(* insert_fingerprint calls it before it looks f up.  The code leaves the  *)
(* page numbers above n as they were; nothing reads them.                  *)
GetFreePages(t, f) ==
  LET n == NumPagesOf[f] IN
  /\ pc[t] = "insert"
  /\ n <= ContentMaxPages
  /\ n <= num_free_pages
  /\ fp' = [fp EXCEPT ![t] = f]
  /\ entry' = [entry EXCEPT ![t] =
       [size |-> n,
        page |-> [k \in PageInds |->
           IF k <= n THEN free_pages[Wrap(free_pages_read_ind + (k - 1), NumPages)]
                     ELSE 0]]]
  /\ num_free_pages' = num_free_pages - n
  /\ free_pages_read_ind' = Wrap(free_pages_read_ind + n, NumPages)
  /\ i' = [i EXCEPT ![t] = 1]
  /\ Goto(t, "copy_in")
  /\ UNCHANGED <<keys, entries, is_empty, cnt, pages, cache_lock,
                 to_skip_insert_cache, next_empty, buf, there, crashes>>

(* Mutant: the last page, which is handled apart, is not copied. *)
CopyInSkipsLast(t) ==
  /\ pc[t] = "copy_in"
  /\ pages' = [pages EXCEPT ![entry[t].page[i[t]]] = <<fp[t], i[t]>>]
  /\ i' = [i EXCEPT ![t] = i[t] + 1]
  /\ Goto(t, IF i[t] < NumPagesOf[fp[t]] - 1 THEN "copy_in" ELSE "find")
  /\ UNCHANGED <<keys, entries, is_empty, cnt, num_free_pages,
                 free_pages_read_ind, cache_lock, to_skip_insert_cache, fp,
                 next_empty, entry, buf, there, crashes>>

(* insert_fingerprint_cache copies one page of content. *)
CopyIn(t) ==
  /\ pc[t] = "copy_in"
  /\ pages' = [pages EXCEPT ![entry[t].page[i[t]]] = <<fp[t], i[t]>>]
  /\ i' = [i EXCEPT ![t] = i[t] + 1]
  /\ Goto(t, IF i[t] < NumPagesOf[fp[t]] THEN "copy_in" ELSE "find")
  /\ UNCHANGED <<keys, entries, is_empty, cnt, num_free_pages,
                 free_pages_read_ind, cache_lock, to_skip_insert_cache, fp,
                 next_empty, entry, buf, there, crashes>>

(* Mutant: only the slot at hash_ind is compared, without probing on. *)
FoundAtHashOnly(t, n) == keys[HashInd[fp[t]]] = fp[t]

(* find_fingerprint_table as the lock holder runs it: n is the next empty  *)
(* slot, and nothing it reads can change under it.                         *)
FoundUnderLock(t, n) ==
  \E s \in ProbedSlots(HashInd[fp[t]], n) : keys[s] = fp[t]

(* The fingerprint is there already: the pages just filled stay allocated. *)
FindDuplicate(t) ==
  /\ pc[t] = "find"
  /\ \E n \in 0 .. TableSize : /\ IsNextInd(is_empty, HashInd[fp[t]], n)
                               /\ FoundUnderLock(t, n)
  /\ Goto(t, "insert")
  /\ UNCHANGED <<sharedVars, cache_lock, to_skip_insert_cache, fp, i,
                 next_empty, entry, buf, there, crashes>>

(* insert_fingerprint_table refuses: cnt == size. *)
TableIsFull(t) ==
  /\ pc[t] = "find"
  /\ \E n \in 0 .. TableSize : /\ IsNextInd(is_empty, HashInd[fp[t]], n)
                               /\ ~ FoundUnderLock(t, n)
  /\ cnt = TableSize
  /\ CacheIsFull(t)

(* Mutant: the item goes to hash_ind, full or not. *)
FindInsertIndNoProbe(t) ==
  /\ pc[t] = "find"
  /\ cnt # TableSize
  /\ \E n \in 0 .. TableSize : /\ IsNextInd(is_empty, HashInd[fp[t]], n)
                               /\ ~ FoundUnderLock(t, n)
  /\ next_empty' = [next_empty EXCEPT ![t] = HashInd[fp[t]]]
  /\ Goto(t, "write_key")
  /\ UNCHANGED <<sharedVars, cache_lock, to_skip_insert_cache, fp, i, entry,
                 buf, there, crashes>>

(* insert_fingerprint_table chooses insert_ind. *)
FindInsertInd(t) ==
  /\ pc[t] = "find"
  /\ cnt # TableSize
  /\ \E n \in 0 .. TableSize : /\ IsNextInd(is_empty, HashInd[fp[t]], n)
                               /\ ~ FoundUnderLock(t, n)
                               /\ next_empty' = [next_empty EXCEPT ![t] = n]
  /\ Goto(t, "write_key")
  /\ UNCHANGED <<sharedVars, cache_lock, to_skip_insert_cache, fp, i, entry,
                 buf, there, crashes>>

(* Mutant: the bit is cleared first, before key and value are in place. *)
WriteKeyPublishes(t) ==
  /\ pc[t] = "write_key"
  /\ keys' = [keys EXCEPT ![next_empty[t]] = fp[t]]
  /\ is_empty' = is_empty \ {next_empty[t]}
  /\ Goto(t, "write_size")
  /\ UNCHANGED <<entries, cnt, pages, num_free_pages, free_pages_read_ind,
                 cache_lock, to_skip_insert_cache, fp, i, next_empty, entry,
                 buf, there, crashes>>

(* The first memcpy of insert_fingerprint_table. *)
WriteKey(t) ==
  /\ pc[t] = "write_key"
  /\ keys' = [keys EXCEPT ![next_empty[t]] = fp[t]]
  /\ Goto(t, "write_size")
  /\ UNCHANGED <<entries, is_empty, cnt, pages, num_free_pages,
                 free_pages_read_ind, cache_lock, to_skip_insert_cache, fp, i,
                 next_empty, entry, buf, there, crashes>>

(* The second memcpy, in two parts: content_size comes first in the struct.*)
WriteSize(t) ==
  /\ pc[t] = "write_size"
  /\ entries' = [entries EXCEPT ![next_empty[t]].size = entry[t].size]
  /\ Goto(t, "write_pages")
  /\ UNCHANGED <<keys, is_empty, cnt, pages, num_free_pages,
                 free_pages_read_ind, cache_lock, to_skip_insert_cache, fp, i,
                 next_empty, entry, buf, there, crashes>>

WritePages(t) ==
  /\ pc[t] = "write_pages"
  /\ entries' = [entries EXCEPT ![next_empty[t]].page = entry[t].page]
  /\ Goto(t, "clear_bit")
  /\ UNCHANGED <<keys, is_empty, cnt, pages, num_free_pages,
                 free_pages_read_ind, cache_lock, to_skip_insert_cache, fp, i,
                 next_empty, entry, buf, there, crashes>>

(* Mutant: the mask is an int, whose sign bit clears the slots above, too. *)
ClearBitSignExtends(t) ==
  /\ pc[t] = "clear_bit"
  /\ cnt' = cnt + 1
  /\ is_empty' = is_empty \ (next_empty[t] .. TableSize - 1)
  /\ Goto(t, "insert")
  /\ UNCHANGED <<keys, entries, pages, num_free_pages, free_pages_read_ind,
                 cache_lock, to_skip_insert_cache, fp, i, next_empty, entry,
                 buf, there, crashes>>

(* The bookkeeping that publishes the entry. *)
ClearBit(t) ==
  /\ pc[t] = "clear_bit"
  /\ cnt' = cnt + 1
  /\ is_empty' = is_empty \ {next_empty[t]}
  /\ Goto(t, "insert")
  /\ UNCHANGED <<keys, entries, pages, num_free_pages, free_pages_read_ind,
                 cache_lock, to_skip_insert_cache, fp, i, next_empty, entry,
                 buf, there, crashes>>

-----------------------------------------------------------------------------
(* Lookup, without cache_lock.                                             *)

(* lookup_fingerprint calls find_fingerprint_table, which scans the bit    *)
(* vector first.  Bits only change from 1 to 0, so a scan word by word     *)
(* returns what an instantaneous one would return at its last word.        *)
BeginLookup(t, f) ==
  /\ pc[t] = "idle"
  /\ \E n \in 0 .. TableSize : /\ IsNextInd(is_empty, HashInd[f], n)
                               /\ next_empty' = [next_empty EXCEPT ![t] = n]
  /\ fp' = [fp EXCEPT ![t] = f]
  /\ i' = [i EXCEPT ![t] = 0]
  /\ there' = [there EXCEPT ![t] = f \in Published]
  /\ Goto(t, "probe")
  /\ UNCHANGED <<sharedVars, cache_lock, to_skip_insert_cache, entry, buf,
                 crashes>>

(* The slot thread t compares, or compared, with its fingerprint. *)
SlotAt(t) == ProbeSlot(HashInd[fp[t]], i[t])

ProbeEnds(t) == i[t] >= ItemsToCheck(HashInd[fp[t]], next_empty[t])

(* Mutant: the loop does not advance to the next slot. *)
ProbeNextStuck(t) ==
  /\ pc[t] = "probe"
  /\ ~ ProbeEnds(t)
  /\ keys[SlotAt(t)] # fp[t]
  /\ UNCHANGED vars

(* One turn of the loop: the keys differ. *)
ProbeNext(t) ==
  /\ pc[t] = "probe"
  /\ ~ ProbeEnds(t)
  /\ keys[SlotAt(t)] # fp[t]
  /\ i' = [i EXCEPT ![t] = i[t] + 1]
  /\ UNCHANGED <<sharedVars, cache_lock, to_skip_insert_cache, pc, fp,
                 next_empty, entry, buf, there, crashes>>

(* One turn of the loop: the keys are equal, the entry is copied. *)
ProbeHit(t) ==
  /\ pc[t] = "probe"
  /\ ~ ProbeEnds(t)
  /\ keys[SlotAt(t)] = fp[t]
  /\ entry' = [entry EXCEPT ![t] = entries[SlotAt(t)]]
  /\ Goto(t, "copy_out")
  /\ UNCHANGED <<sharedVars, cache_lock, to_skip_insert_cache, fp, i,
                 next_empty, buf, there, crashes>>

(* The fingerprint goes into missing_fingerprint_inds. *)
ProbeMiss(t) ==
  /\ pc[t] = "probe"
  /\ ProbeEnds(t)
  /\ Goto(t, "missing")
  /\ UNCHANGED <<sharedVars, cache_lock, to_skip_insert_cache, fp, i,
                 next_empty, entry, buf, there, crashes>>

(* copy_fingerprint_content, page by page; the pages of an entry do not    *)
(* change meanwhile.  With content_size 0 its loop bound                   *)
(* content_num_pages - 1 wraps around, and the copy runs out of memory.    *)
CopyOut(t) ==
  /\ pc[t] = "copy_out"
  /\ entry[t].size > 0
  /\ buf' = [buf EXCEPT ![t] =
               [k \in 1 .. entry[t].size |-> pages[entry[t].page[k]]]]
  /\ Goto(t, "populated")
  /\ UNCHANGED <<sharedVars, cache_lock, to_skip_insert_cache, fp, i,
                 next_empty, entry, there, crashes>>

CopyOutFault(t) ==
  /\ pc[t] = "copy_out"
  /\ entry[t].size = 0
  /\ Goto(t, "fault")
  /\ UNCHANGED <<sharedVars, cache_lock, to_skip_insert_cache, fp, i,
                 next_empty, entry, buf, there, crashes>>

(* The loop of process_populate_from_net_cache goes on or ends. *)
EndLookup(t) ==
  /\ pc[t] \in {"populated", "missing"}
  /\ FreshLocals({t})
  /\ UNCHANGED <<sharedVars, cache_lock, to_skip_insert_cache, crashes>>

-----------------------------------------------------------------------------
(* A process is killed (netDedup_test itself calls kill(0, SIGKILL)) and   *)
(* started again: the shared memory survives, a mutex its thread held is   *)
(* not robust and stays locked, and netDedup_init attaches to the cache.   *)
Crash(p) ==
  LET T == {t \in Threads : ProcOf[t] = p} IN
  /\ crashes < MaxCrashes
  /\ crashes' = crashes + 1
  /\ cache_lock' = IF cache_lock \in T THEN Orphan ELSE cache_lock
  /\ \E skip \in BOOLEAN :
       to_skip_insert_cache' = [to_skip_insert_cache EXCEPT ![p] = skip]
  /\ FreshLocals(T)
  /\ UNCHANGED sharedVars

(* The steps a thread takes inside one call into the plugin. *)
InsertStep(t) ==
  \/ TryLock(t) \/ TryLockFails(t) \/ SetSkip(t)
  \/ \E f \in Fingerprints : NoFreePages(t, f) \/ GetFreePages(t, f)
  \/ CopyIn(t) \/ FindDuplicate(t) \/ TableIsFull(t) \/ FindInsertInd(t)
  \/ WriteKey(t) \/ WriteSize(t) \/ WritePages(t) \/ ClearBit(t)
  \/ Unlock(t)

LookupStep(t) ==
  \/ ProbeNext(t) \/ ProbeHit(t) \/ ProbeMiss(t)
  \/ CopyOut(t) \/ CopyOutFault(t) \/ EndLookup(t)

Next ==
  \/ \E t \in Threads :
       \/ TestSkip(t)
       \/ \E f \in Fingerprints : BeginLookup(t, f)
       \/ InsertStep(t)
       \/ LookupStep(t)
  \/ \E p \in Procs : Crash(p)

Spec == Init /\ [][Next]_vars

(* A thread that is inside a call keeps running until the call returns. *)
Fairness == \A t \in Threads : WF_vars(InsertStep(t)) /\ WF_vars(LookupStep(t))

FairSpec == Spec /\ Fairness

-----------------------------------------------------------------------------
(* Properties.                                                             *)

(* Every variable has its type: Fingerprint_Cache and the locals of the    *)
(* functions that use it.                                                  *)
TypeOK ==
  /\ keys \in [Slots -> Fingerprints \cup {NoKey}]
  /\ entries \in [Slots -> Entry]
  /\ is_empty \subseteq Slots
  /\ cnt \in Nat
  /\ pages \in [Pages -> (Fingerprints \cup {NoKey}) \X Nat]
  /\ num_free_pages \in 0 .. NumPages
  /\ free_pages_read_ind \in Pages
  /\ cache_lock \in Threads \cup {Free, Orphan}
  /\ to_skip_insert_cache \in [Procs -> BOOLEAN]
  /\ pc \in [Threads -> Stages]
  /\ fp \in [Threads -> Fingerprints \cup {NoKey}]
  /\ i \in [Threads -> Nat]
  /\ next_empty \in [Threads -> 0 .. TableSize]
  /\ entry \in [Threads -> Entry]
  /\ there \in [Threads -> BOOLEAN]
  /\ crashes \in 0 .. MaxCrashes

(* Whatever insert_fingerprint published (its bit in is_empty_bit_vector   *)
(* is 0) leads to the whole content of its key, however insertions,        *)
(* duplicates, a full cache and killed processes follow one another.       *)
PublishedIntact ==
  \A s \in Slots \ is_empty :
    keys[s] \in Fingerprints /\ HoldsContent(entries[s], keys[s])

(* "takes care of duplicates": insert_fingerprint never publishes a        *)
(* fingerprint twice.                                                      *)
UniqueKeys ==
  \A s1, s2 \in Slots \ is_empty : keys[s1] = keys[s2] => s1 = s2

(* A lookup that hits a slot other than the empty one it computed first    *)
(* fills the application buffer with the content of its fingerprint, with  *)
(* no lock and whatever the lock holder writes at the same time.           *)
LookupIntact ==
  \A t \in Threads :
    /\ pc[t] = "populated"
    /\ SlotAt(t) # next_empty[t]
    => buf[t] = [k \in 1 .. NumPagesOf[fp[t]] |-> <<fp[t], k>>]

(* lookup_fingerprint reports missing only what was not published when it  *)
(* began, so nothing that is cached is sent again.                         *)
LookupComplete == \A t \in Threads : pc[t] = "missing" => ~ there[t]

(* insert_fingerprint_table never meets cnt == size.  It needs more slots  *)
(* than pages, as config.h has it.                                         *)
TableNeverFull == cnt < TableSize /\ is_empty # {}

(* What is published stays: a step of insert_fingerprint touches neither   *)
(* the slot nor the pages of a published fingerprint.                      *)
PublishedStays ==
  \A s \in Slots \ is_empty :
    /\ s \notin is_empty'
    /\ keys'[s] = keys[s]
    /\ entries'[s] = entries[s]
    /\ \A k \in 1 .. entries[s].size :
         pages'[entries[s].page[k]] = pages[entries[s].page[k]]

EntriesImmutable == [][PublishedStays]_vars

-----------------------------------------------------------------------------
(* The inductive invariant behind the properties.                          *)

Filling == {"copy_in", "find", "write_key", "write_size", "write_pages",
            "clear_bit"}
Writing == {"write_key", "write_size", "write_pages", "clear_bit"}

(* Pages are handed out in order, so 0 .. Used - 1 are in use. *)
Used == NumPages - num_free_pages

(* cache_lock and the place in the code agree. *)
LockInv == \A t \in Threads : cache_lock = t <=> pc[t] \in InsertStages

(* get_free_cache_pages reads free_pages at the first page not in use. *)
AllocInv == free_pages_read_ind = Wrap(Used, NumPages)

(* The lock holder fills the pages handed out last, ... *)
Holds(t) ==
  /\ NumPagesOf[fp[t]] <= ContentMaxPages
  /\ NumPagesOf[fp[t]] <= Used
  /\ entry[t].size = NumPagesOf[fp[t]]
  /\ \A k \in 1 .. NumPagesOf[fp[t]] :
       entry[t].page[k] = (Used - NumPagesOf[fp[t]]) + (k - 1)

HolderInv == \A t \in Threads : pc[t] \in Filling => Holds(t)

(* ... all of them, one after the other, ... *)
Copied(t) ==
  /\ pc[t] = "copy_in" => i[t] \in 1 .. NumPagesOf[fp[t]]
  /\ \A k \in 1 .. NumPagesOf[fp[t]] :
       (pc[t] = "copy_in" => k < i[t]) => pages[entry[t].page[k]] = <<fp[t], k>>

CopiedInv == \A t \in Threads : pc[t] \in Filling => Copied(t)

(* ... and the published entries own pages below them. *)
BelowInv ==
  \A s \in Slots \ is_empty :
    /\ entries[s].size <= ContentMaxPages
    /\ \A k \in 1 .. entries[s].size :
         /\ entries[s].page[k] < Used
         /\ \A t \in Threads : pc[t] \in Filling =>
              entries[s].page[k] < Used - NumPagesOf[fp[t]]

(* The slot being written is the first empty one behind the hash of a      *)
(* fingerprint that is not published.                                      *)
Writes(t) ==
  /\ next_empty[t] \in is_empty
  /\ IsNextInd(is_empty, HashInd[fp[t]], next_empty[t])
  /\ fp[t] \notin Published
  /\ pc[t] # "write_key" => keys[next_empty[t]] = fp[t]
  /\ pc[t] \in {"write_pages", "clear_bit"} =>
       entries[next_empty[t]].size = entry[t].size
  /\ pc[t] = "clear_bit" => entries[next_empty[t]].page = entry[t].page

WritingInv == \A t \in Threads : pc[t] \in Writing => Writes(t)

(* No empty slot lies between the hash of a published key and its slot. *)
ProbeInv ==
  \A s \in Slots \ is_empty : \A e \in is_empty :
    ProbeDist(HashInd[keys[s]], s) < ProbeDist(HashInd[keys[s]], e)

(* table.cnt counts the slots whose bit is 0, and each took a page. *)
CountInv ==
  /\ cnt + Cardinality(is_empty) = TableSize
  /\ cnt <= Used
  /\ \A t \in Threads : pc[t] \in Filling => cnt + NumPagesOf[fp[t]] <= Used

StoreInv ==
  /\ LockInv /\ AllocInv /\ HolderInv /\ CopiedInv /\ BelowInv
  /\ WritingInv /\ ProbeInv /\ CountInv
  /\ PublishedIntact /\ UniqueKeys

(* Slots a lookup compares before the empty one it computed first. *)
Before(t) ==
  {s \in Slots : \/ next_empty[t] = TableSize
                 \/ ProbeDist(HashInd[fp[t]], s)
                      < ProbeDist(HashInd[fp[t]], next_empty[t])}

(* What a lookup relies on while others insert. *)
Relies(t) ==
  /\ Before(t) \cap is_empty = {}
  /\ NumPages < TableSize => next_empty[t] # TableSize
  /\ pc[t] = "probe" /\ there[t] /\ next_empty[t] # TableSize =>
       \E s \in Before(t) : /\ keys[s] = fp[t]
                            /\ i[t] <= ProbeDist(HashInd[fp[t]], s)
  /\ pc[t] \in {"copy_out", "populated"} => ~ ProbeEnds(t)
  /\ pc[t] = "copy_out" /\ SlotAt(t) # next_empty[t] =>
       entry[t] = entries[SlotAt(t)] /\ keys[SlotAt(t)] = fp[t]
  /\ pc[t] = "missing" /\ next_empty[t] # TableSize => ~ there[t]

ReaderInv == \A t \in Threads : pc[t] \in LookupStages => Relies(t)

(* The inductive invariant: what the insert stages keep true of the shared *)
(* memory, and what an unlocked lookup can rely on.                        *)
CacheInv == StoreInv /\ ReaderInv /\ LookupIntact

-----------------------------------------------------------------------------
(* The cache as its clients see it.                                        *)

(* Thread t is in a lookup, or was when its copy loop ran away. *)
Asking(t) == pc[t] \in LookupStages \cup {"fault"}

(* What a lookup of thread t has come to so far. *)
ReplyTo(t) ==
  [kind    |-> CASE pc[t] = "populated" -> "content"
                 [] pc[t] = "missing"   -> "missing"
                 [] pc[t] = "fault"     -> "fault"
                 [] OTHER               -> "none",
   content |-> IF pc[t] = "populated" THEN buf[t] ELSE <<>>]

Store == INSTANCE ContentStore WITH
  Clients   <- Threads,
  Names     <- Fingerprints,
  ContentOf <- [f \in Fingerprints |-> [k \in 1 .. NumPagesOf[f] |-> <<f, k>>]],
  Nothing   <- NoKey,
  stored    <- Published,
  coming    <- {keys[s] : s \in is_empty} \ {NoKey},
  asked     <- [t \in Threads |-> IF Asking(t) THEN fp[t] ELSE NoKey],
  known     <- [t \in Threads |-> Asking(t) /\ there[t]],
  reply     <- [t \in Threads |-> ReplyTo(t)]

(* However insertions, unlocked lookups and killed processes interleave,   *)
(* the shared memory is a store that only grows, into which one            *)
(* fingerprint comes at a time, and out of which a lookup gets the content *)
(* of what was there when it began; only one that meets the key it looks   *)
(* for in a slot that is not published can get anything else.              *)
ImplementsStore == Store!Spec

-----------------------------------------------------------------------------
(* Liveness, and what comments in the code say.                            *)

(* Every path out of the two insert stages, the "CACHE IS FULL" one        *)
(* included, gives cache_lock back (or dies with it).                      *)
LockReleased == \A t \in Threads : cache_lock = t ~> cache_lock # t

(* The probe of find_fingerprint_table ends, hit or miss.                  *)
LookupTerminates ==
  \A t \in Threads : pc[t] \in {"probe", "copy_out"}
                      ~> pc[t] \notin {"probe", "copy_out"}

(* fingerprint_cache.h says of insert_fingerprint "If already exists, then *)
(* doesn't insert": when nobody is inserting, every page that is not free  *)
(* belongs to a published fingerprint.                                     *)
NoPageLost ==
  cache_lock = Free =>
    \A p \in Pages : p < NumPages - num_free_pages =>
      \E s \in Slots \ is_empty :
        \E k \in 1 .. entries[s].size : entries[s].page[k] = p

(* find_fingerprint_table says it will "get the next null value and search *)
(* up to that point": a hit is then always on a published slot, and a      *)
(* lookup that populates the buffer has the right content.                 *)
HitsArePublished ==
  \A t \in Threads :
    pc[t] \in {"copy_out", "populated", "fault"} => SlotAt(t) \notin is_empty

=============================================================================
