------------------------------ MODULE Chunking ------------------------------
(***************************************************************************)
(* Content-defined chunking (fingerprint.c): do_fingerprinting cuts a      *)
(* message where the Rabin hash of the last few bytes matches a magic      *)
(* value, within a minimum and a maximum size, and dedup_fingerprinting    *)
(* (net_dedup.c) packs the result into the request.  The rolling hash is   *)
(* modelled with its arithmetic: uint64_t wraps around, and rabin_mask     *)
(* keeps the low bits, so every value is one modulo 2^RabinMBits.  The     *)
(* SHA-256 of a chunk is left out: a chunk is its size and its place.      *)
(***************************************************************************)
EXTENDS Integers, Sequences, Sums

CONSTANTS
  Bytes,             \* values of a byte
  MaxBytes,          \* bound on the size of a message
  MinChunk,          \* MIN_CHUNK_SIZE_BYTES
  MaxChunk,          \* MAX_CHUNK_SIZE_BYTES
  WindowBytes,       \* WINDOW_BYTES
  RabinP,            \* RABIN_P
  RabinMBits,        \* RABIN_M_BITS
  LowerBits,         \* LOWER_BITS
  MagicVal,          \* MAGIC_VAL
  PageSize,          \* FINGERPRINT_CACHE_PAGE_SIZE
  MaxFingerprints    \* MAX_FINGERPRINTS_PER_REQ

ASSUME ChunkingAssumption ==
  /\ Bytes \subseteq Nat
  /\ MaxBytes \in Nat \ {0}
  /\ MinChunk \in Nat \ {0} /\ MaxChunk \in Nat /\ MinChunk <= MaxChunk
  /\ WindowBytes \in 1 .. MinChunk - 1
  /\ RabinP \in Nat /\ RabinMBits \in Nat /\ LowerBits \in 0 .. RabinMBits
  /\ MagicVal \in Nat
  /\ PageSize \in Nat \ {0} /\ MinChunk <= PageSize
  /\ MaxFingerprints \in Nat \ {0}

VARIABLES
  data,            \* the message, byte 0 first
  num_bytes,       \* its size
  pc,
  remain_bytes,
  cur_start_ind,
  cur_size,
  window,          \* the bytes the hash covers
  window_slot,     \* where the next byte goes
  cur_rabin,
  content_sizes,   \* sizes of the chunks so far
  slots            \* for each chunk, window_slot when its window was filled

vars == <<data, num_bytes, pc, remain_bytes, cur_start_ind, cur_size, window,
          window_slot, cur_rabin, content_sizes, slots>>

rabin_mask(x) == x % Power(2, RabinMBits)
magic_mask(x) == x % Power(2, LowerBits)

(* gen_rabin_table: what a byte that leaves the window contributes. *)
rabin_table(b) == b * Power(RabinP, WindowBytes - 1)

(* init_rabin: each term is masked, their sum is not. *)
InitRabin(w) ==
  SumTo([k \in 1 .. WindowBytes |->
           rabin_mask(w[WindowBytes - k] * Power(RabinP, k - 1))], WindowBytes)

(* The window that init_rabin fills for a chunk that starts at ind: it     *)
(* ends one byte before the minimum size.                                  *)
WindowAt(ind) ==
  [k \in 0 .. WindowBytes - 1 |-> data[ind + MinChunk - 1 - WindowBytes + k]]

Init ==
  /\ num_bytes \in 1 .. MaxBytes
  /\ data \in [0 .. num_bytes - 1 -> Bytes]
  /\ pc = "start"
  /\ remain_bytes = num_bytes
  /\ cur_start_ind = 0
  /\ cur_size = MinChunk
  /\ window = [k \in 0 .. WindowBytes - 1 |-> 0]
  /\ window_slot = 0
  /\ cur_rabin = 0
  /\ content_sizes = <<>>
  /\ slots = <<>>

(* A message of at most the minimum size is one chunk. *)
OneChunk ==
  /\ pc = "start"
  /\ num_bytes <= MinChunk
  /\ content_sizes' = <<num_bytes>>
  /\ pc' = "package"
  /\ UNCHANGED <<data, num_bytes, remain_bytes, cur_start_ind, cur_size,
                 window, window_slot, cur_rabin, slots>>

(* The first window is filled before the loop, and its hash is masked. *)
FirstWindow ==
  /\ pc = "start"
  /\ num_bytes > MinChunk
  /\ window' = WindowAt(0)
  /\ cur_rabin' = rabin_mask(InitRabin(WindowAt(0)))
  /\ slots' = <<window_slot>>
  /\ pc' = "scan"
  /\ UNCHANGED <<data, num_bytes, remain_bytes, cur_start_ind, cur_size,
                 window_slot, content_sizes>>

(* Mutant: the bytes that are left do not end the chunk. *)
EndsChunkNoRemain ==
  \/ magic_mask(cur_rabin) = MagicVal
  \/ cur_size >= MaxChunk

(* Mutant: the maximum is never reached. *)
EndsChunkNoMax ==
  \/ magic_mask(cur_rabin) = MagicVal
  \/ cur_size >= remain_bytes

(* The chunk ends here: magic, maximum, or nothing left. *)
EndsChunk ==
  \/ magic_mask(cur_rabin) = MagicVal
  \/ cur_size >= MaxChunk
  \/ cur_size >= remain_bytes

(* Mutant: a tail below the minimum becomes a chunk of its own. *)
ChunkSizeKeepsTail ==
  IF cur_size >= remain_bytes THEN remain_bytes ELSE cur_size

(* A tail that would be shorter than the minimum joins the chunk. *)
ChunkSize ==
  IF cur_size >= remain_bytes \/ remain_bytes - cur_size < MinChunk
    THEN remain_bytes
    ELSE cur_size

(* Mutant: a tail below the minimum is left out. *)
EmitChunkDropsTail ==
  /\ pc = "scan"
  /\ EndsChunk
  /\ content_sizes' = Append(content_sizes, ChunkSizeKeepsTail)
  /\ remain_bytes' = remain_bytes - ChunkSizeKeepsTail
  /\ cur_start_ind' = cur_start_ind + ChunkSizeKeepsTail
  /\ pc' = IF remain_bytes' >= MinChunk THEN "refill" ELSE "package"
  /\ UNCHANGED <<data, num_bytes, cur_size, window, window_slot, cur_rabin, slots>>

(* handle_sha on the chunk, and on to the next one or out of the loop. *)
EmitChunk ==
  /\ pc = "scan"
  /\ EndsChunk
  /\ content_sizes' = Append(content_sizes, ChunkSize)
  /\ remain_bytes' = remain_bytes - ChunkSize
  /\ cur_start_ind' = cur_start_ind + ChunkSize
  /\ pc' = IF remain_bytes' > 0 THEN "refill" ELSE "package"
  /\ UNCHANGED <<data, num_bytes, cur_size, window, window_slot, cur_rabin, slots>>

(* Mutant: the next chunk does not start at the minimum size. *)
RefillWindowNoMin ==
  /\ pc = "refill"
  /\ window' = WindowAt(cur_start_ind)
  /\ cur_rabin' = InitRabin(WindowAt(cur_start_ind))
  /\ cur_size' = 1
  /\ slots' = Append(slots, window_slot)
  /\ pc' = "scan"
  /\ UNCHANGED <<data, num_bytes, remain_bytes, cur_start_ind, window_slot,
                 content_sizes>>

(* The window is filled anew for the next chunk; window_slot stays where   *)
(* the last chunk left it, and the hash is not masked.                     *)
RefillWindow ==
  /\ pc = "refill"
  /\ window' = WindowAt(cur_start_ind)
  /\ cur_rabin' = InitRabin(WindowAt(cur_start_ind))
  /\ cur_size' = MinChunk
  /\ slots' = Append(slots, window_slot)
  /\ pc' = "scan"
  /\ UNCHANGED <<data, num_bytes, remain_bytes, cur_start_ind, window_slot,
                 content_sizes>>

(* Mutant: the byte that leaves the window stays in the hash. *)
RollKeepsByte ==
  LET b == data[cur_start_ind + cur_size] IN
  /\ pc = "scan"
  /\ ~ EndsChunk
  /\ cur_rabin' = rabin_mask(cur_rabin * RabinP + b)
  /\ window' = [window EXCEPT ![window_slot] = b]
  /\ window_slot' = (window_slot + 1) % WindowBytes
  /\ cur_size' = cur_size + 1
  /\ UNCHANGED <<data, num_bytes, pc, remain_bytes, cur_start_ind,
                 content_sizes, slots>>

(* One more byte in the chunk: it takes the place of another in the window *)
(* and in the hash.                                                        *)
Roll ==
  LET b == data[cur_start_ind + cur_size] IN
  /\ pc = "scan"
  /\ ~ EndsChunk
  /\ cur_rabin' = rabin_mask((cur_rabin - rabin_table(window[window_slot])) * RabinP + b)
  /\ window' = [window EXCEPT ![window_slot] = b]
  /\ window_slot' = (window_slot + 1) % WindowBytes
  /\ cur_size' = cur_size + 1
  /\ UNCHANGED <<data, num_bytes, pc, remain_bytes, cur_start_ind,
                 content_sizes, slots>>

(* dedup_fingerprinting copies the chunks into packaged_fingerprints. *)
Package ==
  /\ pc = "package"
  /\ pc' = "done"
  /\ UNCHANGED <<data, num_bytes, remain_bytes, cur_start_ind, cur_size,
                 window, window_slot, cur_rabin, content_sizes, slots>>

Next == OneChunk \/ FirstWindow \/ EmitChunk \/ RefillWindow \/ Roll \/ Package

Spec == Init /\ [][Next]_vars

-----------------------------------------------------------------------------
(* Properties.                                                             *)

NumFingerprints == Len(content_sizes)

(* Where chunk c starts: the chunks before it lie side by side. *)
StartOf(c) == SumTo(content_sizes, c - 1)

(* The chunks that process_send hands out cover the message, from its      *)
(* first byte to its last, with nothing between two of them.               *)
ChunksCoverMessage ==
  pc \in {"package", "done"} =>
    StartOf(NumFingerprints) + content_sizes[NumFingerprints] = num_bytes

(* Nothing is read behind the end of the application's buffer, neither to  *)
(* fill a window nor to roll the hash on.                                  *)
ReadsInBounds ==
  /\ pc = "refill" => cur_start_ind + MinChunk <= num_bytes
  /\ pc = "scan" /\ ~ EndsChunk => cur_start_ind + cur_size < num_bytes

(* "The max chunk size will not be larger than MAX_CHUNK_SIZE_BYTE +       *)
(* MIN_CHUNK_SIZE_BYTES", and an entry of the cache has pages enough for   *)
(* it; no chunk but that of a small message is below the minimum.          *)
ChunkSizesBounded ==
  \A c \in 1 .. NumFingerprints :
    /\ content_sizes[c] < MaxChunk + MinChunk
    /\ num_bytes > MinChunk => content_sizes[c] >= MinChunk
    /\ (content_sizes[c] + PageSize - 1) \div PageSize <= MaxChunk \div PageSize + 2

(* The arrays that the chunks are written to without a check are long      *)
(* enough: those of dedup_fingerprinting, which have n / min + 1 entries,  *)
(* for every message, and packaged_fingerprints for every message below    *)
(* (MAX_FINGERPRINTS_PER_REQ + 1) * MIN_CHUNK_SIZE_BYTES.  Only the sizes  *)
(* of the chunks make it so.                                               *)
BuffersSuffice ==
  /\ NumFingerprints <= num_bytes \div MinChunk + 1
  /\ num_bytes < (MaxFingerprints + 1) * MinChunk => NumFingerprints <= MaxFingerprints

(* The bytes of a window, oldest first, are the digits of a number to the  *)
(* base RabinP; its low bits are the hash, computed from nothing.          *)
Digits(w) ==
  SumTo([k \in 1 .. WindowBytes |-> w[WindowBytes + 1 - k] * Power(RabinP, k - 1)],
        WindowBytes)
HashOf(w) == rabin_mask(Digits(w))

(* The bytes of a chunk that pass through its window, counted from 1: the  *)
(* one just below the minimum never does.                                  *)
Seen(start, k) == data[start + IF k < MinChunk THEN k - 1 ELSE k]

(* The bytes a chunk of size n is judged by: the last ones before its end. *)
JudgedBy(start, n) ==
  [k \in 1 .. WindowBytes |-> Seen(start, n - WindowBytes - 1 + k)]

(* The chunk at start ends at the first place whose last bytes hash to the *)
(* magic value, at the maximum or with the message.                        *)
IsCut(start, n) == magic_mask(HashOf(JudgedBy(start, n))) = MagicVal

Ends(start) ==
  LET left == num_bytes - start
  IN {n \in MinChunk .. left : IsCut(start, n)} \cup {MaxChunk, left}

First(S) == CHOOSE n \in S : \A m \in S : n <= m

DefinedSize(start) ==
  LET left == num_bytes - start
  IN IF left - First(Ends(start)) < MinChunk THEN left ELSE First(Ends(start))

(* Where a chunk ends depends only on its own bytes, and on whether the    *)
(* message ends, as long as the ring of the window starts at slot 0.       *)
(* (do_fingerprinting does not put window_slot back for later chunks.)     *)
ContentDefined ==
  \A c \in 1 .. NumFingerprints :
    num_bytes > MinChunk /\ slots[c] = 0 =>
      content_sizes[c] = DefinedSize(StartOf(c))

=============================================================================
