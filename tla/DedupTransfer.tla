---------------------------- MODULE DedupTransfer ----------------------------
(***************************************************************************)
(* One connection of net_dedup.c: the stage machines of process_send and   *)
(* process_recv over a non-blocking TCP socket, with isend, irecv and test *)
(* around them.                                                            *)
(*                                                                         *)
(* A message is a sequence of content-defined chunks; a chunk is known by  *)
(* its fingerprint, and its content is the units <<f, 1>>, <<f, 2>>, ...   *)
(* The two directions of the socket are bounded sequences of tokens.  The  *)
(* program puts no type on the bytes it sends; the type field of a token   *)
(* records what the writer meant, and no action reads it.  One action is   *)
(* one send() or recv() call, which may move any part of what was asked; a *)
(* call that would block changes nothing.                                  *)
(*                                                                         *)
(* A header is one token.  Four of the six header functions go on at a     *)
(* wrong address when a call moves a part of the header (module HeaderIO): *)
(* from there on an end is astray, and from the moment the receiving end   *)
(* is, the connection may do anything.  The two functions for the header   *)
(* of the missing fingerprints resume where they were; a part of it is     *)
(* the same as none.                                                       *)
(*                                                                         *)
(* The fingerprint cache of a host maps the fingerprints it has to the     *)
(* content that was inserted with them, as module FingerprintCache shows   *)
(* its insertions and lookups to behave; this includes the lookup that     *)
(* finds a fingerprint whose insertion is under way, and then copies       *)
(* something else than its content.  The other connections of a host are   *)
(* taken to insert what belongs to a fingerprint.                          *)
(***************************************************************************)
EXTENDS Integers, Sequences, Sums

CONSTANTS
  Fingerprints,
  ContentSize,    \* content_size of a chunk, in units
  Messages,
  ChunksOf,       \* what do_fingerprinting cuts a message into
  Threshold,      \* FINGERPRINT_MSG_SIZE_THRESHOLD
  SockBuf,        \* capacity of each direction of the socket
  MaxMsgs,        \* bound on the number of messages
  HostOf,         \* the host of each end, [Ends -> hosts]
  SharedHosts,    \* the hosts that have other connections
  Free,           \* cache_lock is not held
  Others,         \* cache_lock is held by another connection of the host
  Junk            \* a unit of the application buffer not yet written, or wrong

Ends == {"s", "r"}
Hosts == {HostOf[e] : e \in Ends}

Sizes(fps) == [k \in DOMAIN fps |-> ContentSize[fps[k]]]

(* Sum of the content sizes of the first n chunks of fps. *)
SizeUpTo(fps, n) == SumTo(Sizes(fps), n)

Size(fps) == SizeUpTo(fps, Len(fps))

(* fingerprint_offsets: where chunk j starts. *)
OffsetOf(fps, j) == SizeUpTo(fps, j - 1)

(* The bytes of a message. *)
Data(fps) ==
  [p \in 1 .. Size(fps) |->
     LET j == CHOOSE c \in 1 .. Len(fps) : /\ OffsetOf(fps, c) < p
                                          /\ p <= OffsetOf(fps, c + 1)
     IN  <<fps[j], p - OffsetOf(fps, j)>>]

Payload(m) == [size |-> Size(ChunksOf[m]), data |-> Data(ChunksOf[m])]

(* What can be read of a message with wrong units. *)
Damaged ==
  [m \in Messages |->
     {[size |-> Size(ChunksOf[m]),
       data |-> [p \in 1 .. Size(ChunksOf[m]) |->
                   IF p \in wrong THEN Junk ELSE Data(ChunksOf[m])[p]]] :
        wrong \in SUBSET (1 .. Size(ChunksOf[m]))}]

ASSUME TransferAssumption ==
  /\ ContentSize \in [Fingerprints -> Nat \ {0}]
  /\ ChunksOf \in [Messages -> Seq(Fingerprints)]
  /\ Threshold \in Nat
  /\ SockBuf \in Nat \ {0}
  /\ MaxMsgs \in Nat
  /\ \E m \in Messages : \A k \in Messages : Size(ChunksOf[k]) <= Size(ChunksOf[m])
  /\ SharedHosts \subseteq Hosts
  /\ Free \notin Ends /\ Others \notin Ends /\ Free # Others

Units == Fingerprints \X Nat

(* The content of a chunk; what a cache has of a fingerprint it has not. *)
Content(f) == [k \in 1 .. ContentSize[f] |-> <<f, k>>]
Absent == <<>>

(* The application buffer of a receive is as large as the largest message. *)
AppBuf ==
  1 .. (CHOOSE n \in {Size(ChunksOf[m]) : m \in Messages} :
          \A m \in Messages : Size(ChunksOf[m]) <= n)

VARIABLES
  sent,                   \* messages accepted by isend
  delivered,              \* payloads test reported as received
  fwd, rev,               \* the two directions of the socket
  cache,                  \* of each host: content by fingerprint, or Absent
  cache_lock,             \* of each host
  to_skip_insert_cache,   \* of each end's process
  trying,                 \* ends between the test of that flag and trylock
  active_fds,             \* of each end: has a request
  stage,                  \* of each end: stage of its request
  i,                      \* of each end: index of the loop over the cache
  send_req,
  recv_req,
  torn,                   \* messages with a chunk copied while it was inserted
  astray                  \* of each end: went on with a header at a wrong address

netVars == <<fwd, rev>>
cacheVars == <<cache, cache_lock, to_skip_insert_cache, trying, torn, astray>>
vars == <<sent, delivered, netVars, cacheVars, active_fds, stage, i, send_req,
          recv_req>>

SendStages == {"SEND_HEADER", "SEND_REG_DATA", "COMPUTE_FINGERPRINTS",
  "INSERT_OUTBOUND_FINGERPRINTS", "SEND_FINGERPRINT_HEADER",
  "SEND_PACKAGED_FINGERPRINTS", "RECV_MISSING_FINGERPRINT_HEADER",
  "RECV_MISSING_FINGERPRINTS", "SEND_MISSING_CONTENT", "SEND_COMPLETE"}

RecvStages == {"RECV_HEADER", "RECV_REG_DATA", "RECV_FINGERPRINT_HEADER",
  "RECV_PACKAGED_FINGERPRINTS", "POPULATE_FROM_NET_CACHE",
  "SEND_MISSING_FINGERPRINT_HEADER", "SEND_MISSING_FINGERPRINTS",
  "RECV_MISSING_CONTENT", "INSERT_INBOUND_FINGERPRINTS", "RECV_COMPLETE"}

(* isend and irecv clear the request with memset. *)
FreshSendReq ==
  [chunks |-> <<>>, packaged |-> <<>>, offset |-> 0, num_missing |-> 0,
   missing |-> <<>>, reply_ind |-> 0, reply_offset |-> 0]

FreshRecvReq ==
  [header |-> [is_fingerprint |-> FALSE, content_size |-> 0],
   num_fingerprints |-> 0, packaged |-> <<>>, num_missing |-> 0,
   missing |-> <<>>, offset |-> 0, content_ind |-> 0, content_offset |-> 0,
   app_buffer |-> [p \in AppBuf |-> Junk], app_filled_size |-> 0]

Init ==
  /\ sent = <<>>
  /\ delivered = <<>>
  /\ fwd = <<>>
  /\ rev = <<>>
  /\ cache = [h \in Hosts |-> [f \in Fingerprints |-> Absent]]
  /\ cache_lock = [h \in Hosts |-> Free]
  /\ to_skip_insert_cache \in [Ends -> BOOLEAN]
  /\ active_fds = [e \in Ends |-> FALSE]
  /\ stage = [e \in Ends |-> IF e = "s" THEN "SEND_COMPLETE" ELSE "RECV_COMPLETE"]
  /\ i = [e \in Ends |-> 0]
  /\ send_req = FreshSendReq
  /\ recv_req = FreshRecvReq
  /\ trying = {}
  /\ torn = {}
  /\ astray = [e \in Ends |-> FALSE]

At(e, st) == active_fds[e] /\ stage[e] = st

Goto(e, st) == stage' = [stage EXCEPT ![e] = st]

(* Tokens type(v) for the members v of a sequence. *)
Tokens(type, vals) == [k \in 1 .. Len(vals) |-> [type |-> type, val |-> vals[k]]]

Vals(tokens) == [k \in 1 .. Len(tokens) |-> tokens[k].val]

(* send() accepts n of the values that are left to send. *)
CanSend(chan, left, n) == n \in 1 .. Len(left) /\ Len(chan) + n <= SockBuf

(* recv() returns n values, at most left of them. *)
CanRecv(chan, left, n) == n \in 1 .. left /\ n <= Len(chan)

Rest(seq, n) == SubSeq(seq, n + 1, Len(seq))

(* A call moved a part of a header; the next call goes on elsewhere.       *)
GoAstray(e) ==
  /\ astray' = [astray EXCEPT ![e] = TRUE]
  /\ UNCHANGED <<sent, delivered, netVars, cache, cache_lock,
                 to_skip_insert_cache, trying, torn, active_fds, stage, i,
                 send_req, recv_req>>

-----------------------------------------------------------------------------
(* The sending end.                                                        *)

(* netDedup_isend; with a request on the fd it returns a NULL request. *)
ISend(m) ==
  /\ ~ active_fds["s"]
  /\ Len(sent) < MaxMsgs
  /\ sent' = Append(sent, m)
  /\ active_fds' = [active_fds EXCEPT !["s"] = TRUE]
  /\ send_req' = [FreshSendReq EXCEPT !.chunks = ChunksOf[m]]
  /\ Goto("s", "SEND_HEADER")
  /\ UNCHANGED <<delivered, netVars, cacheVars, i, recv_req>>

SendHeader ==
  LET size == Size(send_req.chunks)
      header == [is_fingerprint |-> size > Threshold, content_size |-> size]
  IN
  /\ At("s", "SEND_HEADER")
  /\ Len(fwd) < SockBuf
  /\ fwd' = fwd \o Tokens("header", <<header>>)
  /\ Goto("s", IF header.is_fingerprint THEN "COMPUTE_FINGERPRINTS"
                                        ELSE "SEND_REG_DATA")
  /\ UNCHANGED <<sent, delivered, rev, cacheVars, active_fds, i, send_req,
                 recv_req>>

SendHeaderCut == At("s", "SEND_HEADER") /\ GoAstray("s")

(* remain_bytes == 0: nothing is sent for an empty message. *)
SendRegDataEmpty ==
  /\ At("s", "SEND_REG_DATA")
  /\ send_req.offset = Size(send_req.chunks)
  /\ Goto("s", "SEND_COMPLETE")
  /\ UNCHANGED <<sent, delivered, netVars, cacheVars, active_fds, i, send_req,
                 recv_req>>

SendRegData ==
  LET left == Rest(Data(send_req.chunks), send_req.offset) IN
  /\ At("s", "SEND_REG_DATA")
  /\ \E n \in 1 .. SockBuf :
       /\ CanSend(fwd, left, n)
       /\ fwd' = fwd \o Tokens("data", SubSeq(left, 1, n))
       /\ send_req' = [send_req EXCEPT !.offset = @ + n]
       /\ IF n < Len(left) THEN UNCHANGED stage ELSE Goto("s", "SEND_COMPLETE")
  /\ UNCHANGED <<sent, delivered, rev, cacheVars, active_fds, i, recv_req>>

(* Mutant: the fingerprints are announced before they are inserted. *)
ComputeFingerprintsNoInsert ==
  /\ At("s", "COMPUTE_FINGERPRINTS")
  /\ send_req' = [send_req EXCEPT !.packaged = send_req.chunks, !.offset = 0,
                    !.num_missing = 0, !.missing = <<>>,
                    !.reply_ind = 1, !.reply_offset = 0]
  /\ Goto("s", "SEND_FINGERPRINT_HEADER")
  /\ UNCHANGED <<sent, delivered, netVars, cacheVars, active_fds, i, recv_req>>

(* process_compute_fingerprints resets the offsets of the later stages. *)
ComputeFingerprints ==
  /\ At("s", "COMPUTE_FINGERPRINTS")
  /\ send_req' = [send_req EXCEPT !.packaged = send_req.chunks, !.offset = 0,
                    !.num_missing = 0, !.missing = <<>>,
                    !.reply_ind = 1, !.reply_offset = 0]
  /\ Goto("s", "INSERT_OUTBOUND_FINGERPRINTS")
  /\ UNCHANGED <<sent, delivered, netVars, cacheVars, active_fds, i, recv_req>>

SendFingerprintHeader ==
  /\ At("s", "SEND_FINGERPRINT_HEADER")
  /\ Len(fwd) < SockBuf
  /\ fwd' = fwd \o Tokens("fingerprint_header", <<Len(send_req.packaged)>>)
  /\ Goto("s", "SEND_PACKAGED_FINGERPRINTS")
  /\ UNCHANGED <<sent, delivered, rev, cacheVars, active_fds, i, send_req,
                 recv_req>>

SendFingerprintHeaderCut == At("s", "SEND_FINGERPRINT_HEADER") /\ GoAstray("s")

SendPackagedFingerprints ==
  LET left == Rest(send_req.packaged, send_req.offset) IN
  /\ At("s", "SEND_PACKAGED_FINGERPRINTS")
  /\ \E n \in 1 .. SockBuf :
       /\ CanSend(fwd, left, n)
       /\ fwd' = fwd \o Tokens("fingerprint", SubSeq(left, 1, n))
       /\ send_req' = [send_req EXCEPT !.offset = @ + n]
       /\ IF n < Len(left) THEN UNCHANGED stage
                           ELSE Goto("s", "RECV_MISSING_FINGERPRINT_HEADER")
  /\ UNCHANGED <<sent, delivered, rev, cacheVars, active_fds, i, recv_req>>

RecvMissingFingerprintHeader ==
  /\ At("s", "RECV_MISSING_FINGERPRINT_HEADER")
  /\ rev # <<>>
  /\ send_req' = [send_req EXCEPT !.num_missing = Head(rev).val]
  /\ rev' = Tail(rev)
  /\ Goto("s", IF Head(rev).val = 0 THEN "SEND_COMPLETE"
                                    ELSE "RECV_MISSING_FINGERPRINTS")
  /\ UNCHANGED <<sent, delivered, fwd, cacheVars, active_fds, i, recv_req>>

RecvMissingFingerprints ==
  LET left == send_req.num_missing - Len(send_req.missing) IN
  /\ At("s", "RECV_MISSING_FINGERPRINTS")
  /\ \E n \in 1 .. SockBuf :
       /\ CanRecv(rev, left, n)
       /\ send_req' = [send_req EXCEPT !.missing = @ \o Vals(SubSeq(rev, 1, n))]
       /\ rev' = Rest(rev, n)
       /\ IF n < left THEN UNCHANGED stage ELSE Goto("s", "SEND_MISSING_CONTENT")
  /\ UNCHANGED <<sent, delivered, fwd, cacheVars, active_fds, i, recv_req>>

(* Mutant: the offset of a chunk sent in parts is kept for the next chunk. *)
SendMissingContentStaleOffset ==
  LET ind == send_req.missing[send_req.reply_ind]
      f == send_req.packaged[ind]
      from == OffsetOf(send_req.packaged, ind) + send_req.reply_offset
      left == SubSeq(Data(send_req.chunks), from + 1,
                     OffsetOf(send_req.packaged, ind) + ContentSize[f])
  IN
  /\ At("s", "SEND_MISSING_CONTENT")
  /\ \E n \in 1 .. SockBuf :
       /\ CanSend(fwd, left, n)
       /\ fwd' = fwd \o Tokens("data", SubSeq(left, 1, n))
       /\ \/ /\ n < Len(left)
             /\ send_req' = [send_req EXCEPT !.reply_offset = @ + n]
             /\ UNCHANGED stage
          \/ /\ n = Len(left)
             /\ send_req' = [send_req EXCEPT !.reply_ind = @ + 1]
             /\ IF send_req.reply_ind < send_req.num_missing
                  THEN UNCHANGED stage ELSE Goto("s", "SEND_COMPLETE")
  /\ UNCHANGED <<sent, delivered, rev, cacheVars, active_fds, i, recv_req>>

(* One send() of the loop over the missing chunks: chunk reply_ind of the  *)
(* list, from reply_offset on.                                             *)
SendMissingContent ==
  LET ind == send_req.missing[send_req.reply_ind]
      f == send_req.packaged[ind]
      from == OffsetOf(send_req.packaged, ind) + send_req.reply_offset
      left == SubSeq(Data(send_req.chunks), from + 1,
                     OffsetOf(send_req.packaged, ind) + ContentSize[f])
  IN
  /\ At("s", "SEND_MISSING_CONTENT")
  /\ \E n \in 1 .. SockBuf :
       /\ CanSend(fwd, left, n)
       /\ fwd' = fwd \o Tokens("data", SubSeq(left, 1, n))
       /\ \/ /\ n < Len(left)
             /\ send_req' = [send_req EXCEPT !.reply_offset = @ + n]
             /\ UNCHANGED stage
          \/ /\ n = Len(left)
             /\ send_req' = [send_req EXCEPT !.reply_ind = @ + 1,
                                             !.reply_offset = 0]
             /\ IF send_req.reply_ind < send_req.num_missing
                  THEN UNCHANGED stage ELSE Goto("s", "SEND_COMPLETE")
  /\ UNCHANGED <<sent, delivered, rev, cacheVars, active_fds, i, recv_req>>


(* netDedup_test on a finished send request. *)
TestSend ==
  /\ At("s", "SEND_COMPLETE")
  /\ active_fds' = [active_fds EXCEPT !["s"] = FALSE]
  /\ UNCHANGED <<sent, delivered, netVars, cacheVars, stage, i, send_req,
                 recv_req>>

-----------------------------------------------------------------------------
(* The receiving end.                                                      *)

(* netDedup_irecv; NCCL posts one receive for every message of its peer. *)
IRecv ==
  /\ ~ active_fds["r"]
  /\ Len(delivered) < MaxMsgs
  /\ active_fds' = [active_fds EXCEPT !["r"] = TRUE]
  /\ recv_req' = FreshRecvReq
  /\ Goto("r", "RECV_HEADER")
  /\ UNCHANGED <<sent, delivered, netVars, cacheVars, i, send_req>>

RecvHeader ==
  /\ At("r", "RECV_HEADER")
  /\ fwd # <<>>
  /\ recv_req' = [recv_req EXCEPT !.header = Head(fwd).val]
  /\ fwd' = Tail(fwd)
  /\ Goto("r", IF Head(fwd).val.is_fingerprint THEN "RECV_FINGERPRINT_HEADER"
                                               ELSE "RECV_REG_DATA")
  /\ UNCHANGED <<sent, delivered, rev, cacheVars, active_fds, i, send_req>>

(* A part of a header came, or one that the sender did not send as it is.  *)
HeaderIsCut == fwd # <<>> \/ astray["s"]

RecvHeaderCut == At("r", "RECV_HEADER") /\ HeaderIsCut /\ GoAstray("r")

(* Write values into the application buffer after position at. *)
Fill(app_buffer, at, vals) ==
  [p \in AppBuf |-> IF p \in at + 1 .. at + Len(vals) THEN vals[p - at]
                                                     ELSE app_buffer[p]]

RecvRegDataEmpty ==
  /\ At("r", "RECV_REG_DATA")
  /\ recv_req.offset = recv_req.header.content_size
  /\ Goto("r", "RECV_COMPLETE")
  /\ UNCHANGED <<sent, delivered, netVars, cacheVars, active_fds, i, send_req,
                 recv_req>>

RecvRegData ==
  LET left == recv_req.header.content_size - recv_req.offset IN
  /\ At("r", "RECV_REG_DATA")
  /\ \E n \in 1 .. SockBuf :
       /\ CanRecv(fwd, left, n)
       /\ recv_req' = [recv_req EXCEPT
            !.app_buffer = Fill(@, recv_req.offset, Vals(SubSeq(fwd, 1, n))),
            !.offset = @ + n]
       /\ fwd' = Rest(fwd, n)
       /\ IF n < left THEN UNCHANGED stage ELSE Goto("r", "RECV_COMPLETE")
  /\ UNCHANGED <<sent, delivered, rev, cacheVars, active_fds, i, send_req>>

RecvFingerprintHeader ==
  /\ At("r", "RECV_FINGERPRINT_HEADER")
  /\ fwd # <<>>
  /\ recv_req' = [recv_req EXCEPT !.num_fingerprints = Head(fwd).val,
                    !.content_ind = 1, !.content_offset = 0]
  /\ fwd' = Tail(fwd)
  /\ Goto("r", "RECV_PACKAGED_FINGERPRINTS")
  /\ UNCHANGED <<sent, delivered, rev, cacheVars, active_fds, i, send_req>>

RecvFingerprintHeaderCut ==
  At("r", "RECV_FINGERPRINT_HEADER") /\ HeaderIsCut /\ GoAstray("r")

RecvPackagedFingerprints ==
  LET left == recv_req.num_fingerprints - Len(recv_req.packaged) IN
  /\ At("r", "RECV_PACKAGED_FINGERPRINTS")
  /\ \E n \in 1 .. SockBuf :
       /\ CanRecv(fwd, left, n)
       /\ recv_req' = [recv_req EXCEPT !.packaged = @ \o Vals(SubSeq(fwd, 1, n))]
       /\ fwd' = Rest(fwd, n)
       /\ \/ n < left /\ UNCHANGED <<stage, i>>
          \/ /\ n = left
             /\ Goto("r", "POPULATE_FROM_NET_CACHE")
             /\ i' = [i EXCEPT !["r"] = 1]
  /\ UNCHANGED <<sent, delivered, rev, cacheVars, active_fds, send_req>>

(* Mutant: cur_app_buffer only advances over the chunks that were found. *)
PopulateWithoutGaps ==
  LET f == recv_req.packaged[i["r"]] IN
  /\ At("r", "POPULATE_FROM_NET_CACHE")
  /\ \/ /\ cache[HostOf["r"]][f] # Absent
        /\ recv_req' = [recv_req EXCEPT
             !.app_buffer = Fill(@, recv_req.app_filled_size,
                                 cache[HostOf["r"]][f]),
             !.app_filled_size = @ + ContentSize[f]]
     \/ /\ cache[HostOf["r"]][f] = Absent
        /\ recv_req' = [recv_req EXCEPT !.missing = Append(@, i["r"]),
                                        !.num_missing = @ + 1]
  /\ i' = [i EXCEPT !["r"] = @ + 1]
  /\ IF i["r"] < recv_req.num_fingerprints
       THEN UNCHANGED stage ELSE Goto("r", "SEND_MISSING_FINGERPRINT_HEADER")
  /\ UNCHANGED <<sent, delivered, netVars, cacheVars, active_fds, send_req>>

(* One turn of the loop of process_populate_from_net_cache: chunk i is     *)
(* copied from the cache or noted as missing.  The cache may grow between  *)
(* two turns.                                                              *)
PopulateFromNetCache ==
  LET f == recv_req.packaged[i["r"]]
      at == OffsetOf(recv_req.packaged, i["r"])
  IN
  /\ At("r", "POPULATE_FROM_NET_CACHE")
  /\ \/ /\ cache[HostOf["r"]][f] # Absent
        /\ recv_req' = [recv_req EXCEPT
             !.app_buffer = Fill(@, at, cache[HostOf["r"]][f]),
             !.app_filled_size = @ + ContentSize[f]]
     \/ /\ cache[HostOf["r"]][f] = Absent
        /\ recv_req' = [recv_req EXCEPT !.missing = Append(@, i["r"]),
                                        !.num_missing = @ + 1]
  /\ i' = [i EXCEPT !["r"] = @ + 1]
  /\ IF i["r"] < recv_req.num_fingerprints
       THEN UNCHANGED stage ELSE Goto("r", "SEND_MISSING_FINGERPRINT_HEADER")
  /\ UNCHANGED <<sent, delivered, netVars, cacheVars, active_fds, send_req>>

(* The lookup meets the key of chunk i before its entry is there, while    *)
(* someone inserts it: the chunk counts as found, but its content is not   *)
(* what is copied, which is as long or nothing.                            *)
PopulateTorn ==
  LET f == recv_req.packaged[i["r"]]
      at == OffsetOf(recv_req.packaged, i["r"])
  IN
  /\ At("r", "POPULATE_FROM_NET_CACHE")
  /\ cache_lock[HostOf["r"]] # Free
  /\ cache[HostOf["r"]][f] = Absent
  /\ recv_req' = [recv_req EXCEPT
       !.app_buffer = Fill(@, at, [k \in 1 .. ContentSize[f] |-> Junk]),
       !.app_filled_size = @ + ContentSize[f]]
  /\ torn' = torn \cup {Len(delivered) + 1}
  /\ i' = [i EXCEPT !["r"] = @ + 1]
  /\ IF i["r"] < recv_req.num_fingerprints
       THEN UNCHANGED stage ELSE Goto("r", "SEND_MISSING_FINGERPRINT_HEADER")
  /\ UNCHANGED <<sent, delivered, netVars, cache, cache_lock,
                 to_skip_insert_cache, trying, astray, active_fds, send_req>>

SendMissingFingerprintHeader ==
  /\ At("r", "SEND_MISSING_FINGERPRINT_HEADER")
  /\ Len(rev) < SockBuf
  /\ rev' = rev \o Tokens("missing_header", <<recv_req.num_missing>>)
  /\ Goto("r", IF recv_req.num_missing = 0 THEN "RECV_COMPLETE"
                                           ELSE "SEND_MISSING_FINGERPRINTS")
  /\ UNCHANGED <<sent, delivered, fwd, cacheVars, active_fds, i, send_req,
                 recv_req>>

(* Mutant: the pointer into missing_fingerprint_inds is not advanced by    *)
(* what an earlier call sent.                                              *)
SendMissingFingerprintsFromStart ==
  LET left == Rest(recv_req.missing, recv_req.offset) IN
  /\ At("r", "SEND_MISSING_FINGERPRINTS")
  /\ \E n \in 1 .. SockBuf :
       /\ CanSend(rev, left, n)
       /\ rev' = rev \o Tokens("missing", SubSeq(recv_req.missing, 1, n))
       /\ recv_req' = [recv_req EXCEPT !.offset = @ + n]
       /\ IF n < Len(left) THEN UNCHANGED stage ELSE Goto("r", "RECV_MISSING_CONTENT")
  /\ UNCHANGED <<sent, delivered, fwd, cacheVars, active_fds, i, send_req>>

SendMissingFingerprints ==
  LET left == Rest(recv_req.missing, recv_req.offset) IN
  /\ At("r", "SEND_MISSING_FINGERPRINTS")
  /\ \E n \in 1 .. SockBuf :
       /\ CanSend(rev, left, n)
       /\ rev' = rev \o Tokens("missing", SubSeq(left, 1, n))
       /\ recv_req' = [recv_req EXCEPT !.offset = @ + n]
       /\ IF n < Len(left) THEN UNCHANGED stage ELSE Goto("r", "RECV_MISSING_CONTENT")
  /\ UNCHANGED <<sent, delivered, fwd, cacheVars, active_fds, i, send_req>>

(* One recv() of the loop over the missing chunks, into the slot of chunk  *)
(* content_ind of the list.                                                *)
RecvMissingContent ==
  LET ind == recv_req.missing[recv_req.content_ind]
      left == ContentSize[recv_req.packaged[ind]] - recv_req.content_offset
      slot == OffsetOf(recv_req.packaged, ind) + recv_req.content_offset
  IN
  /\ At("r", "RECV_MISSING_CONTENT")
  /\ \E n \in 1 .. SockBuf :
       /\ CanRecv(fwd, left, n)
       /\ fwd' = Rest(fwd, n)
       /\ recv_req' = [recv_req EXCEPT
            !.app_buffer = Fill(@, slot, Vals(SubSeq(fwd, 1, n))),
            !.app_filled_size = @ + n,
            !.content_ind = IF n < left THEN @ ELSE @ + 1,
            !.content_offset = IF n < left THEN @ + n ELSE 0]
       /\ IF n < left \/ recv_req.content_ind < recv_req.num_missing
            THEN UNCHANGED stage ELSE Goto("r", "INSERT_INBOUND_FINGERPRINTS")
  /\ UNCHANGED <<sent, delivered, rev, cacheVars, active_fds, i, send_req>>


(* netDedup_test on a finished receive request reports the content_size of *)
(* the header.                                                             *)
TestRecv ==
  LET size == recv_req.header.content_size IN
  /\ At("r", "RECV_COMPLETE")
  /\ delivered' = Append(delivered,
       [size |-> size, data |-> [p \in 1 .. size |-> recv_req.app_buffer[p]]])
  /\ active_fds' = [active_fds EXCEPT !["r"] = FALSE]
  /\ UNCHANGED <<sent, netVars, cacheVars, stage, i, send_req, recv_req>>

-----------------------------------------------------------------------------
(* The insert stages of both ends, under the cache_lock of the host.       *)

InsertStage(e) == IF e = "s" THEN "INSERT_OUTBOUND_FINGERPRINTS"
                             ELSE "INSERT_INBOUND_FINGERPRINTS"

(* Mutant: both ends go on as the sender does. *)
AfterInsertAsSender(e) == "SEND_FINGERPRINT_HEADER"

AfterInsert(e) == IF e = "s" THEN "SEND_FINGERPRINT_HEADER" ELSE "RECV_COMPLETE"

(* The sender inserts every chunk, the receiver those that were missing. *)
ToInsert(e) ==
  IF e = "s" THEN send_req.packaged
             ELSE [k \in 1 .. recv_req.num_missing |->
                     recv_req.packaged[recv_req.missing[k]]]

(* Mutant: cur_buffer is not advanced by content_size after an insertion.  *)
SlotToInsertStuck(e) ==
  IF e = "s" THEN 0
             ELSE OffsetOf(recv_req.packaged, recv_req.missing[i["r"]])

(* Where the content of the chunk to insert begins: cur_buffer of the      *)
(* sender, missing_fingerprint_slots of the receiver.                      *)
SlotToInsert(e) ==
  IF e = "s" THEN OffsetOf(send_req.packaged, i["s"])
             ELSE OffsetOf(recv_req.packaged, recv_req.missing[i["r"]])

BufferToInsert(e) ==
  IF e = "s" THEN Data(send_req.chunks) ELSE recv_req.app_buffer

(* The flag is tested before the lock is tried; another connection of the  *)
(* process may set it in between, and while the lock is held.              *)
TestSkip(e) ==
  /\ At(e, InsertStage(e))
  /\ e \notin trying /\ cache_lock[HostOf[e]] # e
  /\ \/ /\ to_skip_insert_cache[e]
        /\ Goto(e, AfterInsert(e))
        /\ UNCHANGED trying
     \/ /\ ~ to_skip_insert_cache[e]
        /\ trying' = trying \cup {e}
        /\ UNCHANGED stage
  /\ UNCHANGED <<sent, delivered, netVars, cache, cache_lock,
                 to_skip_insert_cache, torn, astray, active_fds, i, send_req,
                 recv_req>>

TryLock(e) ==
  /\ e \in trying
  /\ cache_lock[HostOf[e]] = Free
  /\ cache_lock' = [cache_lock EXCEPT ![HostOf[e]] = e]
  /\ i' = [i EXCEPT ![e] = 1]
  /\ trying' = trying \ {e}
  /\ UNCHANGED <<sent, delivered, netVars, cache, to_skip_insert_cache, torn,
                 astray, active_fds, stage, send_req, recv_req>>

(* pthread_mutex_trylock fails, and the stage is run again.                *)
TryLockFails(e) ==
  /\ e \in trying
  /\ cache_lock[HostOf[e]] # Free
  /\ trying' = trying \ {e}
  /\ UNCHANGED <<sent, delivered, netVars, cache, cache_lock,
                 to_skip_insert_cache, torn, astray, active_fds, stage, i,
                 send_req, recv_req>>

(* insert_fingerprint leaves the content of a fingerprint that is there    *)
(* already as it is.                                                       *)
Insert(h, f, content) ==
  cache' = [cache EXCEPT ![h][f] = IF @ = Absent THEN content ELSE @]

InsertFingerprint(e) ==
  /\ cache_lock[HostOf[e]] = e
  /\ i[e] <= Len(ToInsert(e))
  /\ LET f == ToInsert(e)[i[e]] IN
       Insert(HostOf[e], f, [k \in 1 .. ContentSize[f] |->
                               BufferToInsert(e)[SlotToInsert(e) + k]])
  /\ i' = [i EXCEPT ![e] = @ + 1]
  /\ UNCHANGED <<sent, delivered, netVars, cache_lock, to_skip_insert_cache,
                 trying, torn, astray, active_fds, stage, send_req, recv_req>>


(* insert_fingerprint fails: "CACHE IS FULL".  How full the cache is also  *)
(* depends on the other connections of the host, so it may fail any time.  *)
CacheIsFull(e) ==
  /\ cache_lock[HostOf[e]] = e
  /\ i[e] <= Len(ToInsert(e))
  /\ cache_lock' = [cache_lock EXCEPT ![HostOf[e]] = Free]
  /\ to_skip_insert_cache' = [to_skip_insert_cache EXCEPT ![e] = TRUE]
  /\ Goto(e, AfterInsert(e))
  /\ UNCHANGED <<sent, delivered, netVars, cache, trying, torn, astray,
                 active_fds, i, send_req, recv_req>>

Unlock(e) ==
  /\ cache_lock[HostOf[e]] = e
  /\ i[e] > Len(ToInsert(e))
  /\ cache_lock' = [cache_lock EXCEPT ![HostOf[e]] = Free]
  /\ Goto(e, AfterInsert(e))
  /\ UNCHANGED <<sent, delivered, netVars, cache, to_skip_insert_cache,
                 trying, torn, astray, active_fds, i, send_req, recv_req>>

(* The insert stages of the other connections of the host. *)
LockByOthers(h) ==
  /\ cache_lock[h] = Free
  /\ cache_lock' = [cache_lock EXCEPT ![h] = Others]
  /\ UNCHANGED <<sent, delivered, netVars, cache, to_skip_insert_cache,
                 trying, torn, astray, active_fds, stage, i, send_req,
                 recv_req>>

InsertByOthers(h, f) ==
  /\ cache_lock[h] = Others
  /\ cache[h][f] = Absent
  /\ Insert(h, f, Content(f))
  /\ UNCHANGED <<sent, delivered, netVars, cache_lock, to_skip_insert_cache,
                 trying, torn, astray, active_fds, stage, i, send_req,
                 recv_req>>

UnlockByOthers(h) ==
  /\ cache_lock[h] = Others
  /\ cache_lock' = [cache_lock EXCEPT ![h] = Free]
  /\ UNCHANGED <<sent, delivered, netVars, cache, to_skip_insert_cache,
                 trying, torn, astray, active_fds, stage, i, send_req,
                 recv_req>>

(* Another connection of the process of e meets a full cache. *)
SkipByOthers(e) ==
  /\ ~ to_skip_insert_cache[e]
  /\ to_skip_insert_cache' = [to_skip_insert_cache EXCEPT ![e] = TRUE]
  /\ UNCHANGED <<sent, delivered, netVars, cache, cache_lock, trying, torn,
                 astray, active_fds, stage, i, send_req, recv_req>>

OthersStep ==
  \/ \E h \in SharedHosts :
       \/ LockByOthers(h) \/ UnlockByOthers(h)
       \/ \E f \in Fingerprints : InsertByOthers(h, f)
  \/ \E e \in Ends : HostOf[e] \in SharedHosts /\ SkipByOthers(e)

InsertStep(e) ==
  \/ TestSkip(e) \/ TryLock(e) \/ TryLockFails(e) \/ InsertFingerprint(e)
  \/ CacheIsFull(e) \/ Unlock(e)

(* What isend and test of the sending end can do next. *)
ProcessSend ==
  \/ SendHeader \/ SendRegDataEmpty \/ SendRegData \/ ComputeFingerprints
  \/ InsertStep("s") \/ SendFingerprintHeader \/ SendPackagedFingerprints
  \/ RecvMissingFingerprintHeader \/ RecvMissingFingerprints
  \/ SendMissingContent \/ TestSend

(* What irecv and test of the receiving end can do next. *)
ProcessRecv ==
  \/ IRecv \/ RecvHeader \/ RecvRegDataEmpty \/ RecvRegData
  \/ RecvFingerprintHeader \/ RecvPackagedFingerprints \/ PopulateFromNetCache
  \/ SendMissingFingerprintHeader \/ SendMissingFingerprints
  \/ RecvMissingContent \/ InsertStep("r") \/ TestRecv

-----------------------------------------------------------------------------
(* The connection.  A sending end that went astray has sent what it is to  *)
(* send up to the header, and nothing that it does next is seen before the *)
(* receiver comes to that header.  When the receiving end is astray, only  *)
(* an example is left of all that may happen.                              *)
SendStep ==
  /\ ~ astray["s"] /\ ~ astray["r"]
  /\ ProcessSend \/ SendHeaderCut \/ SendFingerprintHeaderCut

RecvStep ==
  /\ ~ astray["r"]
  /\ ProcessRecv \/ PopulateTorn \/ RecvHeaderCut \/ RecvFingerprintHeaderCut

(* A message that was not sent is delivered, and the cache is given wrong  *)
(* content.                                                                *)
AstrayStep ==
  /\ astray["r"]
  /\ Len(delivered) < MaxMsgs
  /\ delivered' = Append(delivered, [size |-> 1, data |-> <<Junk>>])
  /\ \E f, g \in Fingerprints : f # g /\ Insert(HostOf["r"], f, Content(g))
  /\ UNCHANGED <<sent, netVars, cache_lock, to_skip_insert_cache, trying,
                 active_fds, stage, i, send_req, recv_req, torn, astray>>

Next ==
  \/ ~ astray["r"] /\ \E m \in Messages : ISend(m)
  \/ SendStep
  \/ RecvStep
  \/ ~ astray["r"] /\ OthersStep
  \/ AstrayStep

Spec == Init /\ [][Next]_vars

(* NCCL's proxy threads post receives and poll test for as long as there   *)
(* are requests, and so do those of the other connections.  An insert      *)
(* stage is polled again and again; it is assumed to begin when the lock   *)
(* is free some time, and the trylock after it to find it still free:      *)
(* nothing in the code queues for the lock.                                *)
Fairness ==
  /\ WF_vars(SendStep) /\ WF_vars(RecvStep)
  /\ \A e \in Ends :
       /\ SF_vars(~ astray["r"] /\ TestSkip(e) /\ cache_lock[HostOf[e]] = Free)
       /\ SF_vars(~ astray["r"] /\ TryLock(e))
  /\ \A h \in SharedHosts : WF_vars(~ astray["r"] /\ UnlockByOthers(h))

FairSpec == Spec /\ Fairness

-----------------------------------------------------------------------------
(* Properties.                                                             *)

SendReqs ==
  [chunks : Seq(Fingerprints), packaged : Seq(Fingerprints), offset : Nat,
   num_missing : Nat, missing : Seq(Nat), reply_ind : Nat, reply_offset : Nat]

RecvReqs ==
  [header : [is_fingerprint : BOOLEAN, content_size : Nat],
   num_fingerprints : Nat, packaged : Seq(Fingerprints), num_missing : Nat,
   missing : Seq(Nat), offset : Nat, content_ind : Nat, content_offset : Nat,
   app_buffer : [AppBuf -> Units \cup {Junk}], app_filled_size : Nat]

(* A socket holds values of several kinds; it is a sequence within its     *)
(* capacity.                                                               *)
IsSocket(chan) ==
  /\ Len(chan) \in 0 .. SockBuf
  /\ chan = [k \in 1 .. Len(chan) |-> chan[k]]

(* Every variable has its type. *)
TypeOK ==
  /\ sent \in Seq(Messages)
  /\ delivered \in Seq([size : Nat, data : Seq(Units \cup {Junk})])
  /\ IsSocket(fwd) /\ IsSocket(rev)
  /\ cache \in [Hosts -> [Fingerprints -> Seq(Units)]]
  /\ cache_lock \in [Hosts -> Ends \cup {Free, Others}]
  /\ to_skip_insert_cache \in [Ends -> BOOLEAN]
  /\ trying \in SUBSET Ends
  /\ active_fds \in [Ends -> BOOLEAN]
  /\ stage \in [Ends -> SendStages \cup RecvStages]
  /\ stage["s"] \in SendStages /\ stage["r"] \in RecvStages
  /\ i \in [Ends -> Nat]
  /\ send_req \in SendReqs
  /\ recv_req \in RecvReqs
  /\ torn \in SUBSET Nat
  /\ astray \in [Ends -> BOOLEAN]

(* The peers agree on what comes next although nothing on the wire says    *)
(* so: whenever a recv() can return something, the first value is of the   *)
(* kind that the current stage takes it for.                               *)
FwdNext ==
  CASE stage["r"] = "RECV_HEADER" -> {"header"}
    [] stage["r"] = "RECV_REG_DATA" ->
         {IF recv_req.offset < recv_req.header.content_size THEN "data"
                                                            ELSE "header"}
    [] stage["r"] = "RECV_FINGERPRINT_HEADER" -> {"fingerprint_header"}
    [] stage["r"] = "RECV_PACKAGED_FINGERPRINTS" -> {"fingerprint"}
    [] stage["r"] = "RECV_MISSING_CONTENT" -> {"data"}
    [] stage["r"] \in {"INSERT_INBOUND_FINGERPRINTS", "RECV_COMPLETE"} -> {"header"}
    [] OTHER -> {}

RevNext ==
  CASE stage["s"] = "RECV_MISSING_FINGERPRINT_HEADER" -> {"missing_header"}
    [] stage["s"] = "RECV_MISSING_FINGERPRINTS" -> {"missing"}
    [] OTHER -> {}

InStep ==
  ~ astray["r"] =>
    /\ fwd # <<>> => Head(fwd).type \in FwdNext
    /\ rev # <<>> => Head(rev).type \in RevNext

(* What test reports as received is what isend was given, message by       *)
(* message: size and every byte, whichever chunks came from the cache.  Of *)
(* a message with a torn chunk the size is right, and its bytes may be     *)
(* wrong.                                                                  *)
DeliveredAsSent ==
  /\ Len(delivered) <= Len(sent)
  /\ \A k \in 1 .. Len(delivered) :
       IF k \in torn THEN delivered[k] \in Damaged[sent[k]]
                    ELSE delivered[k] = Payload(sent[k])

InOrderIntact == ~ astray["r"] => DeliveredAsSent

(* No host caches wrong content under a fingerprint, where it would go to  *)
(* every later message with that chunk: both insert stages read the right  *)
(* part of the application's buffer, and the receiver's is complete; what  *)
(* a torn chunk left in the buffer is not inserted.                        *)
CachesRight ==
  \A h \in Hosts, f \in Fingerprints : cache[h][f] \in {Absent, Content(f)}

CacheNotPoisoned == ~ astray["r"] => CachesRight

(* missing_fingerprint_inds of the sender is that of the receiver when the *)
(* content is sent, and lists distinct chunks in order.                    *)
MissingListsAgree ==
  ~ astray["r"] /\ stage["s"] = "SEND_MISSING_CONTENT" =>
    /\ send_req.missing = recv_req.missing
    /\ \A j, k \in 1 .. Len(send_req.missing) :
         j < k => send_req.missing[j] < send_req.missing[k]

(* On one host nothing is transferred that the host has: the sender        *)
(* inserts before it announces, so the receiver misses a chunk only if the *)
(* inserts of the sender's process have stopped for good.                  *)
HostHasAll ==
  HostOf["s"] = HostOf["r"] /\ recv_req.num_missing > 0
    => to_skip_insert_cache["s"]

LocalNeverMissing == ~ astray["r"] => HostHasAll



(* The connection implements the message channel it stands for; a torn     *)
(* chunk damages a message, a cut header breaks the channel.               *)
Channel == INSTANCE MessageChannel
             WITH PayloadOf <- [m \in Messages |-> Payload(m)],
                  DamagedOf <- Damaged,
                  damaged <- torn,
                  broken <- astray["r"]


=============================================================================
