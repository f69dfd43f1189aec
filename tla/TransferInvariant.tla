-------------------------- MODULE TransferInvariant --------------------------
(***************************************************************************)
(* The inductive invariant of DedupTransfer: where each end is in the      *)
(* stream of tokens that the messages stand for, and what that says of the *)
(* two directions of the socket and of the requests of both ends.          *)
(*                                                                         *)
(* Apart from the content that the receiver asks for, what a message puts  *)
(* on the wire is known from the start: its header, and then its bytes or  *)
(* its fingerprints.  The tokens of all messages are therefore numbered    *)
(* through.  Content that was asked for is numbered by itself; it comes    *)
(* before whatever the sender sends of later messages.                     *)
(***************************************************************************)
EXTENDS DedupTransfer

S == Len(sent)              \* the message the sender is at, or was at last
R == Len(delivered) + 1     \* the message the receiver is at, or comes to

IsFingerprinted(m) == Size(ChunksOf[m]) > Threshold

HeaderOf(m) ==
  [is_fingerprint |-> IsFingerprinted(m), content_size |-> Size(ChunksOf[m])]

(* The tokens of message m, without content that is asked for. *)
MsgLen(m) ==
  IF IsFingerprinted(m) THEN 2 + Len(ChunksOf[m]) ELSE 1 + Size(ChunksOf[m])

MsgToken(m, p) ==
  IF p = 1 THEN [type |-> "header", val |-> HeaderOf(m)]
  ELSE IF ~ IsFingerprinted(m)
    THEN [type |-> "data", val |-> Data(ChunksOf[m])[p - 1]]
  ELSE IF p = 2
    THEN [type |-> "fingerprint_header", val |-> Len(ChunksOf[m])]
    ELSE [type |-> "fingerprint", val |-> ChunksOf[m][p - 2]]

(* The number of tokens before message k of a sequence of messages. *)
Lengths(msgs) == [k \in DOMAIN msgs |-> MsgLen(msgs[k])]
StartAt(msgs, k) == SumTo(Lengths(msgs), k - 1)

StartOf(k) == StartAt(sent, k)

(* How many tokens of its message an end is past. *)
SendAt ==
  CASE stage["s"] = "SEND_HEADER" -> 0
    [] stage["s"] = "SEND_REG_DATA" -> 1 + send_req.offset
    [] stage["s"] \in {"COMPUTE_FINGERPRINTS", "INSERT_OUTBOUND_FINGERPRINTS",
                       "SEND_FINGERPRINT_HEADER"} -> 1
    [] stage["s"] = "SEND_PACKAGED_FINGERPRINTS" -> 2 + send_req.offset
    [] OTHER -> MsgLen(sent[S])

RecvAt ==
  CASE stage["r"] = "RECV_HEADER" -> 0
    [] stage["r"] = "RECV_REG_DATA" -> 1 + recv_req.offset
    [] stage["r"] = "RECV_FINGERPRINT_HEADER" -> 1
    [] stage["r"] = "RECV_PACKAGED_FINGERPRINTS" -> 2 + Len(recv_req.packaged)
    [] OTHER -> MsgLen(sent[R])

SPos == IF active_fds["s"] THEN StartOf(S) + SendAt ELSE StartOf(S + 1)
RPos == IF active_fds["r"] THEN StartOf(R) + RecvAt ELSE StartOf(R)

(* The chunks the receiver asks for, and how much of their content is      *)
(* received and sent.                                                      *)
Missing == [k \in 1 .. Len(recv_req.missing) |->
              recv_req.packaged[recv_req.missing[k]]]

ContentRecvd == OffsetOf(Missing, recv_req.content_ind) + recv_req.content_offset

SenderDone(k) == k < S \/ (k = S /\ stage["s"] = "SEND_COMPLETE")

ContentSent ==
  IF SenderDone(R) THEN Size(Missing)
  ELSE IF stage["s"] = "SEND_MISSING_CONTENT"
    THEN OffsetOf(Missing, send_req.reply_ind) + send_req.reply_offset
    ELSE 0

ContentAhead ==
  IF At("r", "RECV_MISSING_CONTENT") THEN ContentSent - ContentRecvd ELSE 0

-----------------------------------------------------------------------------
(* The two directions of the socket.                                       *)

(* fwd holds what the sender is past and the receiver is not: first        *)
(* content that was asked for, then tokens of the stream.                  *)
FwdLength(chan, ahead, rpos, spos) ==
  /\ rpos <= spos
  /\ ahead >= 0
  /\ Len(chan) = ahead + (spos - rpos)

FwdContent(chan, ahead, missing, recvd) ==
  \A k \in 1 .. Len(missing) : \A q \in 1 .. ContentSize[missing[k]] :
    LET j == OffsetOf(missing, k) + q - recvd IN
    j \in 1 .. ahead => chan[j] = [type |-> "data", val |-> <<missing[k], q>>]

FwdStream(chan, ahead, msgs, rpos, spos) ==
  \A k \in 1 .. Len(msgs) : \A p \in 1 .. MsgLen(msgs[k]) :
    LET j == StartAt(msgs, k) + p - rpos IN
    j \in 1 .. spos - rpos => chan[ahead + j] = MsgToken(msgs[k], p)

FwdInv ==
  /\ FwdLength(fwd, ContentAhead, RPos, SPos)
  /\ FwdContent(fwd, ContentAhead, Missing, ContentRecvd)
  /\ FwdStream(fwd, ContentAhead, sent, RPos, SPos)

(* The receiver has told which chunks are missing, or is telling it. *)
Asking ==
  At("r", "SEND_MISSING_FINGERPRINTS") \/ At("r", "RECV_MISSING_CONTENT")

(* The receiver has told that nothing is missing of message k. *)
AskedNothing(k) ==
  \/ R = k + 1
  \/ R = k /\ At("r", "RECV_COMPLETE") /\ recv_req.num_missing = 0

(* rev holds what the sender waits for and the receiver has sent. *)
RevInv ==
  CASE stage["s"] = "RECV_MISSING_FINGERPRINT_HEADER" ->
         \/ /\ R = S /\ Asking
            /\ Len(rev) = 1 + recv_req.offset
            /\ rev[1] = [type |-> "missing_header", val |-> recv_req.num_missing]
            /\ \A j \in 1 .. recv_req.offset :
                 rev[1 + j] = [type |-> "missing", val |-> recv_req.missing[j]]
         \/ /\ AskedNothing(S)
            /\ Len(rev) = 1
            /\ rev[1] = [type |-> "missing_header", val |-> 0]
         \/ /\ ~ (R = S /\ Asking) /\ ~ AskedNothing(S)
            /\ rev = <<>>
    [] stage["s"] = "RECV_MISSING_FINGERPRINTS" ->
         /\ R = S /\ Asking
         /\ send_req.num_missing = recv_req.num_missing
         /\ Len(send_req.missing) < send_req.num_missing
         /\ Len(send_req.missing) + Len(rev) = recv_req.offset
         /\ \A j \in 1 .. Len(send_req.missing) : send_req.missing[j] = recv_req.missing[j]
         /\ \A j \in 1 .. Len(rev) :
              rev[j] = [type |-> "missing",
                        val |-> recv_req.missing[Len(send_req.missing) + j]]
    [] OTHER -> rev = <<>>

-----------------------------------------------------------------------------
(* The requests.                                                           *)

SendFpStages == SendStages \ {"SEND_HEADER", "SEND_REG_DATA", "SEND_COMPLETE"}

(* What the sender's request holds at each stage. *)
SendContentInv ==
  /\ R = S /\ At("r", "RECV_MISSING_CONTENT")
  /\ send_req.missing = recv_req.missing
  /\ send_req.num_missing = recv_req.num_missing
  /\ send_req.reply_ind \in 1 .. Len(Missing)
  /\ send_req.reply_offset < ContentSize[Missing[send_req.reply_ind]]

SendInv ==
  /\ ~ active_fds["s"] => stage["s"] = "SEND_COMPLETE"
  /\ active_fds["s"] => S > 0 /\ send_req.chunks = ChunksOf[sent[S]]
  /\ stage["s"] = "SEND_HEADER" => send_req.offset = 0
  /\ stage["s"] = "SEND_REG_DATA" =>
       ~ IsFingerprinted(sent[S]) /\ send_req.offset <= Size(ChunksOf[sent[S]])
  /\ stage["s"] \in SendFpStages => IsFingerprinted(sent[S])
  /\ stage["s"] \in SendFpStages \ {"COMPUTE_FINGERPRINTS"} =>
       send_req.packaged = send_req.chunks
  /\ stage["s"] \in {"INSERT_OUTBOUND_FINGERPRINTS", "SEND_FINGERPRINT_HEADER"} =>
       send_req.offset = 0
  /\ stage["s"] = "SEND_PACKAGED_FINGERPRINTS" =>
       send_req.offset < Len(send_req.packaged)
  /\ stage["s"] \in SendFpStages \ {"COMPUTE_FINGERPRINTS", "SEND_MISSING_CONTENT"} =>
       send_req.reply_ind = 1 /\ send_req.reply_offset = 0
  /\ stage["s"] \in SendFpStages \ {"COMPUTE_FINGERPRINTS", "RECV_MISSING_FINGERPRINTS",
                                    "SEND_MISSING_CONTENT"} =>
       send_req.missing = <<>>
  /\ stage["s"] = "SEND_MISSING_CONTENT" => SendContentInv

RecvFpStages == RecvStages \ {"RECV_HEADER", "RECV_REG_DATA", "RECV_COMPLETE"}

(* The first stages of a fingerprinted receive, and those that come after  *)
(* the receiver has all fingerprints.                                      *)
RecvFirst == {"RECV_FINGERPRINT_HEADER", "RECV_PACKAGED_FINGERPRINTS"}
RecvKnown == RecvFpStages \ RecvFirst

(* The number of chunks looked up so far. *)
LookedUp ==
  IF stage["r"] = "POPULATE_FROM_NET_CACHE" THEN i["r"] - 1 ELSE Len(recv_req.packaged)

(* Unit q of chunk j was copied from the cache or received. *)
Filled(j, q) ==
  /\ j <= LookedUp
  /\ \A k \in 1 .. Len(recv_req.missing) : recv_req.missing[k] = j =>
       \/ k < recv_req.content_ind
       \/ k = recv_req.content_ind /\ q <= recv_req.content_offset

(* The list of missing chunks. *)
ListInv ==
  /\ recv_req.packaged = ChunksOf[sent[R]]
  /\ recv_req.num_fingerprints = Len(recv_req.packaged)
  /\ stage["r"] = "POPULATE_FROM_NET_CACHE" => i["r"] \in 1 .. Len(recv_req.packaged)
  /\ recv_req.num_missing = Len(recv_req.missing)
  /\ \A k \in 1 .. Len(recv_req.missing) : recv_req.missing[k] \in 1 .. LookedUp
  /\ \A j, k \in 1 .. Len(recv_req.missing) :
       j < k => recv_req.missing[j] < recv_req.missing[k]

(* What was filled in so far. *)
FilledInv ==
  /\ \A j \in 1 .. Len(recv_req.packaged) :
       \A q \in 1 .. ContentSize[recv_req.packaged[j]] :
         Filled(j, q) =>
           \/ recv_req.app_buffer[OffsetOf(recv_req.packaged, j) + q]
                = <<recv_req.packaged[j], q>>
           \/ /\ R \in torn
              /\ recv_req.app_buffer[OffsetOf(recv_req.packaged, j) + q] = Junk
              /\ \A k \in 1 .. Len(recv_req.missing) : recv_req.missing[k] # j
  /\ recv_req.app_filled_size + (Size(Missing) - ContentRecvd)
       = SizeUpTo(recv_req.packaged, LookedUp)

(* How far the receiver is with telling and receiving what is missing. *)
ProgressInv ==
  CASE stage["r"] = "RECV_MISSING_CONTENT" ->
         /\ recv_req.offset = Len(recv_req.missing)
         /\ recv_req.content_ind \in 1 .. Len(recv_req.missing)
         /\ recv_req.content_offset < ContentSize[Missing[recv_req.content_ind]]
    [] stage["r"] = "INSERT_INBOUND_FINGERPRINTS" ->
         /\ recv_req.content_ind = Len(recv_req.missing) + 1
         /\ recv_req.content_offset = 0
    [] stage["r"] = "SEND_MISSING_FINGERPRINTS" ->
         /\ recv_req.content_ind = 1 /\ recv_req.content_offset = 0
         /\ recv_req.offset < Len(recv_req.missing)
    [] OTHER ->
         /\ recv_req.content_ind = 1 /\ recv_req.content_offset = 0
         /\ recv_req.offset = 0

RegDataInv ==
  /\ ~ IsFingerprinted(sent[R])
  /\ recv_req.offset <= Size(ChunksOf[sent[R]])
  /\ \A p \in 1 .. recv_req.offset :
       recv_req.app_buffer[p] = Data(ChunksOf[sent[R]])[p]

FirstInv ==
  /\ recv_req.num_missing = 0 /\ recv_req.missing = <<>>
  /\ recv_req.offset = 0 /\ recv_req.app_filled_size = 0
  /\ stage["r"] = "RECV_FINGERPRINT_HEADER" => recv_req.packaged = <<>>
  /\ stage["r"] = "RECV_PACKAGED_FINGERPRINTS" =>
       /\ recv_req.num_fingerprints = Len(ChunksOf[sent[R]])
       /\ Len(recv_req.packaged) < Len(ChunksOf[sent[R]])
       /\ \A j \in 1 .. Len(recv_req.packaged) :
            recv_req.packaged[j] = ChunksOf[sent[R]][j]
       /\ recv_req.content_ind = 1 /\ recv_req.content_offset = 0

CompleteInv ==
  /\ \A p \in 1 .. Size(ChunksOf[sent[R]]) :
       \/ recv_req.app_buffer[p] = Data(ChunksOf[sent[R]])[p]
       \/ R \in torn /\ recv_req.app_buffer[p] = Junk
  /\ IsFingerprinted(sent[R]) =>
       recv_req.app_filled_size = Size(ChunksOf[sent[R]])

(* What the receiver's request holds at each stage. *)
RecvInv ==
  /\ ~ active_fds["r"] => stage["r"] = "RECV_COMPLETE"
  /\ At("r", "RECV_HEADER") => recv_req = FreshRecvReq
  /\ active_fds["r"] /\ stage["r"] # "RECV_HEADER" =>
       R <= S /\ recv_req.header = HeaderOf(sent[R])
  /\ stage["r"] = "RECV_REG_DATA" => RegDataInv
  /\ stage["r"] \in RecvFpStages => IsFingerprinted(sent[R])
  /\ stage["r"] \in RecvFirst => FirstInv
  /\ stage["r"] \in RecvKnown => ListInv /\ FilledInv /\ ProgressInv
  /\ At("r", "RECV_COMPLETE") => CompleteInv

(* The sender is done with a fingerprinted message only when the receiver  *)
(* has asked for what it misses; of one that it is not done with, the      *)
(* receiver gets no further than its last question.                        *)
TurnInv ==
  /\ \A k \in R .. S : SenderDone(k) /\ IsFingerprinted(sent[k]) =>
       /\ k = R /\ active_fds["r"]
       /\ stage["r"] \in {"RECV_MISSING_CONTENT", "INSERT_INBOUND_FINGERPRINTS",
                          "RECV_COMPLETE"}
  /\ ~ SenderDone(S) /\ S > 0 /\ IsFingerprinted(sent[S]) =>
       \/ R < S
       \/ /\ R = S
          /\ stage["r"] # "INSERT_INBOUND_FINGERPRINTS"
          /\ At("r", "RECV_COMPLETE") => recv_req.num_missing = 0
          /\ At("r", "RECV_MISSING_CONTENT")
               /\ stage["s"] # "SEND_MISSING_CONTENT" => ContentRecvd = 0
       \/ R = S + 1 /\ stage["s"] = "RECV_MISSING_FINGERPRINT_HEADER"

-----------------------------------------------------------------------------
(* The caches.                                                             *)

(* Who tries or has cache_lock is in its insert stage, and not both.       *)
LockInv ==
  \A e \in Ends :
    /\ e \in trying => At(e, InsertStage(e))
    /\ cache_lock[HostOf[e]] = e =>
         At(e, InsertStage(e)) /\ i[e] > 0 /\ e \notin trying

(* Chunk j of the sender's message has been through its insert stage. *)
PastInsert(j) ==
  \/ stage["s"] \in SendFpStages \ {"COMPUTE_FINGERPRINTS",
                                    "INSERT_OUTBOUND_FINGERPRINTS"}
  \/ cache_lock[HostOf["s"]] = "s" /\ j < i["s"]

(* What the sender has announced is in the cache of its host, unless its   *)
(* inserts have stopped for good.                                          *)
AnnouncedInv ==
  /\ active_fds["s"] /\ ~ to_skip_insert_cache["s"] =>
       \A j \in 1 .. Len(send_req.packaged) :
         PastInsert(j) => cache[HostOf["s"]][send_req.packaged[j]] # Absent
  /\ HostHasAll

TransferInv ==
  /\ TypeOK
  /\ DeliveredAsSent
  /\ FwdInv
  /\ RevInv
  /\ SendInv
  /\ RecvInv
  /\ TurnInv
  /\ CachesRight
  /\ LockInv
  /\ AnnouncedInv

(* A sending end goes astray at a header, where it stays.                  *)
AstrayInv ==
  astray["s"] => At("s", "SEND_HEADER") \/ At("s", "SEND_FINGERPRINT_HEADER")

(* All this holds until the receiving end goes astray.                     *)
ConnectionInv ==
  /\ TypeOK
  /\ ~ astray["r"] => TransferInv /\ AstrayInv

=============================================================================
