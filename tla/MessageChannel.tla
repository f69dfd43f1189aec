--------------------------- MODULE MessageChannel ---------------------------
(***************************************************************************)
(* What a pair of a send comm and a recv comm promises NCCL: every message *)
(* given to isend comes out of one irecv, whole, once and in order.  A     *)
(* message may be damaged: it keeps its place and its size, not its bytes. *)
(* The channel may break: from then on it promises nothing.                *)
(***************************************************************************)
EXTENDS Naturals, Sequences

CONSTANTS
  Messages,
  PayloadOf,    \* what the receiving application gets to see of a message
  DamagedOf,    \* what it may see of a damaged one
  MaxMsgs       \* bound on the number of messages

VARIABLES
  sent,
  delivered,
  damaged,      \* numbers of the damaged messages
  broken

chanVars == <<sent, delivered, damaged, broken>>

Init ==
  /\ sent = <<>>
  /\ delivered = <<>>
  /\ damaged = {}
  /\ broken = FALSE

Send(m) ==
  /\ ~ broken
  /\ Len(sent) < MaxMsgs
  /\ sent' = Append(sent, m)
  /\ UNCHANGED <<delivered, damaged, broken>>

(* The message that is to come out next. *)
Pending == Len(delivered) + 1

Deliver ==
  /\ ~ broken
  /\ Pending <= Len(sent)
  /\ \E p \in IF Pending \in damaged THEN DamagedOf[sent[Pending]]
                                     ELSE {PayloadOf[sent[Pending]]} :
       delivered' = Append(delivered, p)
  /\ UNCHANGED <<sent, damaged, broken>>

Damage ==
  /\ ~ broken
  /\ Pending <= Len(sent)
  /\ damaged' = damaged \cup {Pending}
  /\ UNCHANGED <<sent, delivered, broken>>

Break ==
  /\ ~ broken
  /\ broken' = TRUE
  /\ UNCHANGED <<sent, delivered, damaged>>

(* Anything may happen when the channel is broken. *)
Broken == broken /\ broken'

Next == Deliver \/ Damage \/ Break \/ Broken \/ \E m \in Messages : Send(m)

(* What may never happen, and what must. *)
Safety == Init /\ [][Next]_chanVars

Spec == Safety /\ WF_chanVars(Deliver)

=============================================================================
