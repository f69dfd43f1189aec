---------------------------- MODULE ContentStore ----------------------------
(***************************************************************************)
(* What the fingerprint cache of a host promises its clients, which is     *)
(* what a connection relies on: a set of fingerprints that only grows, one *)
(* insertion at a time, and lookups that need no lock.  A lookup of what   *)
(* was stored when it began is answered with its content; so is every      *)
(* other one, or with "missing", unless it meets the very fingerprint      *)
(* being stored: then the answer may be torn.                              *)
(***************************************************************************)

CONSTANTS
  Clients,
  Names,        \* fingerprints
  ContentOf,    \* the content of a fingerprint
  Nothing       \* no fingerprint

VARIABLES
  stored,       \* fingerprints that are in the store
  coming,       \* the one that is being stored, if there is one
  asked,        \* what a client looks up
  known,        \* was it in the store when the client asked?
  reply         \* the answer a client got

storeVars == <<stored, coming, asked, known, reply>>

NoReply == [kind |-> "none", content |-> <<>>]
Missing == [kind |-> "missing", content |-> <<>>]
Found(f) == [kind |-> "content", content |-> ContentOf[f]]

Init ==
  /\ stored = {}
  /\ coming = {}
  /\ asked = [c \in Clients |-> Nothing]
  /\ known = [c \in Clients |-> FALSE]
  /\ reply = [c \in Clients |-> NoReply]

(* insert_fingerprint starts to store f, which is not there yet.  One that *)
(* never ends, because its process was killed, is the last.                *)
BeginStore(f) ==
  /\ coming = {}
  /\ f \notin stored
  /\ coming' = {f}
  /\ UNCHANGED <<stored, asked, known, reply>>

EndStore ==
  /\ coming # {}
  /\ stored' = stored \cup coming
  /\ coming' = {}
  /\ UNCHANGED <<asked, known, reply>>

(* lookup_fingerprint is called, ... *)
Ask(c, f) ==
  /\ asked[c] = Nothing
  /\ asked' = [asked EXCEPT ![c] = f]
  /\ known' = [known EXCEPT ![c] = f \in stored]
  /\ UNCHANGED <<stored, coming, reply>>

(* ... and gives an answer. *)
Waits(c) == asked[c] # Nothing /\ reply[c] = NoReply

Hit(c) ==
  /\ Waits(c)
  /\ asked[c] \in stored
  /\ reply' = [reply EXCEPT ![c] = Found(asked[c])]
  /\ UNCHANGED <<stored, coming, asked, known>>

Miss(c) ==
  /\ Waits(c)
  /\ ~ known[c]
  /\ reply' = [reply EXCEPT ![c] = Missing]
  /\ UNCHANGED <<stored, coming, asked, known>>

(* A lookup that met a fingerprint half stored: anything may come of it. *)
Torn(c) ==
  /\ Waits(c)
  /\ ~ known[c]
  /\ asked[c] \in stored \cup coming
  /\ reply' = [reply EXCEPT ![c] = reply'[c]]
  /\ reply'[c].kind \in {"content", "fault"}
  /\ UNCHANGED <<stored, coming, asked, known>>

(* The clients in C have what they asked for, or are killed. *)
Leave(C) ==
  /\ asked' = [c \in Clients |-> IF c \in C THEN Nothing ELSE asked[c]]
  /\ known' = [c \in Clients |-> IF c \in C THEN FALSE ELSE known[c]]
  /\ reply' = [c \in Clients |-> IF c \in C THEN NoReply ELSE reply[c]]
  /\ UNCHANGED <<stored, coming>>

Next ==
  \/ EndStore
  \/ \E f \in Names : BeginStore(f)
  \/ \E c \in Clients :
       \/ Hit(c) \/ Miss(c) \/ Torn(c)
       \/ \E f \in Names : Ask(c, f)
  \/ \E C \in SUBSET Clients : Leave(C)

Spec == Init /\ [][Next]_storeVars

=============================================================================
