-------------------------- MODULE MCDedupTransfer --------------------------
(***************************************************************************)
(* Small instances of DedupTransfer: an empty message, one at the          *)
(* threshold, and messages above it with a chunk of one and of two units,  *)
(* repeated or not.                                                        *)
(***************************************************************************)
EXTENDS TransferInvariant, TLC

CONSTANTS a, b, empty, plain, mixed, twice

MCContentSize == a :> 1 @@ b :> 2
MCChunksOf ==
  [m \in Messages |-> CASE m = empty -> <<>>
                       [] m = plain -> <<b>>
                       [] m = mixed -> <<a, b>>
                       [] m = twice -> <<b, a, b>>]

MCTwoHosts == "s" :> "h1" @@ "r" :> "h2"
MCOneHost == "s" :> "h1" @@ "r" :> "h1"

=============================================================================
