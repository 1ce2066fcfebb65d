----------------------------- MODULE CardShelf ------------------------------
(***************************************************************************)
(* What a card store promises (the comments of app/CardStore.hpp): the     *)
(* card on the shelf is replaced by clearing the shelf and publishing the  *)
(* new one, all its blobs at once or one after the other; a blob on the    *)
(* shelf is whole; giving up, failing or losing power leaves the shelf as  *)
(* it was last published.                                                  *)
(***************************************************************************)
CONSTANTS Cards, BlobId, None

VARIABLES
  held,     \* held[b]: the card whose blob b a reader finds
  left,     \* left[b]: the same, but for a clearing that failed
  draft,    \* draft[b]: the card whose blob b was written since the shelf was cleared
  open      \* a card is being replaced

shelfVars == <<held, left, draft, open>>

Bare == [b \in BlobId |-> None]

Init == held = Bare /\ left = Bare /\ draft = Bare /\ open = FALSE

Clear == ~open /\ held' = Bare /\ left' = Bare /\ draft' = Bare /\ open' = TRUE

\* What remains of s[b], for each b, is all or nothing.
Rest(s) == {r \in [BlobId -> Cards \cup {None}] : \A b \in BlobId : r[b] \in {s[b], None}}

\* Clearing the shelf half way: some of the card may still be there, or be there again
\* when an earlier failure had hidden it.
ClearFails ==
  /\ ~open
  /\ left' \in Rest(left) /\ held' \in Rest(left')
  /\ UNCHANGED <<draft, open>>

Put ==
  /\ open
  /\ \E c \in Cards, b \in BlobId : draft[b] = None /\ draft' = [draft EXCEPT ![b] = c]
  /\ UNCHANGED <<held, left, open>>

Publish == open /\ held' = draft /\ left' = draft /\ UNCHANGED <<draft, open>>

Stop == open /\ open' = FALSE /\ draft' = Bare /\ UNCHANGED <<held, left>>

Next == Clear \/ ClearFails \/ Put \/ Publish \/ Stop

Spec == Init /\ [][Next]_shelfVars
=============================================================================
