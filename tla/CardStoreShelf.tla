--------------------------- MODULE CardStoreShelf ---------------------------
(***************************************************************************)
(* The slots and sectors of CardStore implement the shelf of CardShelf.    *)
(***************************************************************************)
EXTENDS CardStore

\* What a reader would find were no slot erased: the last valid one counts.
Left ==
  LET V == {i \in Slots : slot[i] \in Header} IN
  Content(IF V = {} THEN None ELSE slot[CHOOSE i \in V : \A j \in V : j <= i])

\* What the blobs written by the Writer in progress are of.
Drafted == [b \in BlobId |-> wr.blobs[b].crc]

Shelf == INSTANCE CardShelf WITH held <- Held, left <- Left, draft <- Drafted, open <- wr.active

\* Replacing a card never shows a reader a mixture, a half written blob or an older
\* state than the last one published, whatever fails and whenever the power goes.
ImplementsShelf == Shelf!Spec
=============================================================================
