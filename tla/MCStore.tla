------------------------------ MODULE MCStore -------------------------------
(***************************************************************************)
(* Instances of CardStore for TLC.                                         *)
(***************************************************************************)
EXTENDS CardStoreShelf

\* Blobs of one and of two sectors: cards of three sectors, a mixture of four does not fit.
Sizes == [c \in Cards |-> [b \in BlobId |->
           IF (c = CHOOSE d \in Cards : TRUE) = (b = "PDF") THEN 1 ELSE 2]]
=============================================================================
