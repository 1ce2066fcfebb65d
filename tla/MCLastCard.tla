----------------------------- MODULE MCLastCard -----------------------------
(***************************************************************************)
(* Instances of LastCard for TLC.                                          *)
(***************************************************************************)
EXTENDS LastCard

AllCards == Paths \X Versions
OneSector == [c \in AllCards |-> [b \in {"PDF", "DISPLAY"} |-> 1]]
=============================================================================
