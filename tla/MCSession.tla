----------------------------- MODULE MCSession -----------------------------
(***************************************************************************)
(* Instances of DokanSession for TLC.                                      *)
(***************************************************************************)
EXTENDS DokanSessionPipe

\* Both ends were configured with the same stream_window ...
Windows4 == [e \in End |-> 4]
Windows1 == [e \in End |-> 1]
\* ... or one of them lowered it.
HostLowered == [e \in End |-> IF e = "HOST" THEN 2 ELSE 4]
=============================================================================
