------------------------- MODULE MCPushConnection -------------------------
(* Small instances of PushConnection for TLC. *)
EXTENDS PushConnection, TLC

\* Profiles are interchangeable; runs with a temporal property use no symmetry.
Symmetry == Permutations(Profiles)
=============================================================================
