--------------------------- MODULE MCInvitations ---------------------------
(* A small instance of Invitations for TLC. *)
EXTENDS Invitations, TLC

CONSTANTS u1, u2, i1, i2

\* One invitation for each user.
SentEach == (i1 :> u1 @@ i2 :> u2)
=============================================================================
