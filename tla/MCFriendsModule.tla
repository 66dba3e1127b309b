-------------------------- MODULE MCFriendsModule --------------------------
(* Small instances of FriendsModule for TLC. *)
EXTENDS FriendsModule
=============================================================================
