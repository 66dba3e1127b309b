----------------------------- MODULE MCSession -----------------------------
(* Small instances of Session for TLC. *)
EXTENDS Session, TLC

\* Profiles, servers and threads are interchangeable.
Symmetry == Permutations(Profiles) \cup Permutations(Servers) \cup Permutations(Threads)
=============================================================================
