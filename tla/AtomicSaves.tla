---------------------------- MODULE AtomicSaves ----------------------------
(***************************************************************************)
(* What a restore promises, whatever happens in the middle of it: the save *)
(* is always one whole copy, and it changes in one step.                   *)
(***************************************************************************)
CONSTANTS plays

VARIABLES
    local,   \* the plays the save in effect contains
    stored,  \* every copy the server ever took
    ended    \* the promise is over

Init == local = {} /\ stored = {} /\ ended = FALSE

Play    == \E p \in plays : local' = local \cup {p} /\ UNCHANGED <<stored, ended>>
Restore == local' \in stored /\ UNCHANGED <<stored, ended>>
\* A copy of this machine, of an earlier moment, or of another machine.
Store   == \E copy \in SUBSET plays : stored' = stored \cup {copy} /\ UNCHANGED <<local, ended>>
End     == ended' = TRUE /\ local' = {} /\ stored' = {}

Next == ~ended /\ (Play \/ Restore \/ Store \/ End)

Spec == Init /\ [][Next]_<<local, stored, ended>>
=============================================================================
