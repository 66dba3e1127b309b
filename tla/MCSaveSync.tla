----------------------------- MODULE MCSaveSync -----------------------------
(* Small instances of SaveSync for TLC.                                    *)
EXTENDS SaveSync

MCBound == [launch |-> 2, elsewhere |-> 1, click |-> 1, fault |-> 1]

\* Every property is over once a restore was exposed.
NotExposed == exposed = "no"
=============================================================================
