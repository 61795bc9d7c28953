----------------------------- MODULE MCOnpDiff -----------------------------
(* Instances of the sequence comparison for TLC. *)
EXTENDS OnpDiff

CONSTANTS MaxLen

MCInputs == UNION {[1 .. l -> Elements] : l \in 0 .. MaxLen}
=============================================================================
