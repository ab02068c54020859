--------------------------- MODULE MCIdleTracker ---------------------------
(* Small instances of IdleTracker for TLC. *)
EXTENDS IdleTracker, TLC

CONSTANTS c1, c2

MCConns == {c1, c2}

Symmetry == Permutations(MCConns)
=============================================================================
