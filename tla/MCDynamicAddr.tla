--------------------------- MODULE MCDynamicAddr ---------------------------
(* Small instances of DynamicAddr for TLC. *)
EXTENDS DynamicAddr

CONSTANTS p1, p2

MCPods == {p1, p2}

AllFaults == {"list", "slow", "gone"}

SlowOnly == {"slow"}
=============================================================================
