---------------------------- MODULE MCStreamConn ----------------------------
(* Small instances of StreamConn for TLC. *)
EXTENDS StreamConn

CONSTANT s1

MCSessions == {s1}

AllFaults == {"stall", "write", "corrupt", "lost", "refuse"}

StallOnly == {"stall"}
=============================================================================
