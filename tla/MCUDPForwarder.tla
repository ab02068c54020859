--------------------------- MODULE MCUDPForwarder ---------------------------
(* Small instances of UDPForwarder for TLC. *)
EXTENDS UDPForwarder, TLC

CONSTANTS c1, c2

MCClients == {c1, c2}

TwoEach == [c \in MCClients |-> 2]

TwoAndOne == [c \in MCClients |-> IF c = c1 THEN 2 ELSE 1]

Symmetry == Permutations(MCClients)

(* The server refuses a session: its ack is not OK. *)
AckFault == {"ack"}

(* Everything but the loss of the connection, and the end of the error     *)
(* stream alone.                                                           *)
SessionFaults == FaultKinds \ {"conn", "error"}

(* Writes may block, error streams may end on their own, and the           *)
(* connection may be lost.                                                 *)
LiveFaults == {"stall", "error", "conn"}
=============================================================================
