---------------------------- MODULE UDPSessions ----------------------------
(***************************************************************************)
(* What UDP forwarding promises a local client: its datagrams go to the    *)
(* remote side over one session at a time, each at most once and in the    *)
(* order in which they arrived.  Any of them may be lost, and a session    *)
(* may be given up for a new one.                                          *)
(***************************************************************************)
EXTENDS Naturals, Sequences

CONSTANTS
  Clients,
  MaxSend    (* bound on the datagrams, hence the sessions, of a client    *)

VARIABLES
  arrived,   (* how many datagrams of each client have arrived             *)
  session,   (* the number of each client's current session, 0 for none    *)
  out        (* the datagrams passed on over each session                  *)

vars == <<arrived, session, out>>

Init ==
  /\ arrived = [c \in Clients |-> 0]
  /\ session = [c \in Clients |-> 0]
  /\ out = [s \in Clients \X (1..MaxSend) |-> <<>>]

Arrive(c) ==
  /\ arrived' = [arrived EXCEPT ![c] = @ + 1]
  /\ UNCHANGED <<session, out>>

(* A session is opened for a datagram. *)
Open(c) ==
  /\ session[c] < arrived[c]
  /\ session' = [session EXCEPT ![c] = @ + 1]
  /\ UNCHANGED <<arrived, out>>

(* Datagram n is newer than all that were passed on, over any session.     *)
Newer(c, n) ==
  \A k \in 1..MaxSend : \A i \in DOMAIN out[<<c, k>>] : out[<<c, k>>][i] < n

Deliver(c) ==
  /\ session[c] > 0
  /\ \E n \in 1..arrived[c] :
       /\ Newer(c, n)
       /\ out' = [out EXCEPT ![<<c, session[c]>>] = Append(@, n)]
  /\ UNCHANGED <<arrived, session>>

Next == \E c \in Clients : Arrive(c) \/ Open(c) \/ Deliver(c)

Spec == Init /\ [][Next]_vars
=============================================================================
