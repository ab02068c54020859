------------------------------ MODULE ProxyTCP ------------------------------
(***************************************************************************)
(* A TCP session in krelay-server: xnet.ProxyTCP and its two tcpBrokers    *)
(* (pkg/xnet/tcp.go), between the sockets they use.                        *)
(*                                                                         *)
(* The sides are "down", the client, and "up", the destination.  The       *)
(* broker of a side copies what that side sends to the other side, then    *)
(* closes its channel, then (the deferred call) the connection it read     *)
(* from.  ProxyTCP waits for one of them, makes the other one stop reading *)
(* and waits for it.  Data are counted in chunks: what one Read returns.   *)
(*                                                                         *)
(* Sockets behave as on Linux: written data wait in a send buffer until    *)
(* the peer takes them; a connection that is closed with SO_LINGER 0, or   *)
(* with received data that nobody has read, is reset, and its send buffer  *)
(* is lost.                                                                *)
(***************************************************************************)
EXTENDS Naturals

CONSTANTS
  MaxChunks,  (* [Sides -> Nat]: bound on what each peer sends             *)
  BufCap,     (* chunks a send buffer holds                                *)
  Closers,    (* the peers that may close their direction                  *)
  Resetters   (* the peers that may abort their connection                 *)

Sides == {"down", "up"}

ASSUME ConstantsAssumption ==
  /\ MaxChunks \in [Sides -> Nat]
  /\ BufCap \in Nat \ {0}
  /\ Closers \subseteq Sides
  /\ Resetters \subseteq Sides

VARIABLES
  sent,      (* chunks each peer has sent                                  *)
  fin,       (* the peer has closed its direction                          *)
  read,      (* chunks the broker of a side has read                       *)
  buf,       (* chunks in the send buffer towards each peer                *)
  got,       (* chunks each peer has received                              *)
  conn,      (* "open"; "closed" or "reset" by its broker; "aborted" by    *)
             (* the peer                                                   *)
  noRead,    (* CloseRead was called on the connection                     *)
  linger0,   (* SetLinger(0) was called on upConn                          *)
  broker,    (* where the broker that reads each side is                   *)
  main       (* "select", then the side waited for, then "returned"        *)

net  == <<sent, fin, got>>
vars == <<net, read, buf, conn, noRead, linger0, broker, main>>

Other(p) == IF p = "down" THEN "up" ELSE "down"

BrokerPhases == {"read", "write", "signal", "close", "done"}

TypeOK ==
  /\ sent \in [Sides -> Nat]
  /\ fin \in [Sides -> BOOLEAN]
  /\ read \in [Sides -> Nat]
  /\ buf \in [Sides -> 0..BufCap]
  /\ got \in [Sides -> Nat]
  /\ conn \in [Sides -> {"open", "closed", "reset", "aborted"}]
  /\ noRead \in [Sides -> BOOLEAN]
  /\ linger0 \in BOOLEAN
  /\ broker \in [Sides -> BrokerPhases]
  /\ main \in {"select", "down", "up", "returned"}

(* Everything but the connections, which handleConn has accepted and dialled. *)
Fresh ==
  /\ sent = [p \in Sides |-> 0]
  /\ fin = [p \in Sides |-> FALSE]
  /\ read = [p \in Sides |-> 0]
  /\ buf = [p \in Sides |-> 0]
  /\ got = [p \in Sides |-> 0]
  /\ noRead = [p \in Sides |-> FALSE]
  /\ linger0 = FALSE
  /\ broker = [p \in Sides |-> "read"]
  /\ main = "select"

Init == Fresh /\ conn = [p \in Sides |-> "open"]

Unread(p) == read[p] < sent[p]

(* close(srcClosed) has been executed for side p. *)
Signalled(p) == broker[p] \in {"close", "done"}

-----------------------------------------------------------------------------
(* tcpBroker(dst, src, srcClosed), named by its src                        *)

BrokerReads(p) ==
  /\ broker[p] = "read"
  /\ conn[p] = "open"
  /\ Unread(p)
  /\ read' = [read EXCEPT ![p] = @ + 1]
  /\ broker' = [broker EXCEPT ![p] = "write"]
  /\ UNCHANGED <<net, buf, conn, noRead, linger0, main>>

(* io.CopyBuffer ends: at the end of the stream, after CloseRead, or with  *)
(* an error.                                                               *)
BrokerReadEnds(p) ==
  /\ broker[p] = "read"
  /\ \/ conn[p] # "open"
     \/ ~Unread(p) /\ (fin[p] \/ noRead[p])
  /\ broker' = [broker EXCEPT ![p] = "signal"]
  /\ UNCHANGED <<net, read, buf, conn, noRead, linger0, main>>

(* Mutant: the write does not wait for room in the send buffer.            *)
BrokerWritesAnyway(p) ==
  LET q == Other(p)
  IN  /\ broker[p] = "write"
      /\ conn[q] = "open"
      /\ buf' = [buf EXCEPT ![q] = @ + 1]
      /\ broker' = [broker EXCEPT ![p] = "read"]
      /\ UNCHANGED <<net, read, conn, noRead, linger0, main>>

(* The write blocks while the send buffer is full. *)
BrokerWrites(p) ==
  LET q == Other(p)
  IN  /\ broker[p] = "write"
      /\ conn[q] = "open"
      /\ buf[q] < BufCap
      /\ buf' = [buf EXCEPT ![q] = @ + 1]
      /\ broker' = [broker EXCEPT ![p] = "read"]
      /\ UNCHANGED <<net, read, conn, noRead, linger0, main>>

(* The peer has reset the connection, or the other broker has closed it:   *)
(* "use of closed network connection".                                     *)
BrokerWriteFails(p) ==
  LET q == Other(p)
  IN  /\ broker[p] = "write"
      /\ conn[q] # "open"
      /\ broker' = [broker EXCEPT ![p] = "signal"]
      /\ UNCHANGED <<net, read, buf, conn, noRead, linger0, main>>

(* close(srcClosed) *)
BrokerSignals(p) ==
  /\ broker[p] = "signal"
  /\ broker' = [broker EXCEPT ![p] = "close"]
  /\ UNCHANGED <<net, read, buf, conn, noRead, linger0, main>>

(* Mutant: the client's connection, too, is closed with SO_LINGER 0.       *)
BrokerClosesAbruptly(p) ==
  /\ broker[p] = "close"
  /\ conn' = [conn EXCEPT ![p] = IF @ = "aborted" THEN @ ELSE "reset"]
  /\ buf' = [buf EXCEPT ![p] = 0]
  /\ broker' = [broker EXCEPT ![p] = "done"]
  /\ UNCHANGED <<net, read, noRead, linger0, main>>

(* The deferred src.Close(), without effect on a closed connection *)
BrokerCloses(p) ==
  /\ broker[p] = "close"
  /\ LET resets == Unread(p) \/ (p = "up" /\ linger0)
     IN  /\ conn' = [conn EXCEPT ![p] = CASE @ # "open" -> @
                                          [] @ = "open" /\ resets -> "reset"
                                          [] OTHER  -> "closed"]
         /\ buf' = [buf EXCEPT ![p] = IF conn[p] = "open" /\ resets THEN 0 ELSE @]
  /\ broker' = [broker EXCEPT ![p] = "done"]
  /\ UNCHANGED <<net, read, noRead, linger0, main>>

-----------------------------------------------------------------------------
(* ProxyTCP                                                                *)

(* Mutant: the other broker is not made to stop.                           *)
MainSelectsOnly(p) ==
  /\ main = "select"
  /\ Signalled(p)
  /\ main' = Other(p)
  /\ UNCHANGED <<net, read, buf, conn, noRead, linger0, broker>>

(* One channel is closed: SetLinger(0) if the client was first, CloseRead  *)
(* on the other connection (both without effect on a closed one).          *)
MainSelect(p) ==
  /\ main = "select"
  /\ Signalled(p)
  /\ linger0' = (p = "down")
  /\ noRead' = [noRead EXCEPT ![Other(p)] = TRUE]
  /\ main' = Other(p)
  /\ UNCHANGED <<net, read, buf, conn, broker>>

(* <-waitFor *)
MainReturns ==
  /\ main \in Sides
  /\ Signalled(main)
  /\ main' = "returned"
  /\ UNCHANGED <<net, read, buf, conn, noRead, linger0, broker>>

-----------------------------------------------------------------------------
(* The peers                                                               *)

PeerSends(p) ==
  /\ sent[p] < MaxChunks[p]
  /\ ~fin[p]
  /\ conn[p] = "open"
  /\ sent' = [sent EXCEPT ![p] = @ + 1]
  /\ UNCHANGED <<fin, got, read, buf, conn, noRead, linger0, broker, main>>

PeerCloses(p) ==
  /\ p \in Closers
  /\ ~fin[p]
  /\ fin' = [fin EXCEPT ![p] = TRUE]
  /\ UNCHANGED <<sent, got, read, buf, conn, noRead, linger0, broker, main>>

PeerReceives(p) ==
  /\ buf[p] > 0
  /\ buf' = [buf EXCEPT ![p] = @ - 1]
  /\ got' = [got EXCEPT ![p] = @ + 1]
  /\ UNCHANGED <<sent, fin, read, conn, noRead, linger0, broker, main>>

PeerResets(p) ==
  /\ p \in Resetters
  /\ conn[p] = "open"
  /\ conn' = [conn EXCEPT ![p] = "aborted"]
  /\ buf' = [buf EXCEPT ![p] = 0]
  /\ UNCHANGED <<net, read, noRead, linger0, broker, main>>

-----------------------------------------------------------------------------
Broker(p) ==
  \/ BrokerReads(p) \/ BrokerReadEnds(p)
  \/ BrokerWrites(p) \/ BrokerWriteFails(p)
  \/ BrokerSignals(p) \/ BrokerCloses(p)

Main == (\E p \in Sides : MainSelect(p)) \/ MainReturns

Next ==
  \/ \E p \in Sides : \/ Broker(p)
                      \/ PeerSends(p) \/ PeerCloses(p) \/ PeerReceives(p) \/ PeerResets(p)
  \/ Main

(* The goroutines are scheduled.  A peer owes nothing.                     *)
Fairness ==
  /\ \A p \in Sides : WF_vars(Broker(p))
  /\ WF_vars(Main)

Spec == Init /\ [][Next]_vars /\ Fairness

-----------------------------------------------------------------------------
(* Properties *)

(* The comment in ProxyTCP: "ensure all copies terminate correctly".  Once *)
(* one broker has ended, the other one ends as well, even if it waits for  *)
(* a peer that neither sends nor receives, and no connection stays open.   *)
AllCopiesTerminate ==
  (\E p \in Sides : Signalled(p))
    ~> (main = "returned" /\ \A p \in Sides : conn[p] # "open")

(* The session is over, and the destination has ended it: the client has   *)
(* not closed its direction, and nobody has aborted a connection.          *)
EndedByDestination ==
  /\ \A p \in Sides : broker[p] = "done" /\ conn[p] # "aborted"
  /\ ~fin["down"]

(* If the destination closes, all it had sent reaches the client, although *)
(* the client's connection is shut down meanwhile, unless the client goes  *)
(* on sending what nobody reads.                                           *)
ResponseDelivered ==
  (EndedByDestination /\ buf["down"] = 0 /\ ~Unread("down")) => got["down"] = sent["up"]

=============================================================================
