----------------------------- MODULE ServerConn -----------------------------
(***************************************************************************)
(* A connection from its request to its end: the client's side of the      *)
(* handshake (handleTCPConn and handleUDPConn up to the ack, and           *)
(* handleSOCKS5Conn before them), handleConn of the server                 *)
(* (cmd/server/main.go), and then ProxyTCP, whose sockets this module      *)
(* shares: conn["down"] is handleConn's connection c, conn["up"] the       *)
(* upstreamConn it dials.                                                  *)
(***************************************************************************)
EXTENDS ProxyTCP, Socks5

CONSTANTS
  Requests,  (* SOCKS5 inputs, each with the destination it asks for       *)
  Targets,   (* destinations of forwarded ports                            *)
  Protocols  (* protocols of a header; there may be unknown ones           *)

ASSUME RequestsAssumption ==
  /\ \A q \in Requests : q.dst \in AddrPorts /\ Asks(q.input, q.dst)
  /\ Targets \subseteq AddrPorts
  /\ Protocols \subseteq Octets

VARIABLES
  client,    (* where the client's handler is                              *)
  want,      (* what the application or the port's target asked for        *)
  wire,      (* what the client has written and the server has not read    *)
  handler,   (* where handleConn is                                        *)
  hdr,       (* the header it has read                                     *)
  failure,   (* the error of its Dial, or NoError                          *)
  ack,       (* the ack in transit, or 0; then what the client has read    *)
  proxying   (* ProxyTCP has been called                                   *)

clientVars  == <<client, want, ack>>
handlerVars == <<handler, hdr, failure, proxying>>
tcpVars     == vars
connVars    == <<clientVars, wire, handlerVars, tcpVars>>

NoHeader == [protocol |-> ProtocolTCP, dst |-> NoAddr]
NoError  == [dns |-> "none", timeout |-> FALSE]

(* A net.DNSError in the chain of Dial's error, and net.OpError.Timeout(), *)
(* which is that of the DNSError if there is one.                          *)
DialErrors ==
  {e \in [dns : {"none", "notFound", "timeout", "other"}, timeout : BOOLEAN] :
     e.dns # "none" => (e.timeout <=> e.dns = "timeout")}

ConnTypeOK ==
  /\ TypeOK
  /\ client \in {"front", "ack", "copy", "refused", "failed", "beat"}
  /\ handler \in {"header", "dial", "ack", "proxy", "returned"}
  /\ failure \in DialErrors
  /\ ack \in 0..AckCodeUnknownProtocol
  /\ proxying \in BOOLEAN

ConnInit ==
  /\ Fresh
  /\ conn = [down |-> "open", up |-> "closed"]
  /\ client = "front"
  /\ want = NoAddr
  /\ wire = <<>>
  /\ handler = "header"
  /\ hdr = NoHeader
  /\ failure = NoError
  /\ ack = 0
  /\ proxying = FALSE

Down(state) == [conn EXCEPT !["down"] = state]

(* What of ProxyTCP only its own steps change. *)
copyVars == <<net, read, noRead, linger0, broker, main>>

-----------------------------------------------------------------------------
(* The client                                                              *)

(* handleSOCKS5Conn: unless the reply is 0 the connection is closed.       *)
ClientSocks(q) ==
  /\ client = "front"
  /\ LET h == Handshake(q.input)
     IN  IF h.reply = 0
         THEN /\ client' = "ack"
              /\ want' = q.dst
              /\ wire' = Marshal(ProtocolTCP, h.dst)
         ELSE /\ client' = "failed"
              /\ UNCHANGED <<want, wire>>
  /\ UNCHANGED <<ack, handlerVars, tcpVars>>

(* The application does not take one of the answers of socks5Handshake:    *)
(* the method, or the reply to CONNECT.  The write of the reply to another *)
(* command is not checked, but handleSOCKS5Conn closes the connection then *)
(* in any case.                                                            *)
ClientSocksFails ==
  /\ client = "front"
  /\ client' = "failed"
  /\ UNCHANGED <<want, ack, wire, handlerVars, tcpVars>>

(* A forwarded port, or a client of another version, if proto is unknown.  *)
ClientTarget(proto, dst) ==
  /\ client = "front"
  /\ client' = "ack"
  /\ want' = dst
  /\ wire' = Marshal(proto, dst)
  /\ UNCHANGED <<ack, handlerVars, tcpVars>>

(* A heartbeat: the header, then stream.Close(). *)
ClientBeats ==
  /\ client = "front"
  /\ client' = "beat"
  /\ wire' = Marshal(ProtocolKeepalive, NoAddr)
  /\ fin' = [fin EXCEPT !["down"] = TRUE]
  /\ UNCHANGED <<want, ack, handlerVars, sent, got, read, buf, conn, noRead, linger0, broker, main>>

(* Acknowledgement.FromReader *)
ClientReadsAck ==
  /\ client = "ack"
  /\ ack # 0
  /\ conn["down"] # "aborted"
  /\ client' = IF ack = AckCodeOK THEN "copy" ELSE "refused"
  /\ UNCHANGED <<want, ack, wire, handlerVars, tcpVars>>

(* The stream has ended, or was reset, before the ack arrived.             *)
ClientAckFails ==
  /\ client = "ack"
  /\ conn["down"] \in {"reset", "aborted"} \/ (conn["down"] = "closed" /\ ack = 0)
  /\ client' = "failed"
  /\ UNCHANGED <<want, ack, wire, handlerVars, tcpVars>>

(* The client or its connection is lost in the middle of the handshake,    *)
(* even of the header: any part of what was not read yet may be lost.      *)
ClientLost ==
  /\ client \in {"ack", "beat"}
  /\ conn["down"] = "open"
  /\ ~proxying
  /\ \E k \in 0..Len(wire) : wire' = SubSeq(wire, 1, k)
  /\ conn' = Down("aborted")
  /\ UNCHANGED <<clientVars, handlerVars, copyVars, buf>>

-----------------------------------------------------------------------------
(* handleConn                                                              *)

(* Mutant: c is not closed on return.                                      *)
ReturnWithoutClose(unread) ==
  /\ handler' = "returned"
  /\ UNCHANGED <<conn, buf>>

(* A return, and the deferred c.Close(): a connection with data that was   *)
(* not read is reset, and what was written to it is lost.                  *)
Return(unread) ==
  LET resets == unread # <<>> \/ Unread("down")
  IN  /\ handler' = "returned"
      /\ conn' = IF conn["down"] # "open" THEN conn
                 ELSE Down(IF resets THEN "reset" ELSE "closed")
      /\ buf' = IF conn["down"] = "open" /\ resets THEN [buf EXCEPT !["down"] = 0] ELSE buf

(* hdr.FromReader(c) returns; a keepalive needs no answer.                 *)
ReadHeader ==
  /\ handler = "header"
  /\ client # "front"
  /\ Len(wire) >= ToRead(wire)
  /\ ~TooShort(wire)
  /\ hdr' = FromReader(wire)
  /\ wire' = SubSeq(wire, ToRead(wire) + 1, Len(wire))
  /\ CASE hdr'.protocol = ProtocolKeepalive -> Return(wire')
       [] hdr'.protocol \in {ProtocolTCP, ProtocolUDP} ->
            handler' = "dial" /\ UNCHANGED <<conn, buf>>
       [] OTHER -> handler' = "ack" /\ UNCHANGED <<conn, buf>>
  /\ UNCHANGED <<clientVars, failure, proxying, copyVars>>

(* "body too short", or the connection ends before the header is complete. *)
ReadHeaderFails ==
  /\ handler = "header"
  /\ client # "front"
  /\ \/ TooShort(wire)
     \/ Len(wire) < ToRead(wire) /\ (conn["down"] # "open" \/ fin["down"])
  /\ Return(wire)
  /\ UNCHANGED <<clientVars, wire, hdr, failure, proxying, copyVars>>

Dial ==
  /\ handler = "dial"
  /\ handler' = "ack"
  /\ conn' = [conn EXCEPT !["up"] = "open"]
  /\ UNCHANGED <<clientVars, wire, hdr, failure, proxying, buf, copyVars>>

DialFails(e) ==
  /\ handler = "dial"
  /\ failure' = e
  /\ handler' = "ack"
  /\ UNCHANGED <<clientVars, wire, hdr, proxying, tcpVars>>

ackCodeFromErr(e) ==
  IF e.dns = "notFound" THEN AckCodeNoSuchHost ELSE
  IF e.dns = "timeout"  THEN AckCodeResolveTimeout ELSE
  IF e.timeout          THEN AckCodeConnectTimeout ELSE AckCodeUnknownError

(* Mutant: the error of Dial is not looked at.                             *)
AckCodeUnchecked ==
  IF hdr.protocol \in {ProtocolTCP, ProtocolUDP} THEN AckCodeOK ELSE AckCodeUnknownProtocol

(* The code handleConn answers with. *)
AckCode ==
  CASE hdr.protocol \notin {ProtocolTCP, ProtocolUDP} -> AckCodeUnknownProtocol
    [] hdr.protocol \in {ProtocolTCP, ProtocolUDP} ->
         IF conn["up"] = "open" THEN AckCodeOK ELSE ackCodeFromErr(failure)

(* writeACK, then ProxyTCP or ProxyUDP.  What the client has written and   *)
(* FromReader has left is data for ProxyTCP.                               *)
WriteOK ==
  /\ handler = "ack"
  /\ conn["down"] # "aborted"
  /\ AckCode = AckCodeOK
  /\ ack' = AckCodeOK
  /\ handler' = "proxy"
  /\ proxying' = (hdr.protocol = ProtocolTCP)
  /\ sent' = [sent EXCEPT !["down"] = IF wire = <<>> THEN 0 ELSE 1]
  /\ hdr' = [hdr EXCEPT !.dst = NoAddr]
  /\ want' = NoAddr
  /\ wire' = <<>>
  /\ UNCHANGED <<client, failure, fin, got, read, buf, conn, noRead, linger0, broker, main>>

(* writeACK of an error, and the return. *)
WriteError ==
  /\ handler = "ack"
  /\ conn["down"] # "aborted"
  /\ AckCode # AckCodeOK
  /\ ack' = AckCode
  /\ Return(wire)
  /\ UNCHANGED <<client, want, wire, hdr, failure, proxying, copyVars>>

(* writeACK fails: handleConn returns, with upstreamConn open if it was    *)
(* dialled.                                                                *)
WriteFails ==
  /\ handler = "ack"
  /\ conn["down"] = "aborted"
  /\ Return(wire)
  /\ UNCHANGED <<clientVars, wire, hdr, failure, proxying, copyVars>>

ProxyTCPReturns ==
  /\ handler = "proxy"
  /\ proxying
  /\ main = "returned"
  /\ Return(wire)
  /\ UNCHANGED <<clientVars, wire, hdr, failure, proxying, copyVars>>

(* ProxyUDP has closed both connections, except upConn if it was upConn    *)
(* that ended first (see module ProxyUDP).                                 *)
ProxyUDPReturns ==
  /\ handler = "proxy"
  /\ ~proxying
  /\ handler' = "returned"
  /\ \E state \in {"open", "closed"} :
       conn' = [conn EXCEPT !["up"] = state, !["down"] = "closed"]
  /\ UNCHANGED <<clientVars, wire, hdr, failure, proxying, buf, copyVars>>

(* An upstreamConn that nobody refers to any more: the runtime closes it   *)
(* when it is collected, at the latest in the cycle it forces every two    *)
(* minutes.                                                                *)
Finalize ==
  /\ handler = "returned"
  /\ ~proxying
  /\ conn["up"] = "open"
  /\ conn' = [conn EXCEPT !["up"] = "closed"]
  /\ UNCHANGED <<clientVars, wire, handlerVars, buf, copyVars>>

(* A step of ProxyTCP or of its peers.  The client neither sends nor       *)
(* receives data before it has read the ack.                               *)
Proxy(action) ==
  /\ proxying
  /\ action
  /\ client = "copy" \/ (sent'["down"] = sent["down"] /\ got'["down"] = got["down"])
  /\ UNCHANGED <<clientVars, wire, handlerVars>>

-----------------------------------------------------------------------------
ClientStep ==
  \/ (\E q \in Requests : ClientSocks(q)) \/ ClientSocksFails
  \/ \E proto \in Protocols, dst \in Targets : ClientTarget(proto, dst)
  \/ ClientBeats
  \/ ClientReadsAck \/ ClientAckFails

HandleConn ==
  \/ ReadHeader \/ ReadHeaderFails
  \/ Dial \/ \E e \in DialErrors : DialFails(e)
  \/ WriteOK \/ WriteError \/ WriteFails
  \/ ProxyTCPReturns

ConnNext ==
  \/ ClientStep \/ ClientLost
  \/ HandleConn \/ ProxyUDPReturns \/ Finalize
  \/ Proxy(Next)

(* The goroutines on both sides are scheduled, a Dial ends with its        *)
(* timeout, and unreferenced connections are collected.  The client and    *)
(* the destination owe nothing.                                            *)
ConnFairness ==
  /\ WF_connVars(ClientReadsAck \/ ClientAckFails)
  /\ WF_connVars(HandleConn)
  /\ WF_connVars(Finalize)
  /\ \A p \in Sides : WF_connVars(Proxy(Broker(p)))
  /\ WF_connVars(Proxy(Main))

ConnSpec == ConnInit /\ [][ConnNext]_connVars /\ ConnFairness

-----------------------------------------------------------------------------
(* Properties *)

(* What the server dials is what the application asked for, through the    *)
(* SOCKS5 handshake with its one buffer and the header's fields, up to the *)
(* longest address whose header a uint16 length describes.                 *)
DialsRequested ==
  (handler \in {"dial", "ack"} /\ client # "beat" /\ Fits(want)) => hdr.dst = want

(* The two sides agree on the outcome: a client that starts to copy has a  *)
(* server that has dialled and proxies (or has finished), a client that is *)
(* refused has one that has dialled nothing and has returned.              *)
SidesAgree ==
  /\ client = "copy" => handler \in {"proxy", "returned"} /\ failure = NoError
  /\ client = "refused" => handler = "returned" /\ ~proxying /\ conn["up"] = "closed"

(* Once handleConn has returned, by whichever of its early returns or from *)
(* the copying, none of its connections stays open.                        *)
ConnsClosed ==
  (handler = "returned") ~> (\A p \in Sides : conn[p] # "open")

(* A client that waits for an ack gets one, or the end of its stream: it   *)
(* never waits for a server that waits for it.                             *)
ClientAnswered == (client = "ack") ~> (client # "ack")

=============================================================================
