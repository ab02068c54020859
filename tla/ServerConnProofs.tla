-------------------------- MODULE ServerConnProofs --------------------------
(***************************************************************************)
(* Proofs about ServerConn, for any requests, any faults of the network    *)
(* and any bounds: the client and the server agree on the outcome of the   *)
(* handshake.                                                              *)
(***************************************************************************)
EXTENDS ServerConn, WireProofs

(* Until ProxyTCP runs, handleConn alone decides about the connections.    *)
Dialling ==
  /\ ~proxying => conn \in [Sides -> {"open", "closed", "reset", "aborted"}]
  /\ handler \in {"header", "dial"} => conn["up"] = "closed" /\ failure = NoError
  /\ handler = "dial" => hdr.protocol \in {ProtocolTCP, ProtocolUDP}
  /\ handler = "ack" =>
       \/ conn["up"] = "closed"
       \/ /\ conn["up"] = "open"
          /\ failure = NoError
          /\ hdr.protocol \in {ProtocolTCP, ProtocolUDP}

(* The ack is written once, and says what handleConn has done.             *)
Acking ==
  /\ handler \in {"header", "dial", "ack"} => ack = 0 /\ ~proxying
  /\ handler = "proxy" => ack = AckCodeOK
  /\ proxying => ack = AckCodeOK
  /\ ack = AckCodeOK => handler \in {"proxy", "returned"} /\ failure = NoError
  /\ ack \notin {0, AckCodeOK} => handler = "returned" /\ ~proxying /\ conn["up"] = "closed"

(* The client goes by the ack. *)
Following ==
  /\ client = "copy" => ack = AckCodeOK
  /\ client = "refused" => ack \notin {0, AckCodeOK}

AgreeInv == Dialling /\ Acking /\ Following

LEMMA InitAgree == ConnInit => AgreeInv
  BY DEF ConnInit, AgreeInv, Dialling, Acking, Following, Sides, AckCodeOK

LEMMA ErrorIsNotOK == \A e : ackCodeFromErr(e) \notin {0, AckCodeOK}
  BY DEF ackCodeFromErr, AckCodeOK, AckCodeNoSuchHost, AckCodeResolveTimeout,
         AckCodeConnectTimeout, AckCodeUnknownError

(* An error code goes with no connection to the destination. *)
LEMMA CodeFitsConn ==
  ASSUME AgreeInv, handler = "ack"
  PROVE  /\ AckCode # 0
         /\ AckCode = AckCodeOK => failure = NoError
         /\ AckCode # AckCodeOK => conn["up"] = "closed"
<1>1. CASE hdr.protocol \notin {ProtocolTCP, ProtocolUDP}
  <2>1. AckCode = AckCodeUnknownProtocol /\ conn["up"] = "closed"
    BY <1>1 DEF AckCode, AgreeInv, Dialling
  <2> QED BY <2>1 DEF AckCodeOK, AckCodeUnknownProtocol
<1>2. CASE hdr.protocol \in {ProtocolTCP, ProtocolUDP} /\ conn["up"] = "open"
  <2>1. AckCode = AckCodeOK /\ failure = NoError
    BY <1>2 DEF AckCode, AgreeInv, Dialling
  <2> QED BY <2>1 DEF AckCodeOK
<1>3. CASE hdr.protocol \in {ProtocolTCP, ProtocolUDP} /\ conn["up"] # "open"
  <2>1. AckCode = ackCodeFromErr(failure) /\ conn["up"] = "closed"
    BY <1>3 DEF AckCode, AgreeInv, Dialling
  <2> QED BY <2>1, ErrorIsNotOK
<1> QED BY <1>1, <1>2, <1>3

(* A return of handleConn leaves upstreamConn as it is. *)
LEMMA ReturnKeepsUp ==
  ASSUME NEW unread, Return(unread),
         conn \in [Sides -> {"open", "closed", "reset", "aborted"}]
  PROVE  /\ handler' = "returned"
         /\ conn' \in [Sides -> {"open", "closed", "reset", "aborted"}]
         /\ conn'["up"] = conn["up"]
<1>1. \/ conn' = conn
      \/ \E state \in {"reset", "closed"} : conn' = [conn EXCEPT !["down"] = state]
  BY DEF Return, Down
<1> QED BY <1>1 DEF Return, Sides

LEMMA ClientStepAgrees == AgreeInv /\ (ClientStep \/ ClientLost) => AgreeInv'
<1> SUFFICES ASSUME AgreeInv, ClientStep \/ ClientLost PROVE AgreeInv'
  OBVIOUS
<1> USE DEF AgreeInv, Dialling, Acking, Following
<1>1. CASE UNCHANGED <<ack, handlerVars, conn>> /\ client' \notin {"copy", "refused"}
  BY <1>1 DEF handlerVars
<1>2. ASSUME NEW q \in Requests, ClientSocks(q) PROVE AgreeInv'
  BY <1>1, <1>2 DEF ClientSocks, tcpVars, vars
<1>3. ASSUME NEW proto \in Protocols, NEW dst \in Targets, ClientTarget(proto, dst) PROVE AgreeInv'
  BY <1>1, <1>3 DEF ClientTarget, tcpVars, vars
<1>4. CASE ClientBeats \/ ClientSocksFails \/ ClientAckFails
  BY <1>1, <1>4 DEF ClientBeats, ClientSocksFails, ClientAckFails, tcpVars, vars
<1>5. CASE ClientReadsAck
  BY <1>5 DEF ClientReadsAck, tcpVars, vars, handlerVars, AckCodeOK
<1>6. CASE ClientLost
  <2>1. UNCHANGED <<client, ack, handler, hdr, failure, proxying>> /\ ~proxying
    BY <1>6 DEF ClientLost, clientVars, handlerVars
  <2>2. conn' = [conn EXCEPT !["down"] = "aborted"]
    BY <1>6 DEF ClientLost, Down
  <2> QED BY <2>1, <2>2 DEF Sides
<1> QED
  BY <1>2, <1>3, <1>4, <1>5, <1>6 DEF ClientStep

LEMMA HandleConnAgrees == AgreeInv /\ HandleConn => AgreeInv'
<1> SUFFICES ASSUME AgreeInv, HandleConn PROVE AgreeInv'
  OBVIOUS
<1>1. CASE ReadHeader
  <2>1. handler = "header" /\ UNCHANGED <<client, ack, failure, proxying>>
    BY <1>1 DEF ReadHeader, clientVars
  <2>2. \/ Return(wire')
        \/ /\ handler' = "dial" /\ UNCHANGED conn
           /\ hdr'.protocol \in {ProtocolTCP, ProtocolUDP}
        \/ handler' = "ack" /\ UNCHANGED conn
    BY <1>1 DEF ReadHeader
  <2>3. /\ conn["up"] = "closed" /\ ack = 0 /\ ~proxying /\ failure = NoError
        /\ conn \in [Sides -> {"open", "closed", "reset", "aborted"}]
    BY <2>1 DEF AgreeInv, Dialling, Acking
  <2>4. /\ handler' \in {"dial", "ack", "returned"}
        /\ handler' = "dial" => hdr'.protocol \in {ProtocolTCP, ProtocolUDP}
        /\ conn'["up"] = "closed"
        /\ conn' \in [Sides -> {"open", "closed", "reset", "aborted"}]
    BY <2>2, <2>3, ReturnKeepsUp
  <2> QED BY <2>1, <2>3, <2>4 DEF AgreeInv, Dialling, Acking, Following, AckCodeOK
<1>2. CASE ReadHeaderFails \/ WriteFails
  <2>1. /\ handler \in {"header", "ack"} /\ Return(wire)
        /\ UNCHANGED <<client, ack, failure, proxying>>
    BY <1>2 DEF ReadHeaderFails, WriteFails, clientVars
  <2>2. ack = 0 /\ ~proxying /\ conn \in [Sides -> {"open", "closed", "reset", "aborted"}]
    BY <2>1 DEF AgreeInv, Dialling, Acking
  <2>3. handler' = "returned" /\ conn' \in [Sides -> {"open", "closed", "reset", "aborted"}]
    BY <2>1, <2>2, ReturnKeepsUp
  <2> QED BY <2>1, <2>2, <2>3 DEF AgreeInv, Dialling, Acking, Following, AckCodeOK
<1>3. CASE Dial
  <2>1. /\ handler = "dial" /\ handler' = "ack"
        /\ conn' = [conn EXCEPT !["up"] = "open"]
        /\ UNCHANGED <<client, ack, hdr, failure, proxying>>
    BY <1>3 DEF Dial, clientVars
  <2> QED
    BY <2>1 DEF AgreeInv, Dialling, Acking, Following, AckCodeOK, Sides
<1>4. ASSUME NEW e \in DialErrors, DialFails(e) PROVE AgreeInv'
  <2>1. /\ handler = "dial" /\ handler' = "ack"
        /\ UNCHANGED <<client, ack, conn, proxying>>
    BY <1>4 DEF DialFails, clientVars, tcpVars, vars
  <2> QED BY <2>1 DEF AgreeInv, Dialling, Acking, Following, AckCodeOK
<1>5. CASE WriteOK
  <2>1. /\ handler = "ack" /\ handler' = "proxy" /\ ack' = AckCodeOK /\ AckCode = AckCodeOK
        /\ UNCHANGED <<client, conn, failure>>
    BY <1>5 DEF WriteOK
  <2>2. failure = NoError /\ ack = 0 /\ ~proxying
    BY <2>1, CodeFitsConn DEF AgreeInv, Acking
  <2> QED BY <2>1, <2>2 DEF AgreeInv, Dialling, Acking, Following, AckCodeOK
<1>6. CASE WriteError
  <2>1. /\ handler = "ack" /\ Return(wire) /\ ack' = AckCode /\ AckCode # AckCodeOK
        /\ UNCHANGED <<client, failure, proxying>>
    BY <1>6 DEF WriteError
  <2>2. /\ AckCode # 0 /\ conn["up"] = "closed" /\ ack = 0 /\ ~proxying
        /\ conn \in [Sides -> {"open", "closed", "reset", "aborted"}]
    BY <2>1, CodeFitsConn DEF AgreeInv, Dialling, Acking
  <2>3. /\ handler' = "returned" /\ conn'["up"] = "closed"
        /\ conn' \in [Sides -> {"open", "closed", "reset", "aborted"}]
    BY <2>1, <2>2, ReturnKeepsUp
  <2> QED BY <2>1, <2>2, <2>3 DEF AgreeInv, Dialling, Acking, Following, AckCodeOK
<1>7. CASE ProxyTCPReturns
  <2>1. /\ proxying /\ handler = "proxy" /\ handler' = "returned"
        /\ UNCHANGED <<client, ack, failure, proxying>>
    BY <1>7 DEF ProxyTCPReturns, Return, clientVars
  <2> QED BY <2>1 DEF AgreeInv, Dialling, Acking, Following, AckCodeOK
<1> QED
  BY <1>1, <1>2, <1>3, <1>4, <1>5, <1>6, <1>7 DEF HandleConn

LEMMA RestAgrees ==
  AgreeInv /\ (ProxyUDPReturns \/ Finalize \/ Proxy(Next) \/ UNCHANGED connVars) => AgreeInv'
<1> SUFFICES ASSUME AgreeInv, ProxyUDPReturns \/ Finalize \/ Proxy(Next) \/ UNCHANGED connVars
             PROVE  AgreeInv'
  OBVIOUS
<1> USE DEF AgreeInv, Dialling, Acking, Following
<1>1. CASE ProxyUDPReturns
  <2>1. /\ handler = "proxy" /\ ~proxying /\ handler' = "returned"
        /\ \E state \in {"open", "closed"} :
             conn' = [conn EXCEPT !["up"] = state, !["down"] = "closed"]
        /\ UNCHANGED <<client, ack, failure, proxying>>
    BY <1>1 DEF ProxyUDPReturns, clientVars
  <2> QED BY <2>1 DEF Sides, AckCodeOK
<1>2. CASE Finalize
  <2>1. /\ handler = "returned" /\ conn["up"] = "open"
        /\ conn' = [conn EXCEPT !["up"] = "closed"]
        /\ UNCHANGED <<client, ack, handler, failure, proxying>>
    BY <1>2 DEF Finalize, clientVars, handlerVars
  <2> QED BY <2>1 DEF Sides
<1>3. CASE Proxy(Next)
  <2>1. proxying /\ UNCHANGED <<client, ack, handler, failure, proxying>>
    BY <1>3 DEF Proxy, clientVars, handlerVars
  <2> QED BY <2>1 DEF AckCodeOK
<1>4. CASE UNCHANGED connVars
  BY <1>4 DEF connVars, clientVars, handlerVars, tcpVars, vars
<1> QED BY <1>1, <1>2, <1>3, <1>4

(* A client that starts to copy has a server that has dialled, and one     *)
(* that is refused a server that has dialled nothing and has returned,     *)
(* whatever is lost or reset in between.                                   *)
THEOREM OutcomeAgreed == ConnSpec => []SidesAgree
<1>1. AgreeInv /\ [ConnNext]_connVars => AgreeInv'
  BY ClientStepAgrees, HandleConnAgrees, RestAgrees DEF ConnNext
<1>2. AgreeInv => SidesAgree
  BY DEF AgreeInv, Acking, Following, SidesAgree
<1> QED
  BY <1>1, <1>2, InitAgree, PTL DEF ConnSpec

-----------------------------------------------------------------------------
(* Copying *)

(* Until ProxyTCP is called, its goroutines and its peers have done        *)
(* nothing, and handleConn, which has not returned, has not closed c.      *)
NotCopying ==
  /\ handler # "header" => client # "front"
  /\ handler \in {"header", "dial", "ack"} => ~proxying /\ conn["down"] \in {"open", "aborted"}
  /\ proxying => wire = <<>>
  /\ ~proxying =>
       /\ broker = [p \in Sides |-> "read"]
       /\ noRead = [p \in Sides |-> FALSE]
       /\ main = "select"
       /\ read = [p \in Sides |-> 0]
       /\ buf = [p \in Sides |-> 0]
       /\ got = [p \in Sides |-> 0]
       /\ sent["up"] = 0

Undisturbed == proxying /\ ~fin["down"] /\ \A p \in Sides : conn[p] # "aborted"

(* The destination's broker is at work: so is the client's, neither        *)
(* connection has been shut, and what was read is with the client, in its  *)
(* send buffer or in the broker's hands.                                   *)
Relaying ==
  /\ broker["down"] \in {"read", "write"}
  /\ main = "select"
  /\ \A p \in Sides : conn[p] = "open" /\ ~noRead[p]
  /\ read["up"] <= sent["up"]
  /\ got["down"] + buf["down"] + (IF broker["up"] = "write" THEN 1 ELSE 0) = read["up"]

(* It has ended, and so has the destination: all of it was read, and       *)
(* either it is still on its way or the client's connection was reset      *)
(* because of what nobody had read.                                        *)
Relayed ==
  /\ fin["up"]
  /\ read["up"] = sent["up"]
  /\ \/ got["down"] + buf["down"] = read["up"]
     \/ conn["down"] # "open" /\ Unread("down")

Copying ==
  Undisturbed => IF broker["up"] \in {"read", "write"} THEN Relaying ELSE Relayed

CopyInv == ConnTypeOK /\ AgreeInv /\ NotCopying /\ Copying

LEMMA InitCopies == ConnInit => CopyInv
<1> SUFFICES ASSUME ConnInit PROVE CopyInv
  OBVIOUS
<1>1. TypeOK
  <2>1. conn \in [Sides -> {"open", "closed", "reset", "aborted"}]
    BY DEF ConnInit, Sides
  <2>2. /\ fin \in [Sides -> BOOLEAN] /\ noRead \in [Sides -> BOOLEAN] /\ linger0 \in BOOLEAN
        /\ broker \in [Sides -> BrokerPhases]
    BY DEF ConnInit, Fresh, BrokerPhases
  <2>3. /\ sent \in [Sides -> Nat] /\ read \in [Sides -> Nat] /\ got \in [Sides -> Nat]
        /\ buf \in [Sides -> 0..BufCap] /\ main = "select"
    BY ConstantsAssumption DEF ConnInit, Fresh
  <2> QED BY <2>1, <2>2, <2>3 DEF TypeOK
<1>2. NoError \in DialErrors
  BY DEF NoError, DialErrors
<1>3. ConnTypeOK
  <2>1. proxying \in BOOLEAN
    BY DEF ConnInit
  <2> QED BY <1>1, <1>2, <2>1 DEF ConnInit, ConnTypeOK, AckCodeUnknownProtocol
<1>4. NotCopying /\ Copying
  BY DEF ConnInit, Fresh, NotCopying, Copying, Undisturbed, Sides
<1> QED BY <1>3, <1>4, InitAgree DEF CopyInv

(* ProxyTCP by itself *)
LEMMA CopyTypes == TypeOK /\ Next => TypeOK'
<1> SUFFICES ASSUME TypeOK, Next PROVE TypeOK'
  OBVIOUS
<1> USE ConstantsAssumption DEF TypeOK, net
<1>0. \A p \in Sides : Other(p) \in Sides
  BY DEF Other, Sides
<1>1. ASSUME NEW p \in Sides, BrokerReads(p) PROVE TypeOK'
  BY <1>1 DEF BrokerReads, BrokerPhases
<1>2. ASSUME NEW p \in Sides, BrokerReadEnds(p) PROVE TypeOK'
  BY <1>2 DEF BrokerReadEnds, BrokerPhases
<1>3. ASSUME NEW p \in Sides, BrokerWrites(p) PROVE TypeOK'
  BY <1>0, <1>3 DEF BrokerWrites, BrokerPhases
<1>4. ASSUME NEW p \in Sides, BrokerWriteFails(p) PROVE TypeOK'
  BY <1>4 DEF BrokerWriteFails, BrokerPhases
<1>5. ASSUME NEW p \in Sides, BrokerSignals(p) PROVE TypeOK'
  BY <1>5 DEF BrokerSignals, BrokerPhases
<1>6. ASSUME NEW p \in Sides, BrokerCloses(p) PROVE TypeOK'
  BY <1>6 DEF BrokerCloses, BrokerPhases
<1>7. ASSUME NEW p \in Sides, MainSelect(p) PROVE TypeOK'
  <2>1. linger0' \in BOOLEAN
    BY <1>7 DEF MainSelect
  <2>2. noRead' \in [Sides -> BOOLEAN] /\ main' \in Sides
    BY <1>0, <1>7 DEF MainSelect
  <2> QED BY <1>7, <2>1, <2>2 DEF MainSelect, Sides
<1>8. CASE MainReturns
  BY <1>8 DEF MainReturns
<1>9. ASSUME NEW p \in Sides, PeerSends(p) PROVE TypeOK'
  BY <1>9 DEF PeerSends
<1>10. ASSUME NEW p \in Sides, PeerCloses(p) PROVE TypeOK'
  BY <1>10 DEF PeerCloses
<1>11. ASSUME NEW p \in Sides, PeerReceives(p) PROVE TypeOK'
  BY <1>11 DEF PeerReceives
<1>12. ASSUME NEW p \in Sides, PeerResets(p) PROVE TypeOK'
  BY <1>12 DEF PeerResets
<1> QED
  BY <1>1, <1>2, <1>3, <1>4, <1>5, <1>6, <1>7, <1>8, <1>9, <1>10, <1>11, <1>12
  DEF Next, Broker, Main

(* What a return does to c, and to what is in its send buffer. *)
LEMMA ReturnCloses ==
  ASSUME TypeOK, NEW unread, Return(unread), UNCHANGED copyVars
  PROVE  /\ TypeOK' /\ handler' = "returned"
         /\ buf["down"] = 0 => buf' = buf
         /\ conn'["up"] = conn["up"] /\ buf'["up"] = buf["up"]
         /\ conn'["down"] # "open"
         /\ conn["down"] = "aborted" <=> conn'["down"] = "aborted"
         /\ \/ buf'["down"] = buf["down"]
            \/ unread # <<>> \/ Unread("down")
<1>1. CASE conn' = conn /\ buf' = buf /\ conn["down"] # "open"
  BY <1>1 DEF TypeOK, Return, copyVars, net
<1>2. ASSUME conn["down"] = "open", NEW state \in {"reset", "closed"},
             conn' = [conn EXCEPT !["down"] = state],
             \/ buf' = buf
             \/ buf' = [buf EXCEPT !["down"] = 0] /\ (unread # <<>> \/ Unread("down"))
      PROVE  /\ TypeOK' /\ handler' = "returned"
             /\ buf["down"] = 0 => buf' = buf
             /\ conn'["up"] = conn["up"] /\ buf'["up"] = buf["up"]
             /\ conn'["down"] # "open"
             /\ conn["down"] = "aborted" <=> conn'["down"] = "aborted"
             /\ \/ buf'["down"] = buf["down"]
                \/ unread # <<>> \/ Unread("down")
  BY <1>2, ConstantsAssumption DEF TypeOK, Return, copyVars, net, Sides
<1> QED BY <1>1, <1>2 DEF Return, Down

LEMMA ClientCopies == CopyInv /\ (ClientStep \/ ClientLost) => CopyInv'
<1> SUFFICES ASSUME CopyInv, ClientStep \/ ClientLost PROVE ConnTypeOK' /\ NotCopying' /\ Copying'
  BY ClientStepAgrees DEF CopyInv
<1> USE DEF CopyInv
<1>1. ASSUME UNCHANGED <<ack, handler, failure, proxying, tcpVars>>,
             client' \in {"ack", "copy", "refused", "failed"},
             wire' = wire \/ client = "front"
      PROVE  ConnTypeOK' /\ NotCopying' /\ Copying'
  <2>1. ConnTypeOK'
    BY <1>1 DEF ConnTypeOK, TypeOK, tcpVars, vars, net
  <2>2. NotCopying'
    BY <1>1 DEF NotCopying, ConnTypeOK, tcpVars, vars, net
  <2>3. Copying'
    BY <1>1 DEF Copying, Undisturbed, Relaying, Relayed, Unread, tcpVars, vars, net
  <2> QED BY <2>1, <2>2, <2>3
<1>2. ASSUME NEW q \in Requests, ClientSocks(q) PROVE ConnTypeOK' /\ NotCopying' /\ Copying'
  BY <1>1, <1>2 DEF ClientSocks, handlerVars
<1>3. ASSUME NEW proto \in Protocols, NEW dst \in Targets, ClientTarget(proto, dst)
      PROVE  ConnTypeOK' /\ NotCopying' /\ Copying'
  BY <1>1, <1>3 DEF ClientTarget, handlerVars
<1>4. CASE ClientSocksFails \/ ClientReadsAck \/ ClientAckFails
  BY <1>1, <1>4 DEF ClientSocksFails, ClientReadsAck, ClientAckFails, handlerVars
<1>5. CASE ClientBeats
  <2>1. /\ UNCHANGED <<ack, handler, failure, proxying, sent, got, read, buf, conn, noRead, linger0, broker, main>>
        /\ client = "front" /\ client' = "beat" /\ fin' = [fin EXCEPT !["down"] = TRUE]
    BY <1>5 DEF ClientBeats, handlerVars
  <2>2. ~proxying
    BY <2>1 DEF NotCopying, ConnTypeOK
  <2>3. ConnTypeOK'
    BY <2>1 DEF ConnTypeOK, TypeOK, Sides
  <2> QED BY <2>1, <2>2, <2>3 DEF NotCopying, Copying, Undisturbed
<1>6. CASE ClientLost
  <2>1. /\ UNCHANGED <<client, ack, handler, failure, proxying, sent, fin, got, read, buf, noRead, linger0, broker, main>>
        /\ ~proxying /\ conn' = [conn EXCEPT !["down"] = "aborted"]
    BY <1>6 DEF ClientLost, clientVars, handlerVars, copyVars, net, Down
  <2>2. ConnTypeOK' /\ conn'["down"] = "aborted"
    BY <2>1 DEF ConnTypeOK, TypeOK, Sides
  <2> QED BY <2>1, <2>2 DEF NotCopying, Copying, Undisturbed
<1> QED BY <1>2, <1>3, <1>4, <1>5, <1>6 DEF ClientStep

LEMMA AckCodeType ==
  AckCode \in 0..AckCodeUnknownProtocol /\ (AckCode = AckCodeOK => conn["up"] = "open")
<1> USE DEF AckCodeOK, AckCodeNoSuchHost, AckCodeResolveTimeout,
            AckCodeConnectTimeout, AckCodeUnknownError, AckCodeUnknownProtocol
<1>1. ackCodeFromErr(failure) \in 2..5
  BY DEF ackCodeFromErr
<1> HIDE DEF ackCodeFromErr
<1>2. CASE hdr.protocol \notin {ProtocolTCP, ProtocolUDP}
  BY <1>2 DEF AckCode
<1>3. CASE hdr.protocol \in {ProtocolTCP, ProtocolUDP} /\ conn["up"] = "open"
  BY <1>3 DEF AckCode
<1>4. CASE hdr.protocol \in {ProtocolTCP, ProtocolUDP} /\ conn["up"] # "open"
  BY <1>1, <1>4 DEF AckCode
<1> QED BY <1>2, <1>3, <1>4

LEMMA HandleConnCopies == CopyInv /\ HandleConn => CopyInv'
<1> SUFFICES ASSUME CopyInv, HandleConn PROVE ConnTypeOK' /\ NotCopying' /\ Copying'
  BY HandleConnAgrees DEF CopyInv
<1> USE DEF CopyInv
<1>t. TypeOK
  BY DEF ConnTypeOK
<1>a. ASSUME ~proxying, UNCHANGED proxying, Return(wire) \/ Return(wire'), UNCHANGED copyVars,
             UNCHANGED <<client, failure>>, ack' \in 0..AckCodeUnknownProtocol,
             handler # "header" \/ client # "front"
      PROVE  ConnTypeOK' /\ NotCopying' /\ Copying'
  <2>1. TypeOK' /\ handler' = "returned" /\ buf' = buf
    <3>1. buf["down"] = 0
      BY <1>a DEF NotCopying, Sides
    <3>2. CASE Return(wire)
      BY <1>t, <1>a, <3>1, <3>2, ReturnCloses
    <3>3. CASE Return(wire')
      BY <1>t, <1>a, <3>1, <3>3, ReturnCloses
    <3> QED BY <1>a, <3>2, <3>3
  <2>2. ConnTypeOK'
    BY <1>a, <2>1 DEF ConnTypeOK
  <2>3. NotCopying'
    BY <1>a, <2>1 DEF NotCopying, copyVars, net
  <2> QED BY <1>a, <2>2, <2>3 DEF Copying, Undisturbed
<1>b. ASSUME ~proxying, UNCHANGED proxying, handler' \in {"dial", "ack"}, UNCHANGED <<buf, copyVars, client, ack>>,
             conn' \in [Sides -> {"open", "closed", "reset", "aborted"}], conn'["down"] = conn["down"],
             failure' \in DialErrors, client # "front", handler \in {"header", "dial", "ack"}
      PROVE  ConnTypeOK' /\ NotCopying' /\ Copying'
  <2>1. ConnTypeOK'
    BY <1>b DEF ConnTypeOK, TypeOK, copyVars, net
  <2>2. NotCopying'
    BY <1>b DEF NotCopying, copyVars, net
  <2> QED BY <1>b, <2>1, <2>2 DEF Copying, Undisturbed
<1>1. CASE ReadHeader
  <2>1. /\ handler = "header" /\ client # "front" /\ UNCHANGED <<client, ack, failure, proxying, copyVars>>
        /\ \/ Return(wire')
           \/ handler' \in {"dial", "ack"} /\ UNCHANGED <<conn, buf>>
    BY <1>1 DEF ReadHeader, clientVars
  <2>2. ~proxying
    BY <2>1 DEF NotCopying
  <2>3. ack \in 0..AckCodeUnknownProtocol /\ failure \in DialErrors
        /\ conn \in [Sides -> {"open", "closed", "reset", "aborted"}]
    BY DEF ConnTypeOK, TypeOK
  <2> QED BY <1>a, <1>b, <2>1, <2>2, <2>3
<1>2. CASE ReadHeaderFails \/ WriteFails
  <2>1. /\ handler \in {"header", "ack"} /\ UNCHANGED <<client, ack, failure, proxying, copyVars>>
        /\ Return(wire) /\ client # "front"
    BY <1>2 DEF ReadHeaderFails, WriteFails, clientVars, NotCopying
  <2>2. ~proxying /\ ack' \in 0..AckCodeUnknownProtocol
    BY <2>1 DEF NotCopying, ConnTypeOK
  <2> QED BY <1>a, <2>1, <2>2
<1>3. CASE Dial
  <2>1. /\ handler = "dial" /\ handler' = "ack" /\ UNCHANGED <<client, ack, failure, proxying, buf, copyVars>>
        /\ conn' = [conn EXCEPT !["up"] = "open"]
    BY <1>3 DEF Dial, clientVars
  <2>2. ~proxying /\ failure' \in DialErrors /\ client # "front"
    BY <2>1 DEF NotCopying, ConnTypeOK
  <2>3. conn' \in [Sides -> {"open", "closed", "reset", "aborted"}] /\ conn'["down"] = conn["down"]
    BY <2>1 DEF ConnTypeOK, TypeOK, Sides
  <2> QED BY <1>b, <2>1, <2>2, <2>3
<1>4. ASSUME NEW e \in DialErrors, DialFails(e) PROVE ConnTypeOK' /\ NotCopying' /\ Copying'
  <2>1. /\ handler = "dial" /\ handler' = "ack" /\ UNCHANGED <<client, ack, proxying, buf, copyVars, conn>>
        /\ failure' = e
    BY <1>4 DEF DialFails, clientVars, tcpVars, vars, copyVars
  <2>2. ~proxying /\ failure' \in DialErrors /\ client # "front"
    BY <2>1 DEF NotCopying, ConnTypeOK
  <2>3. conn' \in [Sides -> {"open", "closed", "reset", "aborted"}] /\ conn'["down"] = conn["down"]
    BY <2>1 DEF ConnTypeOK, TypeOK, Sides
  <2> QED BY <1>b, <2>1, <2>2, <2>3
<1>5. CASE WriteOK
  <2>1. /\ handler = "ack" /\ handler' = "proxy" /\ ack' = AckCodeOK /\ AckCode = AckCodeOK
        /\ conn["down"] # "aborted" /\ wire' = <<>>
        /\ UNCHANGED <<client, failure, fin, got, read, buf, conn, noRead, linger0, broker, main>>
    BY <1>5 DEF WriteOK
  <2>2. proxying' \in BOOLEAN
    BY <1>5 DEF WriteOK
  <2>3. PICK n \in {0, 1} : sent' = [sent EXCEPT !["down"] = n]
    BY <1>5 DEF WriteOK
  <2>4. ~proxying /\ conn["down"] = "open" /\ conn["up"] = "open" /\ client # "front"
    BY <2>1, AckCodeType DEF NotCopying
  <2>5. TypeOK' /\ sent'["up"] = sent["up"]
    BY <1>t, <2>1, <2>3 DEF TypeOK, Sides
  <2>6. ConnTypeOK'
    BY <2>1, <2>2, <2>5 DEF ConnTypeOK, AckCodeOK, AckCodeUnknownProtocol
  <2>7. NotCopying'
    BY <2>1, <2>4, <2>5 DEF NotCopying
  <2>8. Relaying' /\ broker'["up"] = "read"
    BY <2>1, <2>4, <2>5 DEF NotCopying, Relaying, Sides
  <2> QED BY <2>6, <2>7, <2>8 DEF Copying
<1>6. CASE WriteError
  <2>1. /\ handler = "ack" /\ Return(wire) /\ ack' = AckCode
        /\ UNCHANGED <<client, failure, proxying, copyVars>>
    BY <1>6 DEF WriteError
  <2>2. ~proxying /\ ack' \in 0..AckCodeUnknownProtocol
    BY <2>1, AckCodeType DEF NotCopying
  <2> QED BY <1>a, <2>1, <2>2
<1>7. CASE ProxyTCPReturns
  <2>1. /\ proxying /\ handler = "proxy" /\ Return(wire) /\ main = "returned"
        /\ UNCHANGED <<client, ack, wire, failure, proxying, copyVars>>
    BY <1>7 DEF ProxyTCPReturns, clientVars
  <2>2. wire = <<>> /\ client # "front"
    BY <2>1 DEF NotCopying
  <2>3. /\ TypeOK' /\ handler' = "returned"
        /\ conn'["up"] = conn["up"] /\ conn'["down"] # "open"
        /\ conn["down"] = "aborted" <=> conn'["down"] = "aborted"
        /\ buf'["down"] = buf["down"] \/ Unread("down")
    BY <1>t, <2>1, <2>2, ReturnCloses
  <2>4. ConnTypeOK' /\ NotCopying'
    BY <2>1, <2>2, <2>3 DEF ConnTypeOK, NotCopying
  <2>5. Undisturbed' => Undisturbed
    BY <2>1, <2>3 DEF Undisturbed, copyVars, net, Sides
  <2>6. Undisturbed => broker["up"] \notin {"read", "write"} /\ Relayed
    BY <2>1 DEF Copying, Relaying
  <2>7. Undisturbed => Relayed'
    BY <2>1, <2>3, <2>6 DEF Relayed, copyVars, net, Unread
  <2>8. broker' = broker
    BY <2>1 DEF copyVars
  <2> QED BY <2>4, <2>5, <2>6, <2>7, <2>8 DEF Copying
<1> QED
  BY <1>1, <1>2, <1>3, <1>4, <1>5, <1>6, <1>7 DEF HandleConn

(* Every step of ProxyTCP and its peers, in a session that is undisturbed. *)
LEMMA NextCopies ==
  ASSUME TypeOK, Next, Undisturbed, Copying, Undisturbed'
  PROVE  IF broker'["up"] \in {"read", "write"} THEN Relaying' ELSE Relayed'
<1> DEFINE Goal == IF broker'["up"] \in {"read", "write"} THEN Relaying' ELSE Relayed'
<1>0. /\ sent \in [Sides -> Nat] /\ read \in [Sides -> Nat] /\ got \in [Sides -> Nat]
      /\ buf \in [Sides -> 0..BufCap] /\ BufCap \in Nat
      /\ fin \in [Sides -> BOOLEAN] /\ noRead \in [Sides -> BOOLEAN]
      /\ conn \in [Sides -> {"open", "closed", "reset", "aborted"}]
      /\ broker \in [Sides -> BrokerPhases]
      /\ ~fin["down"] /\ ~fin'["down"] /\ \A p \in Sides : conn'[p] # "aborted"
  BY ConstantsAssumption DEF TypeOK, Undisturbed
<1>1. CASE broker["up"] \in {"read", "write"}
  <2>0. Relaying
    BY <1>1 DEF Copying
  <2>1. ASSUME NEW p \in Sides, BrokerReads(p) PROVE Goal
    <3>1. CASE p = "up"
      BY <1>0, <1>1, <2>0, <2>1, <3>1 DEF BrokerReads, Relaying, Unread, net, Sides
    <3>2. CASE p = "down"
      BY <1>0, <1>1, <2>0, <2>1, <3>2 DEF BrokerReads, Relaying, net, Sides
    <3> QED BY <3>1, <3>2 DEF Sides
  <2>2. ASSUME NEW p \in Sides, BrokerReadEnds(p) PROVE Goal
    <3>1. p = "up" /\ broker["up"] = "read" /\ fin["up"] /\ ~Unread("up")
      BY <1>0, <2>0, <2>2 DEF BrokerReadEnds, Relaying, Sides
    <3>2. broker'["up"] = "signal" /\ UNCHANGED <<net, read, buf, conn>>
      BY <1>0, <2>2, <3>1 DEF BrokerReadEnds, Sides
    <3>3. read["up"] = sent["up"]
      BY <1>0, <2>0, <3>1 DEF Relaying, Unread, Sides
    <3> QED BY <1>0, <2>0, <3>1, <3>2, <3>3 DEF Relaying, Relayed, net, Sides
  <2>3. ASSUME NEW p \in Sides, BrokerWrites(p) PROVE Goal
    <3>1. CASE p = "up"
      BY <1>0, <1>1, <2>0, <2>3, <3>1 DEF BrokerWrites, Other, Relaying, net, Sides
    <3>2. CASE p = "down"
      <4>1. /\ UNCHANGED <<net, read, conn, noRead, main>> /\ buf'["down"] = buf["down"]
            /\ broker'["up"] = broker["up"] /\ broker'["down"] = "read"
        BY <1>0, <2>3, <3>2 DEF BrokerWrites, Other, Sides
      <4> QED BY <1>1, <2>0, <4>1 DEF Relaying, net
    <3> QED BY <3>1, <3>2 DEF Sides
  <2>4. ASSUME NEW p \in Sides, BrokerWriteFails(p) PROVE Goal
    BY <2>0, <2>4 DEF BrokerWriteFails, Other, Relaying, Sides
  <2>5. ASSUME NEW p \in Sides, BrokerSignals(p) \/ BrokerCloses(p) PROVE Goal
    BY <1>1, <2>0, <2>5 DEF BrokerSignals, BrokerCloses, Relaying, Sides
  <2>6. CASE Main
    BY <1>1, <2>0, <2>6 DEF Main, MainSelect, MainReturns, Signalled, Relaying, Sides
  <2>7. ASSUME NEW p \in Sides, PeerSends(p) PROVE Goal
    <3>1. /\ UNCHANGED <<got, buf, read, conn, noRead, broker, main>>
          /\ sent'["up"] \in {sent["up"], sent["up"] + 1}
      BY <1>0, <2>7 DEF PeerSends, Sides
    <3> QED BY <1>0, <1>1, <2>0, <3>1 DEF Relaying, Sides
  <2>8. ASSUME NEW p \in Sides, PeerCloses(p) PROVE Goal
    BY <1>1, <2>0, <2>8 DEF PeerCloses, Relaying
  <2>9. ASSUME NEW p \in Sides, PeerReceives(p) PROVE Goal
    <3>1. /\ UNCHANGED <<sent, read, conn, noRead, broker, main>>
          /\ got'["down"] + buf'["down"] = got["down"] + buf["down"]
          /\ got'["down"] \in Nat /\ buf'["down"] \in Nat
      BY <1>0, <2>9 DEF PeerReceives, Sides
    <3> QED BY <1>0, <1>1, <2>0, <3>1 DEF Relaying, Sides
  <2>10. ASSUME NEW p \in Sides, PeerResets(p) PROVE Goal
    BY <1>0, <2>10 DEF PeerResets
  <2> QED
    BY <2>1, <2>2, <2>3, <2>4, <2>5, <2>6, <2>7, <2>8, <2>9, <2>10 DEF Next, Broker
<1>2. CASE broker["up"] \notin {"read", "write"}
  <2>0. Relayed
    BY <1>2 DEF Copying
  <2>b. ASSUME NEW p \in Sides, BrokerReads(p) \/ BrokerReadEnds(p) \/ BrokerWrites(p) \/
                                BrokerWriteFails(p)
        PROVE  p = "down" /\ broker'["up"] = broker["up"]
    BY <1>0, <1>2, <2>b DEF BrokerReads, BrokerReadEnds, BrokerWrites, BrokerWriteFails, Sides
  <2>1. ASSUME NEW p \in Sides, BrokerReads(p) PROVE Goal
    <3>1. conn["down"] = "open" /\ UNCHANGED <<net, buf, conn>> /\ read'["up"] = read["up"]
      BY <1>0, <2>1, <2>b DEF BrokerReads, Sides
    <3> QED BY <1>2, <2>0, <2>1, <2>b, <3>1 DEF Relayed, net
  <2>2. ASSUME NEW p \in Sides, BrokerReadEnds(p) \/ BrokerWriteFails(p) PROVE Goal
    <3>1. UNCHANGED <<net, read, buf, conn>>
      BY <2>2 DEF BrokerReadEnds, BrokerWriteFails
    <3> QED BY <1>2, <2>0, <2>2, <2>b, <3>1 DEF Relayed, Unread, net
  <2>3. ASSUME NEW p \in Sides, BrokerWrites(p) PROVE Goal
    <3>1. UNCHANGED <<net, read, conn>> /\ buf'["down"] = buf["down"]
      BY <1>0, <2>3, <2>b DEF BrokerWrites, Other, Sides
    <3> QED BY <1>2, <2>0, <2>3, <2>b, <3>1 DEF Relayed, Unread, net
  <2>4. ASSUME NEW p \in Sides, BrokerSignals(p) PROVE Goal
    BY <1>0, <1>2, <2>0, <2>4 DEF BrokerSignals, Relayed, Unread, net, Sides, BrokerPhases
  <2>5. ASSUME NEW p \in Sides, BrokerCloses(p) PROVE Goal
    <3>1. /\ UNCHANGED <<net, read>>
          /\ broker'["up"] \in {broker["up"], "done"}
          /\ conn["down"] # "open" => conn'["down"] # "open"
          /\ buf'["down"] = buf["down"] \/ (Unread("down") /\ conn'["down"] # "open")
      <4>1. CASE p = "up"
        BY <1>0, <2>5, <4>1 DEF BrokerCloses, Sides
      <4>2. CASE p = "down"
        BY <1>0, <2>5, <4>2 DEF BrokerCloses, Sides
      <4> QED BY <4>1, <4>2 DEF Sides
    <3> QED BY <1>2, <2>0, <3>1 DEF Relayed, Unread, net
  <2>6. CASE Main
    <3>1. UNCHANGED <<net, read, buf, conn, broker>>
      BY <2>6 DEF Main, MainSelect, MainReturns
    <3> QED BY <1>2, <2>0, <3>1 DEF Relayed, Unread, net
  <2>7. ASSUME NEW p \in Sides, PeerSends(p) PROVE Goal
    <3>1. /\ UNCHANGED <<fin, got, read, buf, conn, broker>>
          /\ sent'["up"] = sent["up"]
          /\ Unread("down") => Unread("down")'
      BY <1>0, <2>0, <2>7 DEF PeerSends, Relayed, Unread, Sides
    <3> QED BY <1>2, <2>0, <3>1 DEF Relayed
  <2>8. ASSUME NEW p \in Sides, PeerCloses(p) PROVE Goal
    <3>1. UNCHANGED <<sent, got, read, buf, conn, broker>> /\ (fin["up"] => fin'["up"])
      BY <1>0, <2>8 DEF PeerCloses, Sides
    <3> QED BY <1>2, <2>0, <3>1 DEF Relayed, Unread
  <2>9. ASSUME NEW p \in Sides, PeerReceives(p) PROVE Goal
    <3>1. /\ UNCHANGED <<sent, fin, read, conn, broker>>
          /\ got'["down"] + buf'["down"] = got["down"] + buf["down"]
      BY <1>0, <2>9 DEF PeerReceives, Sides
    <3> QED BY <1>2, <2>0, <3>1 DEF Relayed, Unread
  <2>10. ASSUME NEW p \in Sides, PeerResets(p) PROVE Goal
    BY <1>0, <2>10 DEF PeerResets
  <2> QED
    BY <2>1, <2>2, <2>3, <2>4, <2>5, <2>6, <2>7, <2>8, <2>9, <2>10 DEF Next, Broker
<1> QED BY <1>1, <1>2

(* What has disturbed a session stays. *)
LEMMA StaysDisturbed ==
  ASSUME TypeOK, Next, UNCHANGED proxying, Undisturbed'
  PROVE  Undisturbed
<1>0. /\ fin \in [Sides -> BOOLEAN] /\ conn \in [Sides -> {"open", "closed", "reset", "aborted"}]
      /\ proxying /\ ~fin'["down"] /\ \A q \in Sides : conn'[q] # "aborted"
  BY DEF TypeOK, Undisturbed
<1>1. /\ fin' = fin \/ \E p \in Sides : fin' = [fin EXCEPT ![p] = TRUE]
      /\ \/ conn' = conn
         \/ \E p \in Sides : BrokerCloses(p)
         \/ \E p \in Sides : conn' = [conn EXCEPT ![p] = "aborted"]
  BY DEF Next, Broker, Main, BrokerReads, BrokerReadEnds, BrokerWrites, BrokerWriteFails,
         BrokerSignals, BrokerCloses, MainSelect, MainReturns, PeerSends, PeerCloses, PeerReceives,
         PeerResets, net
<1>2. ~fin["down"]
  BY <1>0, <1>1 DEF Sides
<1>3. \A q \in Sides : conn[q] # "aborted"
  <2>1. CASE \E p \in Sides : BrokerCloses(p)
    <3>1. PICK p \in Sides : BrokerCloses(p)
      BY <2>1
    <3>2. ASSUME NEW q \in Sides, conn[q] = "aborted" PROVE conn'[q] = "aborted"
      <4>1. CASE q = p
        <5>1. conn[p] # "open" /\ conn[p] = "aborted"
          BY <3>2, <4>1
        <5>2. conn' = [conn EXCEPT ![p] = conn[p]]
          BY <3>1, <5>1 DEF BrokerCloses
        <5> QED BY <1>0, <4>1, <5>1, <5>2
      <4>2. CASE q # p
        BY <1>0, <3>1, <3>2, <4>2 DEF BrokerCloses
      <4> QED BY <4>1, <4>2
    <3> QED BY <1>0, <3>2
  <2>2. CASE ~\E p \in Sides : BrokerCloses(p)
    BY <1>0, <1>1, <2>2
  <2> QED BY <2>1, <2>2
<1> QED BY <1>0, <1>2, <1>3 DEF Undisturbed

LEMMA RestCopies ==
  CopyInv /\ (ProxyUDPReturns \/ Finalize \/ Proxy(Next) \/ UNCHANGED connVars) => CopyInv'
<1> SUFFICES ASSUME CopyInv, ProxyUDPReturns \/ Finalize \/ Proxy(Next) \/ UNCHANGED connVars
             PROVE  ConnTypeOK' /\ NotCopying' /\ Copying'
  BY RestAgrees DEF CopyInv
<1> USE DEF CopyInv
<1>1. CASE ProxyUDPReturns \/ Finalize
  <2>1. /\ ~proxying /\ handler' = "returned" /\ handler \in {"proxy", "returned"}
        /\ UNCHANGED <<client, ack, wire, failure, proxying, buf, copyVars>>
        /\ \/ conn' = [conn EXCEPT !["up"] = "closed"]
           \/ \E state \in {"open", "closed"} :
                conn' = [conn EXCEPT !["up"] = state, !["down"] = "closed"]
    BY <1>1 DEF ProxyUDPReturns, Finalize, clientVars, handlerVars
  <2>2. TypeOK'
    <3>1. conn' \in [Sides -> {"open", "closed", "reset", "aborted"}]
      BY <2>1 DEF ConnTypeOK, TypeOK, Sides
    <3> QED BY <2>1, <3>1 DEF ConnTypeOK, TypeOK, copyVars, net
  <2>3. ConnTypeOK'
    BY <2>1, <2>2 DEF ConnTypeOK
  <2>4. NotCopying'
    BY <2>1 DEF NotCopying, copyVars, net
  <2> QED BY <2>1, <2>3, <2>4 DEF Copying, Undisturbed
<1>2. CASE Proxy(Next)
  <2>1. proxying /\ Next /\ UNCHANGED <<client, ack, wire, handler, failure, proxying>>
    BY <1>2 DEF Proxy, clientVars, handlerVars
  <2>2. TypeOK /\ TypeOK'
    BY <2>1, CopyTypes DEF ConnTypeOK
  <2>3. ConnTypeOK'
    BY <2>1, <2>2 DEF ConnTypeOK
  <2>4. NotCopying'
    BY <2>1 DEF NotCopying
  <2>5. Copying'
    BY <2>1, <2>2, StaysDisturbed, NextCopies DEF Copying
  <2> QED BY <2>3, <2>4, <2>5
<1>3. CASE UNCHANGED connVars
  <2>1. UNCHANGED <<client, ack, wire, handler, failure, proxying, tcpVars>>
    BY <1>3 DEF connVars, clientVars, handlerVars
  <2>2. ConnTypeOK'
    BY <2>1 DEF ConnTypeOK, TypeOK, tcpVars, vars, net
  <2>3. NotCopying'
    BY <2>1 DEF NotCopying, tcpVars, vars, net
  <2>4. Copying'
    BY <2>1 DEF Copying, Undisturbed, Relaying, Relayed, Unread, tcpVars, vars, net
  <2> QED BY <2>2, <2>3, <2>4
<1> QED BY <1>1, <1>2, <1>3

LEMMA CopyInvariant == ConnSpec => []CopyInv
<1>1. CopyInv /\ [ConnNext]_connVars => CopyInv'
  BY ClientCopies, HandleConnCopies, RestCopies DEF ConnNext
<1> QED BY <1>1, InitCopies, PTL DEF ConnSpec

(* Every variable of the handshake and of the copying keeps its type: a    *)
(* send buffer never holds more than it can, and every outcome of Dial has *)
(* an ack code that the client knows.                                      *)
THEOREM TypeCorrect == ConnSpec => []ConnTypeOK
<1>1. CopyInv => ConnTypeOK
  BY DEF CopyInv
<1> QED BY <1>1, CopyInvariant, PTL

(* If the destination ends the session, the client gets all the            *)
(* destination had sent, for any amount of data, any send buffers and any  *)
(* order in which the brokers, ProxyTCP and handleConn close: unless there *)
(* is data of the client's that nobody has read.                           *)
THEOREM AllOfTheResponse == ConnSpec => []ResponseDelivered
<1>1. CopyInv => ResponseDelivered
  <2> SUFFICES ASSUME CopyInv, EndedByDestination, buf["down"] = 0, ~Unread("down")
               PROVE  got["down"] = sent["up"]
    BY DEF ResponseDelivered
  <2>1. broker["up"] = "done" /\ ~fin["down"] /\ \A p \in Sides : conn[p] # "aborted"
    BY DEF EndedByDestination, Sides
  <2>2. proxying
    BY <2>1 DEF CopyInv, NotCopying, Sides
  <2>3. Relayed
    BY <2>1, <2>2 DEF CopyInv, Copying, Undisturbed
  <2>4. got["down"] \in Nat
    BY DEF CopyInv, ConnTypeOK, TypeOK, Sides
  <2> QED BY <2>3, <2>4 DEF Relayed
<1> QED BY <1>1, CopyInvariant, PTL

-----------------------------------------------------------------------------
(* What socks5Handshake finds in a request                                 *)

(* Where the fields of a request are: o is what precedes the request       *)
(* proper, a what precedes the address.                                    *)
RequestFields(all, o, a, nmethods, cmd, atyp, data, port) ==
  /\ all \in Seq(Nat)
  /\ Len(all) = a + Len(data) + 2
  /\ all[2] = nmethods
  /\ all[o + 2] = cmd /\ all[o + 4] = atyp
  /\ atyp = 3 => all[o + 5] = Len(data)
  /\ \A i \in 1..Len(data) : all[a + i] = data[i]
  /\ all[a + Len(data) + 1] = PutUint16(port)[1]
  /\ all[a + Len(data) + 2] = PutUint16(port)[2]

BeforeRequest(nmethods)    == 2 + nmethods
BeforeAddr(nmethods, atyp) == (BeforeRequest(nmethods) + 4) + (IF atyp = 3 THEN 1 ELSE 0)

LEMMA RequestShape ==
  ASSUME NEW nmethods \in Nat, NEW cmd \in Nat, NEW atyp \in Nat,
         NEW data \in Seq(Nat), NEW port \in Nat
  PROVE  RequestFields(Request(nmethods, cmd, atyp, data, port), BeforeRequest(nmethods),
                       BeforeAddr(nmethods, atyp), nmethods, cmd, atyp, data, port)
<1> DEFINE s1 == <<5, nmethods>>
           zs == [i \in 1..nmethods |-> 0]
           rq == <<5, cmd, 0, atyp>>
           op == IF atyp = 3 THEN <<Len(data)>> ELSE <<>>
           p  == PutUint16(port)
           s2 == s1 \o zs
           s3 == s2 \o rq
           s4 == s3 \o op
           s5 == s4 \o data
           s6 == s5 \o p
           o  == BeforeRequest(nmethods)
           e  == IF atyp = 3 THEN 1 ELSE 0
           a  == BeforeAddr(nmethods, atyp)
           l  == Len(data)
<1>0. l \in Nat /\ o \in Nat /\ a \in Nat /\ e \in 0..1 /\ o = 2 + nmethods
  BY LenProperties DEF BeforeAddr, BeforeRequest
<1>a. a = (o + 4) + e
  BY Zenon DEF BeforeAddr
<1>m. Request(nmethods, cmd, atyp, data, port) = s6
  BY Zenon DEF Request
<1>1. s1 \in Seq(Nat) /\ Len(s1) = 2 /\ s1[2] = nmethods
  OBVIOUS
<1>2. zs \in Seq(Nat) /\ Len(zs) = nmethods
  OBVIOUS
<1>3. rq \in Seq(Nat) /\ Len(rq) = 4 /\ rq[2] = cmd /\ rq[4] = atyp
  OBVIOUS
<1>4. op \in Seq(Nat) /\ Len(op) = e /\ (atyp = 3 => op[1] = l)
  BY <1>0
<1>5. p \in Seq(Nat) /\ Len(p) = 2
  <2>1. p \in Seq(Octets) /\ Len(p) = 2
    BY PutUint16Type
  <2>2. Octets \subseteq Nat
    BY BaseAssumption DEF Octets
  <2> HIDE DEF p
  <2> QED BY <2>1, <2>2, SeqMonotonic
<1> HIDE DEF s1, zs, rq, op, p, o, e, a, l
<1>7. s2 \in Seq(Nat) /\ Len(s2) = o /\ s2[2] = nmethods
  <2>1. s2 \in Seq(Nat) /\ Len(s2) = Len(s1) + Len(zs) /\ \A i \in 1..Len(s1) : s2[i] = s1[i]
    BY <1>1, <1>2, Cat
  <2> HIDE DEF s2
  <2> QED BY <1>1, <1>2, <1>0, <2>1
<1> HIDE DEF s2
<1>8. s3 \in Seq(Nat) /\ Len(s3) = o + 4 /\ s3[2] = nmethods /\ s3[o + 2] = cmd /\ s3[o + 4] = atyp
  <2>1. /\ s3 \in Seq(Nat) /\ Len(s3) = Len(s2) + Len(rq)
        /\ \A i \in 1..Len(s2) : s3[i] = s2[i]
        /\ \A i \in 1..Len(rq) : s3[Len(s2) + i] = rq[i]
    BY <1>3, <1>7, Cat
  <2> HIDE DEF s3
  <2>2. 2 \in 1..Len(s2)
    BY <1>0, <1>7
  <2>3. 2 \in 1..Len(rq) /\ 4 \in 1..Len(rq)
    BY <1>3
  <2> QED BY <1>3, <1>7, <2>1, <2>2, <2>3, Zenon
<1> HIDE DEF s3
<1>9. /\ s4 \in Seq(Nat) /\ Len(s4) = a
      /\ \A i \in 1..(o + 4) : s4[i] = s3[i]
      /\ atyp = 3 => s4[o + 5] = l
  <2>1. /\ s4 \in Seq(Nat) /\ Len(s4) = Len(s3) + Len(op)
        /\ \A i \in 1..Len(s3) : s4[i] = s3[i]
        /\ \A i \in 1..Len(op) : s4[Len(s3) + i] = op[i]
    BY <1>4, <1>8, Cat
  <2> HIDE DEF s4
  <2>2. ASSUME atyp = 3 PROVE s4[o + 5] = l
    <3>1. 1 \in 1..Len(op) /\ Len(s3) + 1 = o + 5
      BY <1>0, <1>4, <1>8, <2>2 DEF e
    <3> QED BY <1>4, <2>1, <2>2, <3>1
  <2> QED BY <1>a, <1>4, <1>8, <2>1, <2>2
<1> HIDE DEF s4
<1>10. /\ s5 \in Seq(Nat) /\ Len(s5) = a + l
       /\ \A i \in 1..a : s5[i] = s4[i]
       /\ \A i \in 1..l : s5[a + i] = data[i]
  <2>1. /\ s5 \in Seq(Nat) /\ Len(s5) = Len(s4) + Len(data)
        /\ \A i \in 1..Len(s4) : s5[i] = s4[i]
        /\ \A i \in 1..Len(data) : s5[Len(s4) + i] = data[i]
    BY <1>9, Cat
  <2> HIDE DEF s5
  <2> QED BY <1>9, <1>0, <2>1 DEF l
<1> HIDE DEF s5
<1>11. /\ s6 \in Seq(Nat) /\ Len(s6) = a + l + 2
       /\ \A i \in 1..(a + l) : s6[i] = s5[i]
       /\ s6[a + l + 1] = p[1] /\ s6[a + l + 2] = p[2]
  <2>1. /\ s6 \in Seq(Nat) /\ Len(s6) = Len(s5) + Len(p)
        /\ \A i \in 1..Len(s5) : s6[i] = s5[i]
        /\ \A i \in 1..Len(p) : s6[Len(s5) + i] = p[i]
    BY <1>5, <1>10, Cat
  <2> HIDE DEF s6
  <2>2. 1 \in 1..Len(p) /\ 2 \in 1..Len(p)
    BY <1>5
  <2> QED BY <1>5, <1>10, <2>1, <2>2
<1> HIDE DEF s6
<1>12. s6[2] = nmethods /\ s6[o + 2] = cmd /\ s6[o + 4] = atyp
  <2>1. /\ \A i \in {2, o + 2, o + 4} : i \in 1..(o + 4) /\ i \in 1..a /\ i \in 1..(a + l)
    BY <1>0, <1>a
  <2>2. \A i \in {2, o + 2, o + 4} : s6[i] = s3[i]
    BY <1>9, <1>10, <1>11, <2>1
  <2> QED BY <1>8, <2>2
<1>13. atyp = 3 => s6[o + 5] = l
  <2>1. atyp = 3 => o + 5 \in 1..a /\ o + 5 \in 1..(a + l)
    BY <1>0, <1>a DEF e
  <2> QED BY <1>9, <1>10, <1>11, <2>1
<1>14. ASSUME NEW i \in 1..l PROVE s6[a + i] = data[i]
  <2>1. a + i \in 1..(a + l)
    BY <1>0
  <2> QED BY <1>10, <1>11, <2>1
<1>15. s6[a + l + 1] = PutUint16(port)[1] /\ s6[a + l + 2] = PutUint16(port)[2]
  BY <1>11 DEF p
<1> QED BY <1>m, <1>11, <1>12, <1>13, <1>14, <1>15, Zenon DEF RequestFields, o, a, l

(* The buffer of a reader holds numbers. *)
LEMMA BufferByte ==
  ASSUME NEW r, IsReader(r)
  PROVE  r.b[1] \in Nat /\ r.b[2] \in Nat
<1>1. r.b \in Seq(Nat) /\ Len(r.b) \in Nat /\ Len(r.b) >= 16
  BY BufferAssumption, LenProperties DEF IsReader, IPv6len
<1>2. 1 \in 1..Len(r.b) /\ 2 \in 1..Len(r.b)
  BY <1>1
<1> QED BY <1>1, <1>2, ElementOfSeq

(* The last two fields: an address, which is copied, and the port.         *)
LEMMA AddrAndPort ==
  ASSUME NEW input \in Seq(Nat), NEW r, IsReader(r), NEW a \in Nat, At(r, input, a),
         NEW data \in Seq(Nat), Len(data) <= maxAddrLen,
         ~ReadBytes(ReadBytes(r, Len(data)), 2).err,
         \A i \in 1..Len(data) : a + i <= Len(input) => input[a + i] = data[i]
  PROVE  LET addr == ReadBytes(r, Len(data))
             port == ReadBytes(addr, 2)
         IN  /\ copyBuffer(addr, port, Len(data)) = data
             /\ (a + Len(data)) + 2 <= Len(input)
             /\ \A i \in 1..2 : port.b[i] = input[(a + Len(data)) + i]
<1> DEFINE l    == Len(data)
           addr == ReadBytes(r, l)
           port == ReadBytes(addr, 2)
<1>0. l \in Nat /\ l <= maxAddrLen /\ maxAddrLen \in Nat
  BY BufferAssumption, LenProperties
<1>1. IsReader(addr)
  BY <1>0, ReadBytesReads
<1>2. ~addr.err
  BY <1>1, ReadBytesReads
<1>3. At(addr, input, a + l) /\ a + l <= Len(input) /\ \A i \in 1..l : addr.b[i] = input[a + i]
  BY <1>0, <1>2, ReadAt
<1>4. (a + l) + 2 <= Len(input) /\ \A i \in 1..2 : port.b[i] = input[(a + l) + i]
  <2>1. a + l \in Nat
    BY <1>0
  <2> QED BY <1>1, <1>3, <2>1, ReadAt
<1>5. Len(input) \in Nat /\ addr.b \in Seq(Nat) /\ Len(addr.b) \in Nat /\ Len(addr.b) >= maxAddrLen
  BY <1>1, LenProperties DEF IsReader
<1> HIDE DEF port, addr
<1>6. SubSeq(addr.b, 1, l) = data
  <2> DEFINE copy == SubSeq(addr.b, 1, l)
  <2>1. /\ copy \in Seq(Nat) /\ Len(copy) = l - 1 + 1
        /\ \A i \in 1..(l - 1 + 1) : copy[i] = addr.b[1 + i - 1]
    <3>1. l <= Len(addr.b) /\ 1 <= l + 1
      BY <1>0, <1>5
    <3> QED BY <1>0, <1>5, <3>1, Slice
  <2> HIDE DEF copy
  <2>2. Len(copy) = l
    BY <1>0, <2>1
  <2>3. ASSUME NEW i \in 1..Len(copy) PROVE copy[i] = data[i]
    <3>1. i \in 1..l /\ i \in 1..(l - 1 + 1) /\ 1 + i - 1 = i /\ a + i <= Len(input)
      BY <1>0, <1>3, <1>5, <2>2
    <3>2. copy[i] = input[a + i]
      BY <1>3, <2>1, <3>1
    <3> QED BY <3>1, <3>2
  <2> QED BY <1>0, <2>1, <2>2, <2>3, SeqEqual DEF copy
<1> QED BY <1>4, <1>6 DEF copyBuffer, addr, port

(* However much of a request for dst the application sends, the handshake  *)
(* finds dst or does not succeed.                                          *)
LEMMA HandshakeExact ==
  ASSUME NEW input, NEW dst \in AddrPorts, Asks(input, dst), Handshake(input).reply = 0
  PROVE  Handshake(input).dst = dst
<1>p. PICK data, num : data = dst.addr /\ num = dst.port
  OBVIOUS
<1>0. PICK nmethods, cmd, atyp \in Octets :
        /\ dst.typ = IF atyp = 3 THEN AddrTypeHost ELSE AddrTypeIP
        /\ atyp = 1 => Len(data) = IPv4len
        /\ atyp = 4 => Len(data) = IPv6len
        /\ atyp = 3 => Len(data) < Base
        /\ \E k \in 0..Len(Request(nmethods, cmd, atyp, data, num)) :
             input = SubSeq(Request(nmethods, cmd, atyp, data, num), 1, k)
  BY <1>p, Zenon DEF Asks
<1> DEFINE all     == Request(nmethods, cmd, atyp, data, num)
           o       == BeforeRequest(nmethods)
           e       == IF atyp = 3 THEN 1 ELSE 0
           a       == BeforeAddr(nmethods, atyp)
           l       == Len(data)
           start   == NewReader(input)
           hello   == ReadBytes(start, 2)
           methods == ReadBytes(hello, hello.b[2])
           request == ReadBytes(methods, 3)
           adrType == ReadBytes(request, 1)
           type    == adrType.b[1]
           n       == CASE type = 1 -> IPv4len [] type = 4 -> IPv6len [] OTHER -> ReadBytes(adrType, 1).b[1]
           addr    == IF type = 3 THEN ReadString(adrType) ELSE ReadBytes(adrType, n)
           port    == ReadBytes(addr, 2)
           typ     == IF type = 3 THEN AddrTypeHost ELSE AddrTypeIP
<1>h. Handshake(input) =
        [reply |-> IF adrType.err           THEN 0 - 1 ELSE
                   IF type \notin {1, 3, 4} THEN 8 ELSE
                   IF port.err              THEN 0 - 1 ELSE
                   IF request.b[2] # 1      THEN 7 ELSE 0,
         dst |-> AddrPortFrom(typ, copyBuffer(addr, port, n), GetUint16(port.b))]
  BY Zenon DEF Handshake
<1> HIDE DEF all, o, e, a, l, start, hello, methods, request, adrType, type, n, addr, port, typ
<1>r. ~adrType.err /\ type \in {1, 3, 4} /\ ~port.err
  <2>1. 0 - 1 # 0
    OBVIOUS
  <2>2. Handshake(input).reply =
          IF adrType.err           THEN 0 - 1 ELSE
          IF type \notin {1, 3, 4} THEN 8 ELSE
          IF port.err              THEN 0 - 1 ELSE
          IF request.b[2] # 1      THEN 7 ELSE 0
    BY <1>h
  <2> QED BY <2>1, <2>2
<1>t. Handshake(input).dst = AddrPortFrom(typ, copyBuffer(addr, port, n), GetUint16(port.b))
  BY <1>h
<1>1. /\ nmethods \in Nat /\ cmd \in Nat /\ atyp \in Nat
      /\ data \in Seq(Nat) /\ l \in Nat /\ num \in 0..Uint16Max /\ num \in Nat
      /\ dst = AddrPortFrom(dst.typ, data, num)
  BY <1>p, AddrPortType, BaseAssumption DEF Octets, Uint16Max, l
<1>2. /\ all \in Seq(Nat)
      /\ Len(all) = a + l + 2
      /\ all[2] = nmethods
      /\ all[o + 2] = cmd /\ all[o + 4] = atyp
      /\ atyp = 3 => all[o + 5] = l
      /\ \A i \in 1..l : all[a + i] = data[i]
      /\ all[a + l + 1] = PutUint16(num)[1]
      /\ all[a + l + 2] = PutUint16(num)[2]
  <2>1. /\ nmethods \in Nat /\ cmd \in Nat /\ atyp \in Nat
        /\ data \in Seq(Nat) /\ num \in Nat
    BY <1>1
  <2>2. RequestFields(all, o, a, nmethods, cmd, atyp, data, num)
    BY <2>1, RequestShape DEF all, o, a
  <2> QED BY <2>2, Zenon DEF RequestFields, l
<1>d. /\ all \in Seq(Nat) /\ Len(all) \in Nat
      /\ all[2] = nmethods /\ all[o + 4] = atyp
      /\ atyp = 3 => all[o + 5] = l
      /\ \A i \in 1..l : all[a + i] = data[i]
  <2>1. all \in Seq(Nat)
    BY <1>2
  <2>2. Len(all) \in Nat
    BY <2>1, LenProperties
  <2> QED BY <1>2, <2>2, Zenon
<1>3. /\ input \in Seq(Nat) /\ Len(input) \in Nat
      /\ \A i \in 1..Len(input) : input[i] = all[i]
  <2>1. PICK k \in 0..Len(all) : input = SubSeq(all, 1, k)
    BY <1>0 DEF all
  <2>2. /\ input \in Seq(Nat) /\ Len(input) = k - 1 + 1
        /\ \A i \in 1..(k - 1 + 1) : input[i] = all[1 + i - 1]
    <3>1. k \in Nat /\ k <= Len(all) /\ 1 <= k + 1 /\ all \in Seq(Nat)
      BY <1>d, LenProperties
    <3> QED BY <2>1, <3>1, Slice
  <2>3. k \in Nat
    BY <1>d, LenProperties
  <2> QED BY <2>2, <2>3
<1>4. o \in Nat /\ e \in {0, 1} /\ a \in Nat /\ a = (o + 4) + e
  BY <1>1 DEF o, e, a, BeforeRequest, BeforeAddr
<1>5. IsReader(start) /\ At(start, input, 0)
  BY <1>3, NewReaderAtStart DEF start
<1>6. IsReader(hello)
  BY <1>5, ReadBytesReads DEF hello
<1>7. IsReader(methods)
  BY <1>6, BufferByte, ReadBytesReads DEF methods
<1>8. IsReader(request)
  BY <1>7, ReadBytesReads DEF request
<1>9. IsReader(adrType)
  BY <1>8, ReadBytesReads DEF adrType
<1>10. ~hello.err /\ ~methods.err /\ ~request.err
  <2>1. ~request.err
    BY <1>8, <1>r, ReadBytesReads DEF adrType
  <2>2. ~methods.err
    BY <1>7, <2>1, ReadBytesReads DEF request
  <2>3. ~hello.err
    BY <1>6, <2>2, BufferByte, ReadBytesReads DEF methods
  <2> QED BY <2>1, <2>2, <2>3
<1>11. At(hello, input, 2) /\ hello.b[2] = nmethods
  <2>1. At(hello, input, 0 + 2) /\ 0 + 2 <= Len(input) /\ \A i \in 1..2 : hello.b[i] = input[0 + i]
    BY <1>3, <1>5, <1>10, ReadAt DEF hello
  <2> QED BY <1>d, <1>3, <2>1
<1>12. At(methods, input, o)
  BY <1>1, <1>3, <1>6, <1>10, <1>11, ReadAt DEF methods, o, BeforeRequest
<1>13. At(request, input, o + 3)
  BY <1>3, <1>4, <1>7, <1>10, <1>12, ReadAt DEF request
<1>14. At(adrType, input, o + 4) /\ type = atyp
  <2>1. /\ At(adrType, input, (o + 3) + 1) /\ (o + 3) + 1 <= Len(input)
        /\ \A i \in 1..1 : adrType.b[i] = input[(o + 3) + i]
    <3>1. o + 3 \in Nat
      BY <1>4
    <3> QED BY <1>3, <1>8, <1>13, <1>r, <3>1, ReadAt DEF adrType
  <2>2. (o + 3) + 1 = o + 4 /\ o + 4 \in 1..Len(input) /\ 1 \in 1..1
    BY <1>3, <1>4, <2>1
  <2>3. adrType.b[1] = input[o + 4]
    BY <2>1, <2>2
  <2> QED BY <1>d, <1>3, <2>1, <2>2, <2>3 DEF type
(* Where the address starts, and how long it is. *)
<1>15. PICK r : IsReader(r) /\ At(r, input, a) /\ addr = ReadBytes(r, l) /\ n = l /\ l <= maxAddrLen
  <2>1. CASE type = 3
    <3> DEFINE length == ReadBytes(adrType, 1)
    <3>0. atyp = 3 /\ a = (o + 4) + 1 /\ l < Base /\ 1 \in Nat /\ o + 4 \in Nat
      BY <1>0, <1>4, <1>14, <2>1 DEF e, l
    <3>1. addr = ReadBytes(length, length.b[1])
      BY <2>1 DEF addr, ReadString
    <3>2. n = length.b[1]
      BY <2>1 DEF n
    <3>3. IsReader(length)
      BY <1>9, ReadBytesReads
    <3> HIDE DEF length
    <3>4. IsReader(addr) /\ ~addr.err /\ ~length.err
      <4>1. length.b[1] \in Nat
        BY <3>3, BufferByte
      <4>2. IsReader(addr)
        BY <3>1, <3>3, <4>1, ReadBytesReads
      <4>3. ~addr.err
        BY <1>r, <4>2, ReadBytesReads DEF port
      <4> QED BY <3>1, <3>3, <4>1, <4>2, <4>3, ReadBytesReads
    <3>5. /\ At(length, input, (o + 4) + 1) /\ (o + 4) + 1 <= Len(input)
          /\ \A i \in 1..1 : length.b[i] = input[(o + 4) + i]
      BY <1>3, <1>9, <1>14, <3>0, <3>4, ReadAt DEF length
    <3>6. length.b[1] = l
      <4>1. (o + 4) + 1 = o + 5 /\ o + 5 \in 1..Len(input) /\ 1 \in 1..1
        BY <1>3, <1>4, <3>5
      <4>2. length.b[1] = input[o + 5]
        BY <3>5, <4>1
      <4> QED BY <1>d, <1>3, <3>0, <4>1, <4>2
    <3>7. l <= maxAddrLen
      BY <1>1, <3>0, BufferAssumption, BaseAssumption
    <3> QED BY <3>0, <3>1, <3>2, <3>3, <3>5, <3>6, <3>7
  <2>2. CASE type # 3
    <3>1. atyp \in {1, 4} /\ a = o + 4
      BY <1>4, <1>14, <1>r, <2>2 DEF e
    <3>2. n = l
      <4>1. CASE type = 1
        BY <1>0, <1>14, <4>1 DEF n, l
      <4>2. CASE type = 4
        BY <1>0, <1>14, <4>2 DEF n, l
      <4> QED BY <1>14, <3>1, <4>1, <4>2
    <3>4. l <= maxAddrLen
      <4>1. l \in {4, 16}
        BY <1>0, <3>1, Zenon DEF l, IPv4len, IPv6len
      <4> QED BY <4>1, BufferAssumption DEF IPv6len
    <3>3. addr = ReadBytes(adrType, l)
      BY <2>2, <3>2 DEF addr
    <3> QED BY <1>9, <1>14, <3>1, <3>2, <3>3, <3>4
  <2> QED BY <2>1, <2>2
<1>16. ASSUME NEW i \in 1..l, a + i <= Len(input) PROVE input[a + i] = data[i]
  <2>1. a + i \in 1..Len(input)
    BY <1>1, <1>3, <1>4, <1>16
  <2> QED BY <1>3, <1>d, <2>1
<1>17. /\ copyBuffer(addr, port, n) = data
       /\ (a + l) + 2 <= Len(input)
       /\ \A i \in 1..2 : port.b[i] = input[(a + l) + i]
  <2>1. ~ReadBytes(ReadBytes(r, l), 2).err
    BY <1>15, <1>r DEF port
  <2>2. /\ copyBuffer(ReadBytes(r, l), ReadBytes(ReadBytes(r, l), 2), l) = data
        /\ (a + l) + 2 <= Len(input)
        /\ \A i \in 1..2 : ReadBytes(ReadBytes(r, l), 2).b[i] = input[(a + l) + i]
    <3>1. IsReader(r) /\ At(r, input, a) /\ l <= maxAddrLen /\ a \in Nat
      BY <1>4, <1>15
    <3>2. data \in Seq(Nat) /\ input \in Seq(Nat)
      BY <1>1, <1>3
    <3> QED BY <1>16, <2>1, <3>1, <3>2, AddrAndPort DEF l
  <2> QED BY <1>15, <2>2 DEF port
<1>18. typ = dst.typ
  BY <1>0, <1>14 DEF typ
<1>19. GetUint16(port.b) = num
  <2>1. port.b[1] = input[(a + l) + 1] /\ port.b[2] = input[(a + l) + 2]
    BY <1>17
  <2>2. (a + l) + 1 = a + l + 1 /\ (a + l) + 2 = a + l + 2
    BY <1>1, <1>4
  <2>3. (a + l) + 1 \in 1..Len(input) /\ (a + l) + 2 \in 1..Len(input)
    <3>1. a \in Nat /\ l \in Nat /\ Len(input) \in Nat /\ (a + l) + 2 <= Len(input)
      BY <1>1, <1>3, <1>4, <1>17
    <3> QED BY <3>1
  <2>4. port.b[1] = all[a + l + 1] /\ port.b[2] = all[a + l + 2]
    BY <1>3, <2>1, <2>2, <2>3
  <2>5. port.b[1] = (num \div Base) % Base /\ port.b[2] = num % Base
    BY <1>1, <1>2, <2>4, PutUint16Type, Zenon
  <2> QED BY <1>1, <2>5, Uint16RoundTrip, Zenon DEF GetUint16
<1> QED BY <1>1, <1>17, <1>18, <1>19, <1>t

-----------------------------------------------------------------------------
(* What is dialled *)

(* What of the header is on its way is the start of want's header, and     *)
(* what handleConn has read is want, if the length of the header fits.     *)
Handing ==
  /\ want \in AddrPorts
  /\ client = "front" => handler = "header" /\ wire = <<>> /\ want = NoAddr
  /\ (handler = "header" /\ client \notin {"front", "beat"} /\ Fits(want)) =>
       \E proto \in Nat : Begins(wire, Marshal(proto, want))
  /\ DialsRequested

LEMMA NoAddrType == NoAddr \in AddrPorts
  BY BaseAssumption DEF NoAddr, AddrPortFrom, AddrPorts, AddrTypeIP, Octets, Uint16Max

LEMMA InitHands == ConnInit => Handing
  BY NoAddrType DEF ConnInit, Handing, DialsRequested

LEMMA BeginsWhole ==
  ASSUME NEW proto \in Nat, NEW dst \in AddrPorts
  PROVE  Begins(Marshal(proto, dst), Marshal(proto, dst))
<1>1. Marshal(proto, dst) \in Seq(Nat)
  BY MarshalShape, Zenon
<1>2. Len(Marshal(proto, dst)) \in Nat
  BY <1>1, LenProperties
<1> QED BY <1>1, <1>2 DEF Begins

LEMMA BeginsNothing == \A s \in Seq(Nat) : Begins(<<>>, s)
<1> SUFFICES ASSUME NEW s \in Seq(Nat) PROVE Begins(<<>>, s)
  OBVIOUS
<1>1. Len(s) \in Nat
  BY LenProperties
<1> QED BY <1>1 DEF Begins

LEMMA BeginsCut ==
  ASSUME NEW s, NEW w, Begins(w, s), Len(s) \in Nat, NEW k \in 0..Len(w)
  PROVE  Begins(SubSeq(w, 1, k), s)
<1>1. w \in Seq(Nat) /\ Len(w) \in Nat /\ Len(w) <= Len(s) /\ \A i \in 1..Len(w) : w[i] = s[i]
  BY LenProperties DEF Begins
<1> DEFINE cut == SubSeq(w, 1, k)
<1>2. /\ cut \in Seq(Nat) /\ Len(cut) = k - 1 + 1
      /\ \A i \in 1..(k - 1 + 1) : cut[i] = w[1 + i - 1]
  <2>1. k \in Nat /\ k <= Len(w) /\ 1 <= k + 1
    BY <1>1
  <2> QED BY <1>1, <2>1, Slice
<1> HIDE DEF cut
<1>3. Len(cut) = k /\ \A i \in 1..k : cut[i] = w[i]
  BY <1>1, <1>2
<1> QED BY <1>1, <1>2, <1>3 DEF Begins, cut

LEMMA ClientHands == Handing /\ (ClientStep \/ ClientLost) => Handing'
<1> SUFFICES ASSUME Handing, ClientStep \/ ClientLost PROVE Handing'
  OBVIOUS
<1> USE DEF Handing, DialsRequested
<1>1. ASSUME NEW q \in Requests, ClientSocks(q) PROVE Handing'
  <2>1. client = "front" /\ handler = "header" /\ UNCHANGED <<handler, hdr>>
    BY <1>1 DEF ClientSocks, handlerVars
  <2>2. CASE Handshake(q.input).reply = 0
    <3>1. /\ client' = "ack" /\ want' = q.dst
          /\ wire' = Marshal(ProtocolTCP, Handshake(q.input).dst)
      BY <1>1, <2>2 DEF ClientSocks
    <3>2. q.dst \in AddrPorts /\ Handshake(q.input).dst = q.dst
      BY <2>2, RequestsAssumption, HandshakeExact
    <3>3. 0 \in Nat /\ Begins(wire', Marshal(0, want'))
      BY <3>1, <3>2, BeginsWhole DEF ProtocolTCP
    <3> QED BY <2>1, <3>1, <3>2, <3>3
  <2>3. CASE Handshake(q.input).reply # 0
    <3>1. client' = "failed" /\ UNCHANGED <<want, wire>>
      BY <1>1, <2>3 DEF ClientSocks
    <3>2. Marshal(0, want) \in Seq(Nat)
      BY MarshalShape, Zenon
    <3>3. Begins(wire', Marshal(0, want'))
      BY <2>1, <3>1, <3>2, BeginsNothing
    <3> QED BY <2>1, <3>1, <3>3
  <2> QED BY <2>2, <2>3
<1>2. ASSUME NEW proto \in Protocols, NEW dst \in Targets, ClientTarget(proto, dst) PROVE Handing'
  <2>1. /\ client = "front" /\ handler = "header" /\ UNCHANGED <<handler, hdr>>
        /\ client' = "ack" /\ want' = dst /\ wire' = Marshal(proto, dst)
    BY <1>2 DEF ClientTarget, handlerVars
  <2>2. dst \in AddrPorts /\ proto \in Nat
    BY RequestsAssumption, BaseAssumption DEF Octets
  <2>3. Begins(wire', Marshal(proto, want'))
    BY <2>1, <2>2, BeginsWhole
  <2> QED BY <2>1, <2>2, <2>3
<1>3. CASE ClientBeats
  BY <1>3 DEF ClientBeats, handlerVars
<1>4. CASE ClientReadsAck \/ ClientAckFails
  BY <1>4 DEF ClientReadsAck, ClientAckFails, handlerVars
<1>5. CASE ClientSocksFails
  <2>1. client = "front" /\ handler = "header" /\ UNCHANGED <<handler, hdr, want, wire>>
    BY <1>5 DEF ClientSocksFails, handlerVars
  <2>2. Marshal(0, want) \in Seq(Nat)
    BY MarshalShape, Zenon
  <2>3. 0 \in Nat /\ Begins(wire', Marshal(0, want'))
    BY <2>1, <2>2, BeginsNothing
  <2>4. client' = "failed"
    BY <1>5 DEF ClientSocksFails
  <2> QED BY <2>1, <2>3, <2>4
<1>6. CASE ClientLost
  <2>1. /\ client \in {"ack", "beat"} /\ UNCHANGED <<client, want, handler, hdr>>
        /\ \E k \in 0..Len(wire) : wire' = SubSeq(wire, 1, k)
    BY <1>6 DEF ClientLost, clientVars, handlerVars
  <2>2. ASSUME NEW proto \in Nat, Begins(wire, Marshal(proto, want))
        PROVE  Begins(wire', Marshal(proto, want'))
    <3>1. Marshal(proto, want) \in Seq(Nat)
      BY MarshalShape, Zenon
    <3>2. Len(Marshal(proto, want)) \in Nat
      BY <3>1, LenProperties
    <3> QED BY <2>1, <2>2, <3>2, BeginsCut
  <2> QED BY <2>1, <2>2
<1> QED
  BY <1>1, <1>2, <1>3, <1>4, <1>5, <1>6 DEF ClientStep

LEMMA RestHands ==
  Handing /\ (HandleConn \/ ProxyUDPReturns \/ Finalize \/ Proxy(Next) \/ UNCHANGED connVars)
    => Handing'
<1> SUFFICES ASSUME Handing,
                    HandleConn \/ ProxyUDPReturns \/ Finalize \/ Proxy(Next) \/ UNCHANGED connVars
             PROVE  Handing'
  OBVIOUS
<1> USE DEF Handing, DialsRequested
<1>1. CASE ReadHeader
  <2>1. /\ handler = "header" /\ client # "front" /\ UNCHANGED <<client, want>>
        /\ Len(wire) >= ToRead(wire) /\ ~TooShort(wire)
        /\ hdr' = FromReader(wire)
    BY <1>1 DEF ReadHeader, clientVars
  <2>2. handler' # "header"
    BY <1>1 DEF ReadHeader, Return
  <2>3. ASSUME client # "beat", Fits(want) PROVE hdr'.dst = want
    <3>1. PICK proto \in Nat : Begins(wire, Marshal(proto, want))
      BY <2>1, <2>3
    <3>2. FromReader(wire) = [protocol |-> proto, dst |-> want]
      BY <2>1, <2>3, <3>1, HeaderRead
    <3> QED BY <2>1, <3>2
  <2> QED BY <2>1, <2>2, <2>3
<1>2. CASE Dial
  BY <1>2 DEF Dial, clientVars
<1>3. ASSUME NEW e \in DialErrors, DialFails(e) PROVE Handing'
  BY <1>3 DEF DialFails, clientVars
<1>4. CASE WriteOK
  BY <1>4, NoAddrType DEF WriteOK
<1>5. CASE ReadHeaderFails \/ WriteError \/ WriteFails \/ ProxyTCPReturns \/ ProxyUDPReturns
  <2>1. handler' = "returned" /\ UNCHANGED <<client, want>> /\ client # "front"
    BY <1>5 DEF ReadHeaderFails, WriteError, WriteFails, ProxyTCPReturns, ProxyUDPReturns, Return,
                clientVars
  <2> QED BY <2>1
<1>6. CASE Finalize \/ Proxy(Next) \/ UNCHANGED connVars
  BY <1>6 DEF Finalize, Proxy, connVars, clientVars, handlerVars
<1> QED
  BY <1>1, <1>2, <1>3, <1>4, <1>5, <1>6 DEF HandleConn

(* What the server dials is what was asked for, for any requests and       *)
(* addresses, any Base and buffer size: through the SOCKS5 handshake with  *)
(* its one buffer, the header's fields and a connection that is lost       *)
(* anywhere in between.                                                    *)
THEOREM DialsWhatWasAsked == ConnSpec => []DialsRequested
<1>1. Handing /\ [ConnNext]_connVars => Handing'
  BY ClientHands, RestHands DEF ConnNext
<1>2. Handing => DialsRequested
  BY DEF Handing
<1> QED BY <1>1, <1>2, InitHands, PTL DEF ConnSpec

=============================================================================
