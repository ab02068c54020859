---------------------------- MODULE MCServerConn ----------------------------
(* A small instance of ServerConn and of ProxyTCP for TLC. *)
EXTENDS ServerConn

MCChunks == [p \in Sides |-> 3]

AllSides == Sides

Bytes(n) == [i \in 1..n |-> 4]

(* Requests with each address type, of the least and the greatest lengths, *)
(* an unsupported command, an unsupported address type, and requests that  *)
(* are cut off in each of their fields.                                    *)
MCRequests ==
  LET domain == Request(1, 1, 3, Bytes(2), 8)
      ask(nmethods, cmd, atyp, n, port) ==
        [input |-> Request(nmethods, cmd, atyp, Bytes(n), port),
         dst   |-> AddrPortFrom(IF atyp = 3 THEN AddrTypeHost ELSE AddrTypeIP, Bytes(n), port)]
  IN  {ask(1, 1, 1, IPv4len, 8), ask(Base - 1, 1, 4, IPv6len, 0), ask(0, 1, 3, Base - 1, Uint16Max),
       ask(1, 1, 3, 0, 8), ask(1, 2, 1, IPv4len, 8), ask(1, 1, 5, 2, 8)}
      \union {[input |-> SubSeq(domain, 1, n), dst |-> AddrPortFrom(AddrTypeHost, Bytes(2), 8)] :
                 n \in 0..(Len(domain) - 1)}

(* The longest address that fits, and two that do not: one whose length    *)
(* becomes too short for a header, and one whose header seems to be short. *)
MCTargets ==
  {AddrPortFrom(AddrTypeHost, Bytes(n), 8) :
     n \in {1, Uint16Max - lengthAllMandatoryFields,
            Uint16Max, Uint16Max + 2}}

MCProtocols == {ProtocolTCP, ProtocolUDP, 5}
=============================================================================
