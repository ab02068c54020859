------------------------------- MODULE Socks5 -------------------------------
(***************************************************************************)
(* socks5Handshake (cmd/client/command_proxy.go), which reads every field  *)
(* of the handshake with one bytesReader.                                  *)
(***************************************************************************)
EXTENDS BytesReader

(* Mutant: the address is the slice of the buffer, and not a copy of it.   *)
CopiedLate(before, after, n) == SubSeq(after.b, 1, n)

(* copyBuffer(data), taken before the port is read into the same buffer.   *)
copyBuffer(before, after, n) == SubSeq(before.b, 1, n)

(* The handshake on all that the application sends before it closes: the   *)
(* reply it gets (-1: none), and the destination if that reply is 0.       *)
Handshake(input) ==
  LET hello   == ReadBytes(NewReader(input), 2)
      methods == ReadBytes(hello, hello.b[2])
      request == ReadBytes(methods, 3)
      cmd     == request.b[2]
      adrType == ReadBytes(request, 1)
      atyp    == adrType.b[1]
      n       == CASE atyp = 1 -> IPv4len [] atyp = 4 -> IPv6len [] OTHER -> ReadBytes(adrType, 1).b[1]
      addr    == IF atyp = 3 THEN ReadString(adrType) ELSE ReadBytes(adrType, n)
      port    == ReadBytes(addr, 2)
      typ     == IF atyp = 3 THEN AddrTypeHost ELSE AddrTypeIP
  IN  [reply |-> IF adrType.err           THEN 0 - 1 ELSE
                 IF atyp \notin {1, 3, 4} THEN 8 ELSE
                 IF port.err              THEN 0 - 1 ELSE
                 IF cmd # 1               THEN 7 ELSE 0,
       dst |-> AddrPortFrom(typ, copyBuffer(addr, port, n), GetUint16(port.b))]

-----------------------------------------------------------------------------
(* What an application sends (RFC 1928): nmethods methods, a command, an   *)
(* address type, an address and a port.                                    *)
Request(nmethods, cmd, atyp, data, port) ==
  <<5, nmethods>> \o [i \in 1..nmethods |-> 0] \o <<5, cmd, 0, atyp>>
     \o (IF atyp = 3 THEN <<Len(data)>> ELSE <<>>) \o data \o PutUint16(port)

(* The input is a request for dst, which may be cut off.                   *)
Asks(input, dst) ==
  \E nmethods, cmd, atyp \in Octets :
    LET all == Request(nmethods, cmd, atyp, dst.addr, dst.port)
    IN  /\ dst.typ = IF atyp = 3 THEN AddrTypeHost ELSE AddrTypeIP
        /\ atyp = 1 => Len(dst.addr) = IPv4len
        /\ atyp = 4 => Len(dst.addr) = IPv6len
        /\ atyp = 3 => Len(dst.addr) < Base
        /\ \E k \in 0..Len(all) : input = SubSeq(all, 1, k)

=============================================================================
