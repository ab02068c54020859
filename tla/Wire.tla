-------------------------------- MODULE Wire --------------------------------
(***************************************************************************)
(* What the client and krelay-server say to each other before they copy:   *)
(* the header and the ack (pkg/xnet/header.go, ack.go, addr.go, proto.go). *)
(* A byte is a number below Base, 256 in the code; a smaller Base brings   *)
(* the end of the 16-bit length within reach.                              *)
(***************************************************************************)
EXTENDS Naturals, Sequences

CONSTANT Base

ASSUME BaseAssumption == Base \in Nat /\ Base > 5

Octets    == 0..(Base - 1)
Uint16Max == Base * Base - 1

(* binary.BigEndian; PutUint16 of a larger number keeps its low 16 bits.   *)
PutUint16(n) == <<(n \div Base) % Base, n % Base>>
GetUint16(b) == b[1] * Base + b[2]

ProtocolTCP       == 0
ProtocolUDP       == 1
ProtocolKeepalive == 2

AddrTypeIP   == 0
AddrTypeHost == 1

(* xnet.AddrPort: an Addr, which is a type and its bytes, and a port.      *)
AddrPortFrom(addrType, data, port) == [typ |-> addrType, addr |-> data, port |-> port]

AddrPorts == [typ : {AddrTypeIP, AddrTypeHost}, addr : Seq(Octets), port : 0..Uint16Max]

NoAddr == AddrPortFrom(AddrTypeIP, <<>>, 0)

(* AckCodeOK, AckCodeUnknownError, ... *)
AckCodeOK              == 1
AckCodeUnknownError    == 2
AckCodeNoSuchHost      == 3
AckCodeResolveTimeout  == 4
AckCodeConnectTimeout  == 5
AckCodeUnknownProtocol == 6

lengthRequestID == 5

(* version, total length, request id, protocol, port, address type *)
lengthAllMandatoryFields == 1 + 2 + lengthRequestID + 1 + 2 + 1

(* Header.Marshal, with version 0 as all of the code has it.  The request  *)
(* id is only logged.                                                      *)
Marshal(proto, dst) ==
  <<0>> \o PutUint16(lengthAllMandatoryFields + Len(dst.addr))
        \o [i \in 1..lengthRequestID |-> 0]
        \o <<proto>> \o PutUint16(dst.port) \o <<dst.typ>> \o dst.addr

(* The total length of dst's header is one that a uint16 can hold.         *)
Fits(dst) == lengthAllMandatoryFields + Len(dst.addr) <= Uint16Max

(* Header.FromReader reads three bytes, then the rest of the header.       *)
TotalLen(stream) == GetUint16(SubSeq(stream, 2, 3))
TooShort(stream) == Len(stream) >= 3 /\ TotalLen(stream) < lengthAllMandatoryFields

(* Mutant: the three bytes that were read are not subtracted.              *)
ToReadTwice(stream) ==
  IF Len(stream) < 3 \/ TooShort(stream) THEN 3 ELSE 3 + TotalLen(stream)

(* The bytes FromReader consumes, as far as stream tells. *)
ToRead(stream) == IF Len(stream) < 3 \/ TooShort(stream) THEN 3 ELSE TotalLen(stream)

FromReader(stream) ==
  LET body   == SubSeq(stream, 4, TotalLen(stream))
      fields == SubSeq(body, lengthRequestID + 1, Len(body))
  IN  [protocol |-> fields[1],
       dst |-> AddrPortFrom(fields[4], SubSeq(fields, 5, Len(fields)),
                            GetUint16(SubSeq(fields, 2, 3)))]

=============================================================================
