---------------------------- MODULE BytesReader ----------------------------
(***************************************************************************)
(* bytesReader (cmd/client/utils.go), which reads from a connection into   *)
(* the front of one buffer: a field that is still needed must be copied    *)
(* before the next one is read.                                            *)
(***************************************************************************)
EXTENDS Wire

CONSTANT maxAddrLen   (* the size of the buffer: 256 in the code           *)

IPv4len == 4
IPv6len == 16

ASSUME BufferAssumption == maxAddrLen \in Nat /\ maxAddrLen >= Base /\ maxAddrLen >= IPv6len

(* A reader: what is left of the input, the buffer, and whether a read has *)
(* met the end of the input.                                               *)
NewReader(input) == [in |-> input, b |-> [i \in 1..maxAddrLen |-> 0], err |-> FALSE]

(* bytesReader.ReadBytes; after an error the handshake reads no more. *)
ReadBytes(r, n) ==
  IF r.err \/ Len(r.in) < n
  THEN [in |-> r.in, b |-> r.b, err |-> TRUE]
  ELSE [in  |-> SubSeq(r.in, n + 1, Len(r.in)),
        b   |-> SubSeq(r.in, 1, n) \o SubSeq(r.b, n + 1, maxAddrLen),
        err |-> FALSE]

(* bytesReader.ReadString: a length and as many bytes. *)
ReadString(r) == LET length == ReadBytes(r, 1) IN ReadBytes(length, length.b[1])

=============================================================================
