------------------------------- MODULE Ports -------------------------------
(***************************************************************************)
(* The port parser (pkg/ports/parser.go): LOCAL:REMOTE@PROTOCOL, where     *)
(* only REMOTE is required, and may be the name of a port of an object.    *)
(*                                                                         *)
(* An argument is a sequence of tokens: "@", ":", and what stands between  *)
(* them.  A field is the sequence of tokens between two separators.        *)
(***************************************************************************)
EXTENDS Naturals, Sequences, FiniteSets

CONSTANT Number   (* what the numeric tokens say: a function to Nat        *)

ASSUME NumberAssumption ==
  /\ \A token \in DOMAIN Number : Number[token] \in Nat
  /\ "0" \in DOMAIN Number /\ Number["0"] = 0
  /\ ":" \notin DOMAIN Number

(* p.obj == nil: like an object without ports.                             *)
NoObject == [kind |-> "none", ports |-> <<>>]
Invalid  == [local |-> 0, remote |-> 0, protocol |-> "invalid"]

IndexRune(tokens, rune) ==
  IF \E i \in DOMAIN tokens : tokens[i] = rune
  THEN CHOOSE i \in DOMAIN tokens : tokens[i] = rune /\ \A j \in 1..(i - 1) : tokens[j] # rune
  ELSE 0

(* strconv.ParseUint(s, 10, 16) *)
IsPort(field) == Len(field) = 1 /\ field[1] \in DOMAIN Number /\ Number[field[1]] < 65536

(* getPortsFromObject: the ports of a Service, or of all containers of a   *)
(* pod template, in their order; Names keeps the last port of a name,      *)
(* which two containers may declare, and Protocols all ports of a number.  *)
Named(obj, name) == {i \in DOMAIN obj.ports : obj.ports[i].name = name}
Names(obj, name) == obj.ports[CHOOSE i \in Named(obj, name) : \A j \in Named(obj, name) : j <= i]

(* Mutant: only the first protocol of a port is kept.                      *)
ProtocolsFirst(obj, port) ==
  {i \in DOMAIN obj.ports : /\ obj.ports[i].port = port
                            /\ \A j \in 1..(i - 1) : obj.ports[j].port # port}

Protocols(obj, port) == {i \in DOMAIN obj.ports : obj.ports[i].port = port}

(* What the parts of an argument stand for: a pair of ports and a          *)
(* protocol, or Invalid.                                                   *)
Pair(localStr, remoteStr, proto, obj) ==
  LET remote    == IF IsPort(remoteStr) THEN Number[remoteStr[1]] ELSE Names(obj, remoteStr).port
      protocols == IF IsPort(remoteStr) THEN Protocols(obj, remote) ELSE {}
  IN  IF \/ proto \notin {<<>>, <<"tcp">>, <<"udp">>}
         \/ ~IsPort(remoteStr) /\ Named(obj, remoteStr) = {}
         \/ proto = <<>> /\ Cardinality(protocols) > 1
         \/ localStr # <<>> /\ ~IsPort(localStr)
      THEN Invalid
      ELSE [local    |-> IF localStr = <<>> THEN remote ELSE Number[localStr[1]],
            remote   |-> remote,
            protocol |-> CASE proto # <<>> -> proto[1]
                           [] proto = <<>> /\ ~IsPort(remoteStr) -> Names(obj, remoteStr).protocol
                           [] proto = <<>> /\ protocols # {} ->
                                obj.ports[CHOOSE i \in protocols : \A j \in protocols : i <= j].protocol
                           [] OTHER -> "tcp"]

Colons(tokens) == {i \in DOMAIN tokens : tokens[i] = ":"}

(* One argument, which is split at its first "@" and then at its ":".      *)
ParseArg(tokens, obj) ==
  LET protoIdx  == IndexRune(tokens, "@")
      cut       == protoIdx > 1
      proto     == IF cut THEN SubSeq(tokens, protoIdx + 1, Len(tokens)) ELSE <<>>
      arg       == IF cut THEN SubSeq(tokens, 1, protoIdx - 1) ELSE tokens
      colon     == IndexRune(arg, ":")
      localStr  == CASE colon = 0 -> <<>> [] colon = 1 -> <<"0">> [] OTHER -> SubSeq(arg, 1, colon - 1)
      remoteStr == SubSeq(arg, colon + 1, Len(arg))
  IN  IF Cardinality(Colons(arg)) > 1 THEN Invalid ELSE Pair(localStr, remoteStr, proto, obj)

(* Parser.Parse: the first error is all it returns. *)
Parse(args, obj) ==
  LET pairs == [i \in DOMAIN args |-> ParseArg(args[i].text, obj)]
  IN  IF \E i \in DOMAIN pairs : pairs[i] = Invalid THEN <<Invalid>> ELSE pairs

-----------------------------------------------------------------------------
(* What an argument means, from its parts and not from its text.           *)

Absent == <<"absent">>

(* An argument that is written down: local and proto may be Absent, and    *)
(* may be there but empty.                                                 *)
Arg(local, remote, proto) ==
  [local |-> local, remote |-> remote, proto |-> proto,
   text |-> (IF local = Absent THEN <<>> ELSE local \o <<":">>) \o remote
              \o (IF proto = Absent THEN <<>> ELSE <<"@">> \o proto)]

(* Text can be taken apart in one way only if the parts before a separator *)
(* do not contain it; a local part with a ":" is one that is refused.      *)
Arguments ==
  {a \in [local : Seq(STRING), remote : Seq(STRING), proto : Seq(STRING), text : Seq(STRING)] :
    /\ a = Arg(a.local, a.remote, a.proto)
    /\ \A i \in DOMAIN a.local : a.local[i] # "@"
    /\ \A i \in DOMAIN a.remote : a.remote[i] \notin {":", "@"}}

(* A port that an object declares. *)
PortType == [name : Seq(STRING), port : Nat, protocol : {"tcp", "udp", "sctp"}]

(* The ports of obj, with their protocols, that a remote part may stand    *)
(* for; a number may also stand for a TCP port that obj does not declare.  *)
Remotes(remote, obj) ==
  LET declared == {obj.ports[i] : i \in DOMAIN obj.ports}
      matching == IF IsPort(remote) THEN {p \in declared : p.port = Number[remote[1]]}
                                    ELSE {p \in declared : p.name = remote}
      pairs    == {<<p.port, p.protocol>> : p \in matching}
  IN  IF pairs = {} /\ IsPort(remote) THEN {<<Number[remote[1]], "tcp">>} ELSE pairs

(* All that the argument may mean.  An explicit protocol replaces the      *)
(* declared ones; an empty local port is one the system chooses.           *)
Meanings(a, obj) ==
  IF \/ a.proto \notin {Absent, <<>>, <<"tcp">>, <<"udp">>}
     \/ a.local \notin {Absent, <<>>} /\ ~IsPort(a.local)
  THEN {}
  ELSE {[local    |-> CASE a.local = Absent -> r[1] [] a.local = <<>> -> 0 [] OTHER -> Number[a.local[1]],
         remote   |-> r[1],
         protocol |-> IF a.proto \in {Absent, <<>>} THEN r[2] ELSE a.proto[1]]
        : r \in Remotes(a.remote, obj)}

=============================================================================
