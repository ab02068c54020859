----------------------------- MODULE MCCommand -----------------------------
(* A small instance of Command and of ServerJob for TLC. *)
EXTENDS Command, TLC

AllFaults == {"delete", "lost", "crash"}

MCNumber == "0" :> 0 @@ "8" :> 8 @@ "9" :> 9 @@ "65536" :> 65536

MCIPs == {"1.2.3.4"}

(* Ports that are declared once, that have two protocols, that are         *)
(* declared twice with the same one, that have no name, that have the name *)
(* of a port of another container, and that have a protocol which cannot   *)
(* be forwarded.                                                           *)
P(name, port, protocol) == [name |-> name, port |-> port, protocol |-> protocol]
DNS == <<P(<<"dns">>, 8, "udp"), P(<<"dns-tcp">>, 8, "tcp"), P(<<"web">>, 9, "tcp")>>
Two == <<P(<<>>, 8, "udp"), P(<<>>, 9, "tcp"), P(<<"web">>, 9, "tcp")>>

Web == <<P(<<"web">>, 8, "udp"), P(<<"web">>, 9, "tcp")>>
Assoc == <<P(<<"web">>, 8, "sctp"), P(<<"dns">>, 9, "udp")>>

Obj(kind, name, ip, external, selector, ports) ==
  [kind |-> kind, name |-> name, ip |-> ip, external |-> external,
   selector |-> selector, ports |-> ports]

MCObjects ==
     <<"svc", "a">> :> Obj("service", "a", "1.2.3.4", "", TRUE, DNS)
  @@ <<"svc", "b">> :> Obj("service", "b", "None", "", TRUE, DNS)
  @@ <<"svc", "c">> :> Obj("service", "c", "None", "", FALSE, DNS)
  @@ <<"svc", "d">> :> Obj("service", "d", "", "example.org", FALSE, <<>>)
  @@ <<"e">>        :> Obj("pod", "e", "1.2.3.4", "", FALSE, Two)
  @@ <<"pod", "f">> :> Obj("pod", "f", "1.2.3.4", "", FALSE, Web)
  @@ <<"pod", "k">> :> Obj("pod", "k", "", "", FALSE, Two)
  @@ <<"pod", "s">> :> Obj("pod", "s", "1.2.3.4", "", FALSE, Assoc)
  @@ <<"ds", "g">>  :> Obj("workload", "g", "", "", TRUE, Two)
  @@ <<"cm", "h">>  :> Obj("other", "h", "", "", FALSE, <<>>)

MCBusy == {<<"127.0.0.1", "tcp", 9>>}

(* An address of another host. *)
MCRefused == {<<"1.2.3.4", protocol, port>> : protocol \in {"tcp", "udp"}, port \in {0, 8, 9}}

Args ==
  {Arg(l, r, p) : l \in {Absent, <<>>, <<"8">>, <<"web">>, <<"8", ":", "9">>},
                  r \in {<<>>, <<"8">>, <<"9">>, <<"65536">>, <<"web">>, <<"dns">>},
                  p \in {Absent, <<>>, <<"tcp">>, <<"udp">>, <<"sctp">>}}

Line(resource, ports) ==
  [skip |-> FALSE, badFlag |-> FALSE, ns |-> "", addr |-> "", resource |-> resource, ports |-> ports]

Eight == Arg(Absent, <<"8">>, <<"udp">>)
Nine  == Arg(Absent, <<"9">>, Absent)
Empty == Line(<<>>, <<>>)

Lines ==
  {[Empty EXCEPT !.skip = TRUE],
   [Line(<<"e">>, <<Nine>>) EXCEPT !.badFlag = TRUE],
   [Line(<<"8">>, <<>>) EXCEPT !.ns = "foo"],
   [Line(<<"svc", "a">>, <<Eight>>) EXCEPT !.ns = "foo", !.addr = "0.0.0.0"],
   Line(<<"svc", "b">>, <<Eight, Nine>>),
   [Line(<<"ip", "1.2.3.4">>, <<Nine>>) EXCEPT !.addr = "1.2.3.4"],
   Line(<<"pod", "s">>, <<Arg(<<>>, <<"web">>, Absent)>>), Line(<<"host", "x">>, <<Eight>>)}

(* A line without its last port, or without the protocol of it. *)
Cuts(l) ==
  LET n == Len(l.ports)
  IN  IF l.skip \/ l.badFlag \/ n = 0 THEN {}
      ELSE {[l EXCEPT !.ports = SubSeq(@, 1, n - 1)],
            [l EXCEPT !.ports[n] = Arg(Absent, @.remote, Absent)]}

(* Resources that are refused or panic, and those of all kinds of objects. *)
Resources ==
  DOMAIN MCObjects \union
  {<<"ip">>, <<"ip", "x">>, <<"ip", "1.2.3.4">>, <<"host">>, <<"host", "x">>, <<"a", "b", "c">>, <<"svc", "none">>}

In(file, line, lines) ==
  [proxy |-> FALSE, file |-> file, line |-> line, lines |-> lines,
   cuts |-> [n \in DOMAIN lines |-> Cuts(lines[n])], ns |-> "default", address |-> defaultListenAddr]

MCInputs ==
       {In(FALSE, Line(<<"svc", "a">>, <<a>>), <<>>) : a \in Args}
  \union {In(FALSE, Line(<<"e">>, <<a>>), <<>>) : a \in Args}
  \union {In(FALSE, Line(<<"pod", "f">>, <<a>>), <<>>) : a \in Args}
  \union {In(FALSE, Line(<<"pod", "s">>, <<a>>), <<>>) : a \in Args}
  \union {[In(FALSE, Line(<<"pod", "s">>, <<a>>), <<>>) EXCEPT !.address = "1.2.3.4"] : a \in Args}
  \union {In(FALSE, Line(<<"host", "x">>, <<a>>), <<>>) : a \in {Nine, Arg(Absent, <<"web">>, Absent)}}
  \union {In(FALSE, Line(r, <<Eight, Nine, Eight>>), <<>>) : r \in Resources}
  \union {In(TRUE, Empty, <<l, k>>) : l, k \in Lines}
  \union {In(TRUE, Line(<<"e">>, <<Nine>>), <<>>)}
  \union {[proxy |-> TRUE, listen |-> <<addr, "tcp", port>>] :
            addr \in {"127.0.0.1", "1.2.3.4"}, port \in {8, 9}}
=============================================================================
