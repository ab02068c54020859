------------------------------ MODULE Command ------------------------------
(***************************************************************************)
(* The commands of the client, from their arguments to their end:          *)
(* Options.Run (cmd/client/main.go), parseTargetsFile, validateFields and  *)
(* addrGetterForObject (utils.go), portForwarder.listen (forwarder.go) and *)
(* proxyOptions.Run (command_proxy.go), and then the Job, whose module     *)
(* this one shares.                                                        *)
(***************************************************************************)
EXTENDS ServerJob, Ports

CONSTANTS
  Inputs,    (* command lines, with the lines of their targets file        *)
  Objects,   (* what is in the cluster: a function from resources          *)
  IPs,       (* the strings net.ParseIP accepts                            *)
  Busy,      (* local sockets of other processes                           *)
  Refused    (* local sockets the system refuses in any case: an address   *)
             (* that is not one of this host, a port that needs privileges *)

(* A line of a targets file, and the command line: a resource, split at    *)
(* "/", and ports; flags that are not given are "".  The cuts of a line    *)
(* are what remains of it if reading fails within it.                      *)
LineType ==
  [skip : BOOLEAN, badFlag : BOOLEAN, ns : STRING, addr : STRING,
   resource : Seq(STRING), ports : Seq(Arguments)]

ASSUME InputsAssumption ==
  \A i \in Inputs :
    ~i.proxy => /\ i.line \in LineType /\ i.lines \in Seq(LineType)
                /\ \A n \in DOMAIN i.lines : i.cuts[n] \subseteq LineType
                /\ i.ns \in STRING /\ i.address \in STRING

ASSUME ObjectsAssumption == \A resource \in DOMAIN Objects : Objects[resource].ports \in Seq(PortType)

VARIABLES
  cmd,        (* where Run is; "job" from RunServerJob on                  *)
  input,      (* its arguments                                             *)
  targets,    (* the targets still to be resolved                          *)
  forwarders, (* portForwarders                                            *)
  bound       (* the forwarders that listen, by index; 0 is the proxy's     *)

startVars   == <<cmd, input, targets, forwarders, bound>>
jobVars     == vars
commandVars == <<startVars, jobVars>>

defaultListenAddr == "127.0.0.1"

TargetType ==
  [resource : Seq(STRING), ports : Seq(Arguments), namespace : STRING,
   lisAddr : STRING \union {defaultListenAddr}]

CommandTypeOK ==
  /\ TypeOK
  /\ targets \in Seq(TargetType)
  /\ cmd \in {"start", "resolve", "job", "failed", "panicked"}
  /\ bound \subseteq {0} \union DOMAIN forwarders

CommandInit ==
  /\ Init
  /\ cmd = "start"
  /\ input \in Inputs
  /\ targets = <<>>
  /\ forwarders = <<>>
  /\ bound = {}

-----------------------------------------------------------------------------
(* Targets *)

validateFields(line) ==
  IF line.ports = <<>> \/ Len(line.resource) > 2 THEN "error" ELSE
  IF line.resource[1] # "ip"                      THEN "ok" ELSE
  IF Len(line.resource) = 1                       THEN "panic" ELSE
  IF line.resource[2] \notin IPs                  THEN "error" ELSE "ok"

Target(line, ns, addr) ==
  [resource |-> line.resource, ports |-> line.ports, namespace |-> ns, lisAddr |-> addr]

(* Mutant: ns and listenAddr are not reset, and keep what the flags of an  *)
(* earlier line have set.                                                  *)
ParseLineWithoutReset(state, line, defaultNamespace) ==
  LET ns   == IF line.ns = "" THEN state.ns ELSE line.ns
      addr == IF line.addr = "" THEN state.addr ELSE line.addr
  IN  IF line.skip \/ state.result # "ok" THEN state
      ELSE [ns |-> ns, addr |-> addr,
            result |-> IF line.badFlag THEN "error" ELSE validateFields(line),
            ret |-> Append(state.ret, Target(line, ns, addr))]

(* One turn of the loop over the lines.  state has the variables ns and    *)
(* listenAddr, which all lines share through the one flag set.             *)
ParseLine(state, line, defaultNamespace) ==
  LET ns   == IF line.ns = "" THEN defaultNamespace ELSE line.ns
      addr == IF line.addr = "" THEN defaultListenAddr ELSE line.addr
  IN  IF line.skip \/ state.result # "ok" THEN state
      ELSE [ns |-> ns, addr |-> addr,
            result |-> IF line.badFlag THEN "error" ELSE validateFields(line),
            ret |-> Append(state.ret, Target(line, ns, addr))]

parseTargetsFile(lines, defaultNamespace) ==
  LET after[n \in 0..Len(lines)] ==
        IF n = 0
        THEN [ns |-> defaultNamespace, addr |-> defaultListenAddr, result |-> "ok", ret |-> <<>>]
        ELSE ParseLine(after[n - 1], lines[n], defaultNamespace)
  IN  after[Len(lines)]

Finish(result) ==
  /\ cmd' = IF result = "panic" THEN "panicked" ELSE "failed"
  /\ UNCHANGED <<targets, forwarders, bound>>

(* What the scanner may return: the lines up to where reading fails, the   *)
(* last of them cut off there.  Its error is not looked at.                *)
ReadLines(i) ==
  {SubSeq(i.lines, 1, n) : n \in 0..Len(i.lines)} \union
  UNION {{Append(SubSeq(i.lines, 1, n - 1), cut) : cut \in i.cuts[n]} : n \in DOMAIN i.lines}

(* Options.Run up to its targets. *)
ReadTargets ==
  /\ cmd = "start"
  /\ ~input.proxy
  /\ \E lines \in ReadLines(input) :
       LET parsed == parseTargetsFile(lines, input.ns)
           line   == input.line
           valid  == validateFields(line)
       IN  CASE input.file /\ line.resource # <<>> -> Finish("error")
             [] input.file /\ line.resource = <<>> /\ parsed.result # "ok" -> Finish(parsed.result)
             [] ~input.file /\ valid # "ok" -> Finish(valid)
             [] OTHER -> /\ cmd' = "resolve"
                         /\ targets' = IF input.file THEN parsed.ret
                                       ELSE <<Target(line, input.ns, input.address)>>
                         /\ UNCHANGED <<forwarders, bound>>
  /\ UNCHANGED <<input, jobVars>>

(* The namespace, the client set or the file cannot be had.                *)
StartFails ==
  /\ cmd = "start"
  /\ Finish("error")
  /\ UNCHANGED <<input, jobVars>>

-----------------------------------------------------------------------------
(* The loop over the targets                                               *)

Static(addr)      == [static |-> TRUE, namespace |-> "", addr |-> addr]
Dynamic(ns, name) == [static |-> FALSE, namespace |-> ns, addr |-> name]
NoGetter          == Dynamic("", "")

addrGetterForObject(obj, ns) ==
  CASE obj.kind = "pod" \/ (obj.kind = "service" /\ obj.external = "" /\ obj.ip # "None") ->
         IF obj.ip \in IPs THEN Static(obj.ip) ELSE NoGetter
    [] obj.kind = "service" /\ obj.external # "" -> Static(obj.external)
    [] obj.kind = "service" /\ obj.external = "" /\ obj.ip = "None" ->
         IF obj.selector THEN Dynamic(ns, obj.name) ELSE NoGetter
    [] obj.kind = "other" -> NoGetter
    [] OTHER -> Dynamic(ns, obj.name)

(* ip/ and host/ need no object; "host" without a name panics.             *)
IsObject(t) == t.resource[1] \notin {"ip", "host"}
Found(t)    == t.resource \in DOMAIN Objects
ObjectOf(t) == IF IsObject(t) /\ Found(t) THEN Objects[t.resource] ELSE NoObject
Getter(t)   == IF IsObject(t) THEN addrGetterForObject(ObjectOf(t), t.namespace)
                              ELSE Static(t.resource[2])

Resolve ==
  LET t     == Head(targets)
      pairs == Parse(t.ports, ObjectOf(t))
  IN  /\ cmd = "resolve"
      /\ targets # <<>>
      /\ IsObject(t) => Found(t)
      /\ IF t.resource = <<"host">> THEN Finish("panic") ELSE
         IF Getter(t) = NoGetter \/ pairs = <<Invalid>> THEN Finish("error")
         ELSE /\ forwarders' = forwarders \o
                   [i \in DOMAIN pairs |->
                     [addrGetter |-> Getter(t), ports |-> pairs[i], listenAddr |-> t.lisAddr]]
              /\ targets' = Tail(targets)
              /\ UNCHANGED <<cmd, bound>>
      /\ UNCHANGED <<input, jobVars>>

(* The resource builder or NewDynamicAddr returns an error: at the latest  *)
(* if there is no such object.                                             *)
ResolveFails ==
  /\ cmd = "resolve"
  /\ targets # <<>>
  /\ IsObject(Head(targets))
  /\ Finish("error")
  /\ UNCHANGED <<input, jobVars>>

-----------------------------------------------------------------------------
(* Listening                                                               *)

bindAddr(f) == <<f.listenAddr, f.ports.protocol, f.ports.local>>

(* Two sockets cannot be bound at the same time: the system's rule, where  *)
(* the wildcard address stands for all.  For port 0 it chooses a free one. *)
Conflict(a, b) ==
  /\ a[2] = b[2] /\ a[3] = b[3] /\ a[3] # 0
  /\ a[1] = b[1] \/ "0.0.0.0" \in {a[1], b[1]}

(* Whether listen() would succeed if this were the only forwarder.  It     *)
(* knows two protocols; of those an object may declare, "sctp" is an error.*)
Opens(a) ==
  /\ a[2] \in {"tcp", "udp"}
  /\ a \notin Refused
  /\ \A b \in Busy : ~Conflict(a, b)

(* The forwarders whose listen() succeeds: of those that could, each one   *)
(* that does not need the socket of an earlier one.                        *)
Listening(fs) ==
  LET able == {n \in DOMAIN fs : Opens(bindAddr(fs[n]))}
      listens[n \in able] ==
        \A j \in able : j < n /\ listens[j] => ~Conflict(bindAddr(fs[j]), bindAddr(fs[n]))
  IN  {n \in able : listens[n]}

(* Mutant: the errors of listen are only logged.                           *)
ListenUnchecked ==
  /\ cmd = "resolve"
  /\ targets = <<>>
  /\ bound' = Listening(forwarders)
  /\ cmd' = "job"
  /\ UNCHANGED <<input, targets, forwarders, jobVars>>

(* listen() for each of them; one that succeeds is enough.                 *)
Listen ==
  /\ cmd = "resolve"
  /\ targets = <<>>
  /\ bound' = Listening(forwarders)
  /\ cmd' = IF bound' = {} THEN "failed" ELSE "job"
  /\ UNCHANGED <<input, targets, forwarders, jobVars>>

(* proxyOptions.Run: one listener, then the Job.                           *)
ProxyListens ==
  /\ cmd = "start"
  /\ input.proxy
  /\ Opens(input.listen)
  /\ bound' = {0}
  /\ cmd' = "job"
  /\ UNCHANGED <<input, targets, forwarders, jobVars>>

ProxyListenFails ==
  /\ cmd = "start"
  /\ input.proxy
  /\ ~Opens(input.listen)
  /\ Finish("error")
  /\ UNCHANGED <<input, jobVars>>

-----------------------------------------------------------------------------
(* RunServerJob and what follows it, until the command's select ends and   *)
(* its deferred Close has removed the Job.                                 *)
Job(action) == cmd = "job" /\ action /\ UNCHANGED startVars

Start ==
  \/ ReadTargets \/ StartFails
  \/ Resolve \/ ResolveFails \/ Listen
  \/ ProxyListens \/ ProxyListenFails

CommandNext == Start \/ Job(Next)

CommandFairness ==
  /\ WF_commandVars(Start)
  /\ WF_commandVars(Job(Client))
  /\ WF_commandVars(Job(Controllers))
  /\ WF_commandVars(Job(Gone /\ ServerIdle))
  /\ WF_commandVars(Job(PodStarts))

CommandSpec == CommandInit /\ [][CommandNext]_commandVars /\ CommandFairness

-----------------------------------------------------------------------------
(* Properties *)

(* The parser against the meaning of the arguments: what it returns is a   *)
(* thing the argument can mean, and the only one unless it is the name of  *)
(* ports of several containers; it refuses an argument with one meaning    *)
(* only if a port of that number is declared more than once.  (An empty    *)
(* REMOTE is left out: it is looked up as the name of an unnamed port.)    *)
ParseExact ==
  (cmd = "resolve" /\ targets # <<>>) =>
    LET t   == Head(targets)
        obj == ObjectOf(t)
    IN  \A i \in DOMAIN t.ports :
          LET a    == t.ports[i]
              pair == ParseArg(a.text, obj)
          IN  a.remote # <<>> =>
                /\ pair # Invalid => pair \in Meanings(a, obj)
                /\ (pair # Invalid /\ Meanings(a, obj) # {pair}) =>
                      ~IsPort(a.remote) /\ Cardinality(Named(obj, a.remote)) > 1
                /\ (pair = Invalid /\ Cardinality(Meanings(a, obj)) = 1) =>
                      Cardinality(Protocols(obj, (CHOOSE m \in Meanings(a, obj) : TRUE).remote)) > 1

(* The forwarders of one line, by itself: its own flags or the defaults.   *)
Expected(line, ns) ==
  LET t == Target(line, IF line.ns = "" THEN ns ELSE line.ns,
                        IF line.addr = "" THEN defaultListenAddr ELSE line.addr)
  IN  [i \in DOMAIN t.ports |->
        [addrGetter |-> Getter(t), ports |-> ParseArg(t.ports[i].text, ObjectOf(t)),
         listenAddr |-> t.lisAddr]]

(* What the first n lines give, each by itself. *)
ForwardersOf(lines, ns) ==
  LET upTo[n \in 0..Len(lines)] ==
        IF n = 0 THEN <<>>
        ELSE IF lines[n].skip THEN upTo[n - 1]
        ELSE upTo[n - 1] \o Expected(lines[n], ns)
  IN  upTo

(* The comment in parseTargetsFile: "We need to reset the state before     *)
(* parsing the next line".  A command that forwards the targets of a file  *)
(* has one forwarder for each port of each line, in their order, that      *)
(* depends on its own line only; if the file could not be read, its end is *)
(* missing from there on.                                                  *)
ForwardersExact ==
  (cmd = "job" /\ ~input.proxy /\ input.file) =>
    \E lines \in ReadLines(input) : forwarders = ForwardersOf(lines, input.ns)[Len(lines)]

(* Nothing is created in the cluster for a command that cannot forward     *)
(* anything: one with an invalid target or port, that panics while it      *)
(* reads its targets, or whose ports have a protocol or a local address    *)
(* that cannot be listened on.                                             *)
JobNeedsListener ==
  job # "none" =>
    /\ cmd = "job"
    /\ IF input.proxy THEN 0 \in bound /\ Opens(input.listen)
       ELSE \E n \in bound : Opens(bindAddr(forwarders[n]))

=============================================================================
