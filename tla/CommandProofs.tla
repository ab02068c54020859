--------------------------- MODULE CommandProofs ---------------------------
(***************************************************************************)
(* Proofs about Command, for any command lines, targets files, objects and *)
(* faults: a command creates a Job only when it can forward something and  *)
(* leaves none behind when it returns, what the parser makes of a port     *)
(* argument is what the argument means, and the forwarders of a targets    *)
(* file are those of its lines, each by itself.                            *)
(***************************************************************************)
EXTENDS Command, FiniteSetTheorems, SequenceTheorems, WellFoundedInduction, TLAPS

(* Some local address is listened on, and can be.                          *)
Forwards ==
  IF input.proxy THEN 0 \in bound /\ Opens(input.listen)
  ELSE \E n \in bound : Opens(bindAddr(forwarders[n]))

(* There is no Job before RunServerJob has created it, RunServerJob is not *)
(* called before there is a listener, and a client that has returned       *)
(* leaves nothing from which the cluster could make a Job active again.    *)
CommandInv ==
  /\ cmd # "job" => client = "create"
  /\ client = "create" => job = "none"
  /\ cmd = "resolve" => ~input.proxy
  /\ cmd = "job" => Forwards
  /\ ExitCleansUp

(* What the steps of the client and of the cluster do to the Job. *)
LEMMA JobStep ==
  ASSUME Next, client = "create" => job = "none", ExitCleansUp
  PROVE  (client = "create" => job = "none")' /\ ExitCleansUp'
<1> USE DEF ExitCleansUp
<1>1. CASE CreateJob \/ CreateJobFails \/ CreateAnswerLost
  BY <1>1 DEF CreateJob, CreateJobFails, CreateAnswerLost, cluster
<1>2. CASE OpenWatch \/ WaitReceives \/ WaitFails
  BY <1>2 DEF OpenWatch, WaitReceives, WaitFails, cluster
<1>3. CASE Dial \/ DialFails \/ RunEnds
  BY <1>3 DEF Dial, DialFails, RunEnds, cluster
<1>4. CASE RemoveJob \/ RemoveJobFails
  BY <1>4 DEF RemoveJob, RemoveJobFails, cluster
<1>5. CASE Interrupt \/ Crash \/ ConnLost
  BY <1>5 DEF Interrupt, Crash, ConnLost, cluster
<1>6. CASE PodCreated \/ PodCollected \/ PodStarts \/ PodFails \/ ServerIdle
  BY <1>6 DEF PodCreated, PodCollected, PodStarts, PodFails, ServerIdle
<1>7. CASE JobFinishes \/ JobExpires
  BY <1>7 DEF JobFinishes, JobExpires
<1> QED
  BY <1>1, <1>2, <1>3, <1>4, <1>5, <1>6, <1>7 DEF Next, Client, Controllers

(* Until the Job, no step of the command touches the cluster, and only one *)
(* that has a listener goes on to the Job.                                 *)
LEMMA StartStep ==
  ASSUME Start, cmd = "resolve" => ~input.proxy
  PROVE  /\ UNCHANGED jobVars
         /\ cmd # "job"
         /\ cmd' = "resolve" => ~input'.proxy
         /\ cmd' = "job" => Forwards'
<1> USE DEF Finish
<1>1. CASE ReadTargets
  <2>1. UNCHANGED jobVars /\ cmd = "start" /\ ~input.proxy /\ input' = input
    BY <1>1 DEF ReadTargets
  <2>2. cmd' # "job"
    BY <1>1 DEF ReadTargets
  <2> QED BY <2>1, <2>2
<1>2. CASE StartFails \/ ResolveFails \/ ProxyListenFails
  BY <1>2 DEF StartFails, ResolveFails, ProxyListenFails
<1>3. CASE Resolve
  <2>1. UNCHANGED jobVars /\ cmd = "resolve" /\ input' = input
    BY <1>3 DEF Resolve
  <2>2. cmd' # "job"
    BY <1>3, <2>1 DEF Resolve
  <2> QED BY <2>1, <2>2
<1>4. CASE Listen
  <2>1. /\ UNCHANGED jobVars /\ cmd = "resolve"
        /\ UNCHANGED <<input, forwarders>>
        /\ bound' = Listening(forwarders)
        /\ cmd' = "job" => Listening(forwarders) # {}
    BY <1>4 DEF Listen
  <2>2. ASSUME NEW n \in Listening(forwarders)
        PROVE  Opens(bindAddr(forwarders[n]))
    BY DEF Listening
  <2> QED BY <2>1, <2>2 DEF Forwards
<1>5. CASE ProxyListens
  <2>1. /\ UNCHANGED jobVars /\ cmd = "start"
        /\ UNCHANGED <<input, forwarders>>
        /\ input.proxy /\ cmd' = "job"
        /\ bound' = {0} /\ Opens(input.listen)
    BY <1>5 DEF ProxyListens
  <2> QED BY <2>1 DEF Forwards
<1> QED
  BY <1>1, <1>2, <1>3, <1>4, <1>5 DEF Start

LEMMA CommandInvariant == CommandSpec => []CommandInv
<1>1. CommandInit => CommandInv
  BY DEF CommandInit, Init, CommandInv, ExitCleansUp
<1>2. CommandInv /\ [CommandNext]_commandVars => CommandInv'
  <2> SUFFICES ASSUME CommandInv, [CommandNext]_commandVars PROVE CommandInv'
    OBVIOUS
  <2> USE DEF CommandInv
  <2>1. CASE Start
    <3>1. UNCHANGED <<client, job>>
      BY <2>1, StartStep DEF jobVars, vars, cluster
    <3> QED BY <2>1, <3>1, StartStep DEF ExitCleansUp
  <2>2. CASE Job(Next)
    <3>1. Next /\ cmd = "job" /\ UNCHANGED <<cmd, input, forwarders, bound>>
      BY <2>2 DEF Job, startVars
    <3>2. (client = "create" => job = "none")' /\ ExitCleansUp'
      BY <3>1, JobStep
    <3> QED BY <3>1, <3>2 DEF Forwards
  <2>3. CASE UNCHANGED commandVars
    BY <2>3 DEF commandVars, startVars, jobVars, vars, cluster, ExitCleansUp, Forwards
  <2> QED BY <2>1, <2>2, <2>3 DEF CommandNext
<1> QED
  BY <1>1, <1>2, PTL DEF CommandSpec

(* A command that returns, through any error path of RunServerJob or after *)
(* an interrupt in any of its steps, leaves no Job behind, unless the API  *)
(* server did not answer Create or Delete.                                 *)
THEOREM CommandCleansUp == CommandSpec => []ExitCleansUp
<1>1. CommandInv => ExitCleansUp
  BY DEF CommandInv
<1> QED
  BY <1>1, CommandInvariant, PTL

(* A Job exists only for a command that has come to RunServerJob, and that *)
(* listens on an address and for a protocol that can be listened on.       *)
THEOREM JobsHaveListeners == CommandSpec => []JobNeedsListener
<1>1. CommandInv => JobNeedsListener
  BY DEF CommandInv, JobNeedsListener, Forwards
<1> QED
  BY <1>1, CommandInvariant, PTL

-----------------------------------------------------------------------------
(* Types *)

LEMMA JobTypes == TypeOK /\ Next => TypeOK'
<1> SUFFICES ASSUME TypeOK, Next PROVE TypeOK'
  OBVIOUS
<1> DEFINE Events == {"pending", "running", "ended", "deleted"}
<1>0. <<>> \in Seq(Events)
  BY EmptySeq
<1> USE DEF TypeOK, PodPhases
<1>1. CASE CreateJob \/ CreateJobFails \/ CreateAnswerLost
  BY <1>1 DEF CreateJob, CreateJobFails, CreateAnswerLost, cluster, watchVars
<1>2. CASE OpenWatch
  <2>1. events' \in Seq(Events)
    <3>1. \A x \in Events : <<x>> \in Seq(Events)
      OBVIOUS
    <3> QED BY <1>0, <1>2, <3>1 DEF OpenWatch
  <2> QED BY <1>2, <2>1 DEF OpenWatch, cluster
<1>3. CASE WaitReceives
  <2>1. client' \in {"dial", "cleanup", "wait"}
    BY <1>3 DEF WaitReceives
  <2>2. watching' = (client' = "wait")
    BY <1>3 DEF WaitReceives
  <2>3. events' \in Seq(Events)
    BY <1>3 DEF WaitReceives
  <2> QED BY <1>3, <2>1, <2>2, <2>3 DEF WaitReceives, cluster
<1>4. CASE WaitFails
  BY <1>0, <1>4 DEF WaitFails, cluster
<1>5. CASE Dial \/ DialFails \/ RunEnds
  BY <1>5 DEF Dial, DialFails, RunEnds, cluster, watchVars
<1>6. CASE RemoveJob \/ RemoveJobFails \/ JobFinishes \/ JobExpires
  BY <1>6 DEF RemoveJob, RemoveJobFails, JobFinishes, JobExpires, cluster, watchVars
<1>7. CASE Interrupt \/ Crash \/ ConnLost
  BY <1>0, <1>7 DEF Interrupt, Crash, ConnLost, cluster, watchVars
<1>8. ASSUME NEW phase \in PodPhases, PodBecomes(phase), UNCHANGED <<client, interrupted, job, watching>>
      PROVE  TypeOK'
  <2>1. events' \in Seq(Events)
    BY <1>8 DEF PodBecomes
  <2>2. stream' \in BOOLEAN
    BY <1>8 DEF PodBecomes
  <2> QED BY <1>8, <2>1, <2>2 DEF PodBecomes
<1>9. CASE PodCreated \/ PodCollected \/ PodStarts \/ PodFails \/ ServerIdle
  BY <1>8, <1>9 DEF PodCreated, PodCollected, PodStarts, PodFails, ServerIdle
<1> QED
  BY <1>1, <1>2, <1>3, <1>4, <1>5, <1>6, <1>7, <1>9 DEF Next, Client, Controllers

-----------------------------------------------------------------------------
LEMMA Induction ==
  ASSUME NEW S, 0 \in S, \A n \in Nat : n \in S => n + 1 \in S
  PROVE  Nat \subseteq S
<1> SUFFICES ASSUME Nat \ S # {} PROVE FALSE
  OBVIOUS
<1> DEFINE Less == OpToRel(<, Nat)
           Others == Nat \ S
<1>1. IsWellFoundedOn(Less, Nat)
  BY NatLessThanWellFounded
<1>2. \A m, n \in Nat : m < n => <<m, n>> \in Less
  BY DEF OpToRel
<1>3. Others \subseteq Nat /\ Others # {}
  OBVIOUS
<1> HIDE DEF Less
<1>4. PICK n \in Others : \A m \in Others : ~(<<m, n>> \in Less)
  BY <1>1, <1>3, WFMin
<1>5. n \in Nat /\ n # 0
  OBVIOUS
<1>6. n - 1 \in Nat /\ n - 1 < n /\ (n - 1) + 1 = n
  BY <1>5
<1>7. n - 1 \in S
  BY <1>2, <1>4, <1>5, <1>6
<1> QED
  BY <1>5, <1>6, <1>7

(* The states of the loop over the lines of a targets file. *)
LoopStart(ns) == [ns |-> ns, addr |-> defaultListenAddr, result |-> "ok", ret |-> <<>>]

IsLoop(after, lines, ns) ==
  after = [n \in 0..Len(lines) |->
            IF n = 0 THEN LoopStart(ns) ELSE ParseLine(after[n - 1], lines[n], ns)]

LEMMA LoopRuns ==
  ASSUME NEW lines, Len(lines) \in Nat, NEW ns
  PROVE  \E after : IsLoop(after, lines, ns) /\ parseTargetsFile(lines, ns) = after[Len(lines)]
<1> DEFINE Runs(n, g) == g = [m \in 0..n |-> IF m = 0 THEN LoopStart(ns)
                                             ELSE ParseLine(g[m - 1], lines[m], ns)]
           S == {n \in Nat : \E g : Runs(n, g)}
<1>1. 0 \in S
  <2> DEFINE g == [m \in 0..0 |-> LoopStart(ns)]
  <2>1. Runs(0, g)
    OBVIOUS
  <2> QED BY <2>1
<1>2. ASSUME NEW n \in Nat, n \in S PROVE n + 1 \in S
  <2>1. PICK g : Runs(n, g)
    BY <1>2
  <2> DEFINE h == [m \in 0..(n + 1) |-> IF m = n + 1 THEN ParseLine(g[n], lines[n + 1], ns) ELSE g[m]]
  <2>2. ASSUME NEW m \in 0..(n + 1)
        PROVE  h[m] = IF m = 0 THEN LoopStart(ns) ELSE ParseLine(h[m - 1], lines[m], ns)
    <3>1. CASE m = n + 1
      <4>1. m - 1 = n /\ n \in 0..(n + 1) /\ n # n + 1 /\ m # 0
        BY <3>1
      <4>2. h[n] = g[n] /\ h[m] = ParseLine(g[n], lines[n + 1], ns)
        BY <3>1, <4>1
      <4> QED BY <3>1, <4>1, <4>2
    <3>2. CASE m # n + 1
      <4>1. m \in 0..n /\ (m # 0 => m - 1 \in 0..n)
        BY <3>2
      <4>2. h[m] = g[m] /\ (m # 0 => h[m - 1] = g[m - 1])
        BY <4>1, <3>2
      <4>3. g[m] = IF m = 0 THEN LoopStart(ns) ELSE ParseLine(g[m - 1], lines[m], ns)
        BY <4>1, <2>1
      <4> QED BY <4>1, <4>2, <4>3
    <3> QED BY <3>1, <3>2
  <2>3. Runs(n + 1, h)
    BY <2>2
  <2> HIDE DEF h, Runs
  <2>4. n + 1 \in Nat
    OBVIOUS
  <2> QED BY <2>3, <2>4
<1> HIDE DEF S
<1>3. Len(lines) \in S
  BY <1>1, <1>2, Induction
<1>4. \E g : Runs(Len(lines), g)
  BY <1>3 DEF S
<1> QED
  BY <1>4 DEF parseTargetsFile, IsLoop, LoopStart

(* ForwardersOf, as the function it is. *)
LEMMA Upwards ==
  ASSUME NEW lines, Len(lines) \in Nat, NEW ns
  PROVE  /\ ForwardersOf(lines, ns)[0] = <<>>
         /\ \A n \in 1..Len(lines) :
              ForwardersOf(lines, ns)[n] = IF lines[n].skip THEN ForwardersOf(lines, ns)[n - 1]
                                           ELSE ForwardersOf(lines, ns)[n - 1] \o Expected(lines[n], ns)
<1> DEFINE Next1(x, m) == IF lines[m].skip THEN x ELSE x \o Expected(lines[m], ns)
           Runs(n, g) == g = [m \in 0..n |-> IF m = 0 THEN <<>>
                                             ELSE IF lines[m].skip THEN g[m - 1]
                                             ELSE g[m - 1] \o Expected(lines[m], ns)]
           S == {n \in Nat : \E g : Runs(n, g)}
<1>1. 0 \in S
  <2> DEFINE g == [m \in 0..0 |-> <<>>]
  <2>1. Runs(0, g)
    OBVIOUS
  <2> QED BY <2>1
<1>2. ASSUME NEW n \in Nat, n \in S PROVE n + 1 \in S
  <2>1. PICK g : Runs(n, g)
    BY <1>2
  <2> DEFINE h == [m \in 0..(n + 1) |-> IF m = n + 1 THEN Next1(g[n], n + 1) ELSE g[m]]
  <2>2. ASSUME NEW m \in 0..(n + 1)
        PROVE  h[m] = IF m = 0 THEN <<>> ELSE Next1(h[m - 1], m)
    <3>1. CASE m = n + 1
      <4>1. m - 1 = n /\ n \in 0..(n + 1) /\ n # n + 1 /\ m # 0
        BY <3>1
      <4> HIDE DEF Next1
      <4>2. h[n] = g[n] /\ h[m] = Next1(g[n], n + 1)
        BY <3>1, <4>1
      <4> QED BY <3>1, <4>1, <4>2
    <3>2. CASE m # n + 1
      <4>1. m \in 0..n /\ (m # 0 => m - 1 \in 0..n)
        BY <3>2
      <4>2. g[m] = IF m = 0 THEN <<>> ELSE Next1(g[m - 1], m)
        BY <4>1, <2>1
      <4> HIDE DEF Next1
      <4>3. h[m] = g[m] /\ (m # 0 => h[m - 1] = g[m - 1])
        BY <4>1, <3>2
      <4> QED BY <4>1, <4>2, <4>3
    <3> QED BY <3>1, <3>2
  <2>3. Runs(n + 1, h)
    <3> HIDE DEF Next1
    <3>1. h = [m \in 0..(n + 1) |-> IF m = 0 THEN <<>> ELSE Next1(h[m - 1], m)]
      BY <2>2
    <3> HIDE DEF h
    <3> QED BY <3>1 DEF Next1
  <2> HIDE DEF h, Runs
  <2>4. n + 1 \in Nat
    OBVIOUS
  <2> QED BY <2>3, <2>4
<1> HIDE DEF S
<1>3. Len(lines) \in S
  BY <1>1, <1>2, Induction
<1>4. \E g : Runs(Len(lines), g)
  BY <1>3 DEF S
<1>5. Runs(Len(lines), ForwardersOf(lines, ns))
  BY <1>4 DEF ForwardersOf
<1> QED
  BY <1>5

TargetOf(line, ns) ==
  Target(line, IF line.ns = "" THEN ns ELSE line.ns,
               IF line.addr = "" THEN defaultListenAddr ELSE line.addr)

ForwardersFor(t) ==
  [i \in DOMAIN t.ports |->
    [addrGetter |-> Getter(t), ports |-> ParseArg(t.ports[i].text, ObjectOf(t)),
     listenAddr |-> t.lisAddr]]

(* h is what the loop over the targets ts makes of the forwarders fs, one  *)
(* target after the other.                                                 *)
Ahead(h, fs, ts, end) ==
  /\ h[0] = fs /\ h[Len(ts)] = end
  /\ \A i \in 1..Len(ts) : h[i] = h[i - 1] \o ForwardersFor(ts[i])

LEMMA ExpectedIs ==
  ASSUME NEW line, NEW ns PROVE Expected(line, ns) = ForwardersFor(TargetOf(line, ns))
BY DEF Expected, ForwardersFor, TargetOf

(* What one turn of the loop over the lines does. *)
LEMMA OneLine ==
  ASSUME NEW x, NEW line, NEW ns
  PROVE  LET y == ParseLine(x, line, ns)
         IN  /\ line.skip \/ x.result # "ok" => y = x
             /\ ~line.skip /\ x.result = "ok" => y.ret = Append(x.ret, TargetOf(line, ns))
BY DEF ParseLine, TargetOf

LEMMA TargetTypes ==
  ASSUME NEW line \in LineType, NEW ns \in STRING
  PROVE  TargetOf(line, ns) \in TargetType
BY DEF TargetOf, Target, LineType, TargetType

LEMMA AppendAhead ==
  ASSUME NEW ts \in Seq(TargetType), NEW t \in TargetType, NEW h, NEW fs, NEW end, Ahead(h, fs, ts, end)
  PROVE  \E k : Ahead(k, fs, Append(ts, t), end \o ForwardersFor(t))
<1> DEFINE n == Len(ts)
           k == [i \in 0..(n + 1) |-> IF i = n + 1 THEN end \o ForwardersFor(t) ELSE h[i]]
           us == Append(ts, t)
<1>1. n \in Nat /\ Len(us) = n + 1 /\ us[n + 1] = t /\ \A i \in 1..n : us[i] = ts[i]
  BY LenProperties, AppendProperties
<1> HIDE DEF n, us
<1>2. k[0] = fs /\ k[n + 1] = end \o ForwardersFor(t)
  BY <1>1 DEF Ahead
<1>3. ASSUME NEW i \in 1..(n + 1) PROVE k[i] = k[i - 1] \o ForwardersFor(us[i])
  <2>1. CASE i = n + 1
    <3>1. i - 1 = n /\ n \in 0..(n + 1) /\ n # n + 1
      BY <1>1, <2>1
    <3>2. k[n] = h[n]
      BY <3>1
    <3>3. h[n] = end
      BY DEF Ahead, n
    <3>4. k[i - 1] = end
      BY <3>1, <3>2, <3>3
    <3> QED BY <1>1, <1>2, <2>1, <3>4
  <2>2. CASE i \in 1..n
    <3>1. i \in 0..(n + 1) /\ i # n + 1 /\ i - 1 \in 0..(n + 1) /\ i - 1 # n + 1
      BY <1>1, <2>2
    <3>2. k[i] = h[i] /\ k[i - 1] = h[i - 1]
      BY <3>1
    <3>3. h[i] = h[i - 1] \o ForwardersFor(ts[i])
      BY <2>2 DEF Ahead, n
    <3> QED BY <1>1, <2>2, <3>2, <3>3
  <2>3. i = n + 1 \/ i \in 1..n
    BY <1>1
  <2> QED BY <2>1, <2>2, <2>3
<1> HIDE DEF k
<1>4. Ahead(k, fs, us, end \o ForwardersFor(t))
  BY <1>1, <1>2, <1>3 DEF Ahead
<1> QED BY <1>4 DEF us

(* What the loop has made of the lines of a file. *)
LEMMA FileRead ==
  ASSUME NEW lines \in Seq(LineType), NEW ns \in STRING
  PROVE  LET parsed == parseTargetsFile(lines, ns)
         IN  /\ parsed.ret \in Seq(TargetType)
             /\ parsed.result = "ok" =>
                  \E h : Ahead(h, <<>>, parsed.ret, ForwardersOf(lines, ns)[Len(lines)])
<1> DEFINE k == Len(lines)
<1>1. Len(lines) \in Nat /\ k \in Nat /\ k = Len(lines)
  BY LenProperties
<1>2. \A i \in 1..Len(lines) : lines[i] \in LineType
  BY ElementOfSeq
<1> HIDE DEF k
<1>4. PICK after : IsLoop(after, lines, ns) /\ parseTargetsFile(lines, ns) = after[k]
  BY <1>1, LoopRuns
<1>5. after[0] = LoopStart(ns) /\ \A m \in 1..k : after[m] = ParseLine(after[m - 1], lines[m], ns)
  <2>1. after[0] = LoopStart(ns)
    BY <1>1, <1>4 DEF IsLoop
  <2>2. ASSUME NEW m \in 1..k PROVE after[m] = ParseLine(after[m - 1], lines[m], ns)
    <3>1. m \in 0..k /\ m # 0
      BY <1>1
    <3> QED BY <1>1, <1>4, <3>1 DEF IsLoop
  <2> QED BY <2>1, <2>2
<1> DEFINE up      == ForwardersOf(lines, ns)
           Good(m) == /\ after[m].ret \in Seq(TargetType)
                      /\ after[m].result = "ok" => \E h : Ahead(h, <<>>, after[m].ret, up[m])
           S == {m \in Nat : m <= k => Good(m)}
<1>6. up[0] = <<>> /\ \A m \in 1..k : up[m] = IF lines[m].skip THEN up[m - 1]
                                              ELSE up[m - 1] \o ForwardersFor(TargetOf(lines[m], ns))
  <2>1. \A m \in 1..k : m \in 1..Len(lines)
    BY <1>1
  <2> QED BY <1>1, <2>1, Upwards, ExpectedIs
<1> HIDE DEF up
<1>7. 0 \in S
  <2> DEFINE h == [i \in 0..0 |-> <<>>]
  <2>1. after[0].ret = <<>> /\ Len(<<>>) = 0
    BY <1>5 DEF LoopStart
  <2>2. Ahead(h, <<>>, <<>>, <<>>)
    BY <2>1 DEF Ahead
  <2> HIDE DEF h
  <2>3. Good(0)
    BY <1>6, <2>1, <2>2
  <2> QED BY <2>3
<1>8. ASSUME NEW n \in Nat, n \in S PROVE n + 1 \in S
  <2> SUFFICES ASSUME n + 1 <= k PROVE Good(n + 1)
    OBVIOUS
  <2> DEFINE m == n + 1
             t == TargetOf(lines[m], ns)
  <2>1. Good(n) /\ m \in 1..k /\ m - 1 = n /\ m \in 1..Len(lines)
    BY <1>1, <1>8
  <2> HIDE DEF m
  <2>2. after[m] = ParseLine(after[n], lines[m], ns)
    BY <1>5, <2>1
  <2>3. t \in TargetType
    BY <1>2, <2>1, TargetTypes
  <2> HIDE DEF t
  <2>4. CASE lines[m].skip \/ after[n].result # "ok"
    <3>1. after[m] = after[n]
      BY <2>2, <2>4, OneLine
    <3>2. after[n].result = "ok" => up[m] = up[n]
      BY <1>6, <2>1, <2>4
    <3> QED BY <2>1, <3>1, <3>2 DEF m
  <2>5. CASE ~lines[m].skip /\ after[n].result = "ok"
    <3>1. after[m].ret = Append(after[n].ret, t)
      BY <2>2, <2>5, OneLine DEF t
    <3>2. up[m] = up[n] \o ForwardersFor(t)
      BY <1>6, <2>1, <2>5 DEF t
    <3>3. PICK h : Ahead(h, <<>>, after[n].ret, up[n])
      BY <2>1, <2>5
    <3>4. after[n].ret \in Seq(TargetType)
      BY <2>1
    <3>5. PICK rs \in Seq(TargetType) : rs = after[n].ret
      BY <3>4
    <3>6. \E g : Ahead(g, <<>>, Append(rs, t), up[n] \o ForwardersFor(t))
      BY <2>3, <3>3, <3>5, AppendAhead
    <3>7. Append(rs, t) \in Seq(TargetType)
      BY <2>3, AppendProperties
    <3>8. Good(m)
      BY <3>1, <3>2, <3>5, <3>6, <3>7
    <3> QED BY <3>8 DEF m
  <2> QED BY <2>4, <2>5
<1> HIDE DEF S
<1>9. k \in S
  BY <1>1, <1>7, <1>8, Induction
<1>10. Good(k)
  BY <1>1, <1>9 DEF S
<1> QED BY <1>1, <1>4, <1>10 DEF up

(* What the scanner returns are lines. *)
LEMMA LinesRead ==
  ASSUME input \in Inputs, ~input.proxy, NEW ls \in ReadLines(input)
  PROVE  ls \in Seq(LineType)
<1>1. /\ input.lines \in Seq(LineType)
      /\ \A n \in DOMAIN input.lines : input.cuts[n] \subseteq LineType
  BY InputsAssumption
<1>2. PICK lines \in Seq(LineType) : lines = input.lines
  BY <1>1
<1>3. ASSUME NEW n \in 0..Len(lines) PROVE SubSeq(lines, 1, n) \in Seq(LineType)
  <2>1. Len(lines) \in Nat /\ n \in Int /\ 1 \in Int
    BY LenProperties
  <2>2. \A i \in 1..n : lines[i] \in LineType
    BY <2>1, ElementOfSeq
  <2> QED BY <2>1, <2>2, SubSeqProperties
<1>4. ASSUME NEW n \in DOMAIN lines, NEW cut \in input.cuts[n]
      PROVE  Append(SubSeq(lines, 1, n - 1), cut) \in Seq(LineType)
  <2>1. n - 1 \in 0..Len(lines) /\ n \in DOMAIN input.lines
    BY <1>2, LenProperties
  <2>2. cut \in LineType
    BY <1>1, <2>1
  <2>3. SubSeq(lines, 1, n - 1) \in Seq(LineType)
    BY <1>3, <2>1
  <2> QED BY <2>2, <2>3, AppendProperties
<1>5. \/ \E n \in 0..Len(lines) : ls = SubSeq(lines, 1, n)
      \/ \E n \in DOMAIN lines : \E cut \in input.cuts[n] : ls = Append(SubSeq(lines, 1, n - 1), cut)
  BY <1>2 DEF ReadLines
<1> QED
  BY <1>3, <1>4, <1>5

(* Where the targets come from. *)
LEMMA TargetsRead ==
  ASSUME input \in Inputs, ReadTargets
  PROVE  \/ \E result : Finish(result)
         \/ /\ cmd' = "resolve" /\ targets' \in Seq(TargetType)
            /\ forwarders' = forwarders
            /\ input.file => \E ls \in ReadLines(input) : \E h :
                               Ahead(h, <<>>, targets', ForwardersOf(ls, input.ns)[Len(ls)])
<1>1. /\ input.line \in LineType /\ input.lines \in Seq(LineType)
      /\ input.ns \in STRING /\ input.address \in STRING /\ ~input.proxy
  BY InputsAssumption DEF ReadTargets
<1>2. PICK ns \in STRING : ns = input.ns
  BY <1>1
<1>3. PICK ls \in ReadLines(input) :
        LET parsed == parseTargetsFile(ls, ns)
        IN  \/ \E result : Finish(result)
            \/ /\ cmd' = "resolve" /\ forwarders' = forwarders
               /\ input.file => parsed.result = "ok"
               /\ targets' = IF input.file THEN parsed.ret
                             ELSE <<Target(input.line, ns, input.address)>>
  BY <1>2 DEF ReadTargets
<1>4. Target(input.line, ns, input.address) \in TargetType
  BY <1>1, <1>2 DEF Target, LineType, TargetType
<1>5. <<Target(input.line, ns, input.address)>> \in Seq(TargetType)
  BY <1>4
<1>6. PICK lines \in Seq(LineType) : lines = ls
  BY <1>1, LinesRead
<1> QED
  BY <1>2, <1>3, <1>5, <1>6, FileRead

(* Until a command listens, nothing is bound; when it starts, there are no *)
(* forwarders.                                                             *)
CommandTypeInv ==
  /\ CommandTypeOK
  /\ input \in Inputs
  /\ cmd = "resolve" => ~input.proxy
  /\ cmd \in {"start", "resolve"} => bound = {}
  /\ cmd = "start" => forwarders = <<>>

LEMMA StartTypes == CommandTypeInv /\ Start => CommandTypeInv'
<1> SUFFICES ASSUME CommandTypeInv, Start PROVE CommandTypeInv'
  OBVIOUS
<1>0. TypeOK' /\ cmd \in {"start", "resolve"} /\ bound = {} /\ input' = input
  <2>1. UNCHANGED jobVars
    BY StartStep DEF CommandTypeInv
  <2>2. cmd \in {"start", "resolve"}
    BY DEF Start, ReadTargets, StartFails, Resolve, ResolveFails, Listen, ProxyListens, ProxyListenFails
  <2>3. input' = input
    BY DEF Start, ReadTargets, StartFails, Resolve, ResolveFails, Listen, ProxyListens, ProxyListenFails
  <2> QED
    BY <2>1, <2>2, <2>3 DEF CommandTypeInv, CommandTypeOK, TypeOK, jobVars, vars, cluster, watchVars
<1>1. ASSUME NEW result, Finish(result)
      PROVE  cmd' \in {"failed", "panicked"} /\ bound' = bound /\ targets' = targets
  BY <1>1 DEF Finish
<1>2. CASE ReadTargets
  <2>1. \/ cmd' \in {"failed", "panicked"} /\ targets' = targets
        \/ cmd' = "resolve" /\ targets' \in Seq(TargetType)
    BY <1>2, <1>1, TargetsRead DEF CommandTypeInv
  <2>2. bound' = bound /\ ~input.proxy
    BY <1>1, <1>2 DEF ReadTargets
  <2> QED BY <1>0, <2>1, <2>2 DEF CommandTypeInv, CommandTypeOK
<1>3. CASE StartFails \/ ResolveFails \/ ProxyListenFails
  <2>1. cmd' \in {"failed", "panicked"} /\ bound' = bound /\ targets' = targets
    BY <1>1, <1>3 DEF StartFails, ResolveFails, ProxyListenFails
  <2> QED BY <1>0, <2>1 DEF CommandTypeInv, CommandTypeOK
<1>4. CASE Resolve
  <2>1. cmd' \in {"resolve", "failed", "panicked"} /\ bound' = bound /\ cmd = "resolve"
    BY <1>1, <1>4 DEF Resolve
  <2>2. targets # <<>> /\ (targets' = targets \/ targets' = Tail(targets))
    BY <1>1, <1>4 DEF Resolve
  <2>3. targets' \in Seq(TargetType)
    BY <2>2, HeadTailProperties DEF CommandTypeInv, CommandTypeOK
  <2> QED BY <1>0, <2>1, <2>3 DEF CommandTypeInv, CommandTypeOK
<1>5. CASE Listen
  <2>1. Listening(forwarders) \subseteq DOMAIN forwarders
    BY DEF Listening
  <2>2. /\ cmd' \in {"failed", "job"} /\ bound' = Listening(forwarders)
        /\ forwarders' = forwarders /\ targets' = targets
    BY <1>5 DEF Listen
  <2> QED BY <1>0, <2>1, <2>2 DEF CommandTypeInv, CommandTypeOK
<1>6. CASE ProxyListens
  BY <1>0, <1>6 DEF ProxyListens, CommandTypeInv, CommandTypeOK
<1> QED
  BY <1>2, <1>3, <1>4, <1>5, <1>6 DEF Start

LEMMA TypeInvariant == CommandSpec => []CommandTypeInv
<1>1. CommandInit => CommandTypeInv
  <2>1. <<>> \in Seq(TargetType) /\ <<>> \in Seq({"pending", "running", "ended", "deleted"})
    BY EmptySeq
  <2> QED
    BY <2>1 DEF CommandInit, Init, CommandTypeInv, CommandTypeOK, TypeOK, PodPhases
<1>2. CommandTypeInv /\ [CommandNext]_commandVars => CommandTypeInv'
  <2> SUFFICES ASSUME CommandTypeInv, [CommandNext]_commandVars PROVE CommandTypeInv'
    OBVIOUS
  <2>1. CASE Start
    BY <2>1, StartTypes
  <2>2. CASE Job(Next)
    <3>1. Next /\ UNCHANGED <<cmd, input, targets, forwarders, bound>>
      BY <2>2 DEF Job, startVars
    <3> QED BY <3>1, JobTypes DEF CommandTypeInv, CommandTypeOK
  <2>3. CASE UNCHANGED commandVars
    BY <2>3 DEF commandVars, startVars, jobVars, vars, cluster, watchVars, CommandTypeInv,
                CommandTypeOK, TypeOK
  <2> QED BY <2>1, <2>2, <2>3 DEF CommandNext
<1> QED
  BY <1>1, <1>2, PTL DEF CommandSpec

(* Every variable of a command and of its Job keeps its type; the sockets  *)
(* that are bound belong to forwarders.                                    *)
THEOREM TypeCorrect == CommandSpec => []CommandTypeOK
<1>1. CommandTypeInv => CommandTypeOK
  BY DEF CommandTypeInv
<1> QED
  BY <1>1, TypeInvariant, PTL

-----------------------------------------------------------------------------
(* The forwarders of a targets file *)

(* What the loop over the targets of a file will have made when it is      *)
(* through is what the lines that were read give, each by itself.          *)
FileInv ==
  (cmd \in {"resolve", "job"} /\ ~input.proxy /\ input.file) =>
    /\ cmd = "job" => targets = <<>>
    /\ \E ls \in ReadLines(input) : \E h :
         Ahead(h, forwarders, targets, ForwardersOf(ls, input.ns)[Len(ls)])

(* A turn of the loop over the targets. *)
LEMMA OneTarget ==
  ASSUME Resolve, targets \in Seq(TargetType), cmd' # "failed", cmd' # "panicked"
  PROVE  /\ cmd = "resolve" /\ cmd' = cmd /\ targets # <<>> /\ targets' = Tail(targets)
         /\ forwarders' = forwarders \o ForwardersFor(Head(targets))
<1> DEFINE t     == Head(targets)
           pairs == Parse(t.ports, ObjectOf(t))
<1>1. ASSUME NEW result, Finish(result) PROVE FALSE
  BY <1>1 DEF Finish
<1>2. /\ cmd = "resolve" /\ targets # <<>> /\ pairs # <<Invalid>>
      /\ forwarders' = forwarders \o
           [i \in DOMAIN pairs |-> [addrGetter |-> Getter(t), ports |-> pairs[i], listenAddr |-> t.lisAddr]]
      /\ targets' = Tail(targets)
      /\ cmd' = cmd
  BY <1>1 DEF Resolve
<1>3. pairs = [i \in DOMAIN t.ports |-> ParseArg(t.ports[i].text, ObjectOf(t))]
  BY <1>2 DEF Parse
<1> HIDE DEF t, pairs
<1>4. [i \in DOMAIN pairs |-> [addrGetter |-> Getter(t), ports |-> pairs[i], listenAddr |-> t.lisAddr]]
        = ForwardersFor(t)
  BY <1>3 DEF ForwardersFor
<1> QED BY <1>2, <1>4 DEF t

LEMMA TailAhead ==
  ASSUME NEW ts \in Seq(TargetType), ts # <<>>, NEW h, NEW fs, NEW end, Ahead(h, fs, ts, end)
  PROVE  \E k : Ahead(k, fs \o ForwardersFor(Head(ts)), Tail(ts), end)
<1> DEFINE n  == Len(ts)
           us == Tail(ts)
           k  == [i \in 0..(n - 1) |-> h[i + 1]]
<1>1. n \in Nat /\ n # 0 /\ us \in Seq(TargetType) /\ Len(us) = n - 1 /\ Head(ts) = ts[1]
      /\ \A i \in 1..(n - 1) : us[i] = ts[i + 1]
  BY LenProperties, EmptySeq, HeadTailProperties
<1>2. /\ h[0] = fs /\ h[n] = end
      /\ \A i \in 1..n : h[i] = h[i - 1] \o ForwardersFor(ts[i])
  BY DEF Ahead
<1> HIDE DEF n, us
<1>3. k[0] = fs \o ForwardersFor(ts[1])
  <2>1. 0 \in 0..(n - 1) /\ 1 \in 1..n /\ 0 + 1 = 1 /\ 1 - 1 = 0
    BY <1>1
  <2> QED BY <1>2, <2>1
<1>4. k[n - 1] = end
  <2>1. n - 1 \in 0..(n - 1) /\ (n - 1) + 1 = n
    BY <1>1
  <2> QED BY <1>2, <2>1
<1>5. ASSUME NEW i \in 1..(n - 1) PROVE k[i] = k[i - 1] \o ForwardersFor(us[i])
  <2>1. i \in 0..(n - 1) /\ i - 1 \in 0..(n - 1) /\ (i - 1) + 1 = i /\ i + 1 \in 1..n /\ (i + 1) - 1 = i
    BY <1>1
  <2> QED BY <1>1, <1>2, <2>1
<1> HIDE DEF k
<1>6. Ahead(k, fs \o ForwardersFor(Head(ts)), us, end)
  BY <1>1, <1>3, <1>4, <1>5 DEF Ahead
<1> QED BY <1>6 DEF us

LEMMA FileStep ==
  CommandTypeInv /\ CommandTypeInv' /\ FileInv /\ [CommandNext]_commandVars => FileInv'
<1> SUFFICES ASSUME CommandTypeInv, CommandTypeInv', FileInv, [CommandNext]_commandVars,
                    cmd' \in {"resolve", "job"}, ~input'.proxy, input'.file
             PROVE  /\ cmd' = "job" => targets' = <<>>
                    /\ \E ls \in ReadLines(input') : \E h :
                         Ahead(h, forwarders', targets', ForwardersOf(ls, input'.ns)[Len(ls)])
  BY DEF FileInv
<1>0. /\ input \in Inputs /\ targets \in Seq(TargetType)
  BY DEF CommandTypeInv, CommandTypeOK
<1>1. ASSUME NEW result, Finish(result) PROVE FALSE
  BY <1>1 DEF Finish
<1>2. CASE ReadTargets
  <2>1. input' = input /\ cmd = "start"
    BY <1>2 DEF ReadTargets
  <2>2. /\ cmd' = "resolve" /\ forwarders' = forwarders
        /\ input.file => \E ls \in ReadLines(input) : \E h :
                           Ahead(h, <<>>, targets', ForwardersOf(ls, input.ns)[Len(ls)])
    BY <1>0, <1>1, <1>2, TargetsRead
  <2>3. forwarders' = <<>> /\ input.file
    BY <2>1, <2>2 DEF CommandTypeInv
  <2>4. PICK ls \in ReadLines(input) : \E h :
          Ahead(h, <<>>, targets', ForwardersOf(ls, input.ns)[Len(ls)])
    BY <2>2, <2>3
  <2>5. \E h : Ahead(h, forwarders', targets', ForwardersOf(ls, input'.ns)[Len(ls)])
    BY <2>1, <2>3, <2>4
  <2> QED BY <2>1, <2>2, <2>5
<1>3. CASE StartFails \/ ResolveFails \/ ProxyListenFails
  BY <1>1, <1>3 DEF StartFails, ResolveFails, ProxyListenFails
<1>4. CASE Resolve
  <2>1. input' = input
    BY <1>4 DEF Resolve
  <2>2. /\ cmd = "resolve" /\ cmd' = cmd /\ targets # <<>> /\ targets' = Tail(targets)
        /\ forwarders' = forwarders \o ForwardersFor(Head(targets))
    BY <1>0, <1>4, OneTarget
  <2>3. PICK ls \in ReadLines(input) : \E h :
          Ahead(h, forwarders, targets, ForwardersOf(ls, input.ns)[Len(ls)])
    BY <2>1, <2>2 DEF FileInv
  <2> PICK h : Ahead(h, forwarders, targets, ForwardersOf(ls, input.ns)[Len(ls)])
    BY <2>3
  <2>4. \E k : Ahead(k, forwarders \o ForwardersFor(Head(targets)), Tail(targets),
                     ForwardersOf(ls, input.ns)[Len(ls)])
    BY <1>0, <2>2, <2>3, TailAhead
  <2> QED BY <2>1, <2>2, <2>3, <2>4
<1>5. CASE Listen
  BY <1>5 DEF Listen, FileInv
<1>6. CASE ProxyListens
  BY <1>6 DEF ProxyListens
<1>7. CASE Job(Next)
  BY <1>7 DEF Job, startVars, FileInv
<1>8. CASE UNCHANGED commandVars
  BY <1>8 DEF commandVars, startVars, FileInv
<1> QED
  BY <1>2, <1>3, <1>4, <1>5, <1>6, <1>7, <1>8 DEF CommandNext, Start

(* The forwarders of a targets file, for any file: one for each port of    *)
(* each line that was read, in order, with what this line alone says.      *)
THEOREM FileForwarders == CommandSpec => []ForwardersExact
<1>1. CommandInit => FileInv
  BY DEF CommandInit, FileInv
<1>2. FileInv => ForwardersExact
  <2> SUFFICES ASSUME FileInv, cmd = "job", ~input.proxy, input.file
               PROVE  \E ls \in ReadLines(input) : forwarders = ForwardersOf(ls, input.ns)[Len(ls)]
    BY DEF ForwardersExact
  <2>1. targets = <<>> /\ Len(<<>>) = 0
    BY EmptySeq DEF FileInv
  <2>2. PICK ls \in ReadLines(input) : \E h :
          Ahead(h, forwarders, targets, ForwardersOf(ls, input.ns)[Len(ls)])
    BY DEF FileInv
  <2> QED BY <2>1, <2>2 DEF Ahead
<1> QED
  BY <1>1, <1>2, FileStep, TypeInvariant, PTL DEF CommandSpec

-----------------------------------------------------------------------------
(* What a text consists of. *)
Token == STRING \union {":", "@"}

LEMMA IndexIs ==
  ASSUME NEW s \in Seq(Token), NEW r \in Token, NEW k \in 1..Len(s), s[k] = r,
         \A j \in 1..(k - 1) : s[j] # r
  PROVE  IndexRune(s, r) = k
<1>0. Len(s) \in Nat /\ DOMAIN s = 1..Len(s)
  BY LenProperties
<1>1. k \in DOMAIN s /\ s[k] = r /\ \A j \in 1..(k - 1) : s[j] # r
  BY <1>0
<1>2. ASSUME NEW i \in DOMAIN s, s[i] = r, \A j \in 1..(i - 1) : s[j] # r
      PROVE  i = k
  <2>1. i \in Int /\ k \in Int /\ i >= 1 /\ k >= 1
    BY <1>0
  <2>2. ~(i < k)
    <3>1. i < k => i \in 1..(k - 1)
      BY <2>1
    <3> QED BY <1>2, <3>1
  <2>3. ~(k < i)
    <3>1. k < i => k \in 1..(i - 1)
      BY <2>1
    <3> QED BY <1>1, <1>2, <3>1
  <2> QED BY <2>1, <2>2, <2>3
<1> QED
  BY <1>1, <1>2 DEF IndexRune

LEMMA IndexNone ==
  ASSUME NEW s \in Seq(Token), NEW r \in Token, \A j \in DOMAIN s : s[j] # r
  PROVE  IndexRune(s, r) = 0
BY DEF IndexRune

(* The text of an argument before its protocol. *)
Front(a) == (IF a.local = Absent THEN <<>> ELSE a.local \o <<":">>) \o a.remote

LEMMA Joined ==
  ASSUME NEW s \in Seq(Token), NEW t \in Seq(Token)
  PROVE  /\ s \o t \in Seq(Token)
         /\ Len(s) \in Nat /\ Len(t) \in Nat
         /\ Len(s \o t) = Len(s) + Len(t)
         /\ \A i \in 1..Len(s) : (s \o t)[i] = s[i]
         /\ \A i \in 1..Len(t) : (s \o t)[Len(s) + i] = t[i]
         /\ SubSeq(s \o t, 1, Len(s)) = s
         /\ SubSeq(s \o t, Len(s) + 1, Len(s) + Len(t)) = t
<1>1. Len(s) \in Nat /\ Len(t) \in Nat
  BY LenProperties
<1>2. /\ s \o t \in Seq(Token)
      /\ Len(s \o t) = Len(s) + Len(t)
      /\ \A i \in 1..(Len(s) + Len(t)) : (s \o t)[i] = IF i <= Len(s) THEN s[i] ELSE t[i - Len(s)]
  BY ConcatProperties
<1>3. ASSUME NEW i \in 1..Len(t) PROVE (s \o t)[Len(s) + i] = t[i]
  <2>1. Len(s) + i \in 1..(Len(s) + Len(t)) /\ ~(Len(s) + i <= Len(s)) /\ (Len(s) + i) - Len(s) = i
    BY <1>1
  <2> QED BY <1>2, <2>1
<1>4. ASSUME NEW i \in 1..Len(s) PROVE (s \o t)[i] = s[i]
  <2>1. i \in 1..(Len(s) + Len(t)) /\ i <= Len(s)
    BY <1>1
  <2> QED BY <1>2, <2>1
<1> DEFINE u == s \o t
<1>5. SubSeq(u, 1, Len(s)) = s
  <2>1. \A i \in 1..Len(s) : u[i] \in Token
    BY <1>1, <1>2, <1>4, ElementOfSeq
  <2>2. SubSeq(u, 1, Len(s)) \in Seq(Token) /\ Len(SubSeq(u, 1, Len(s))) = Len(s)
        /\ \A i \in 1..Len(s) : SubSeq(u, 1, Len(s))[i] = u[i]
    <3> HIDE DEF u
    <3> QED BY <1>1, <2>1, SubSeqProperties
  <2> QED BY <1>4, <2>2, SeqEqual
<1>6. SubSeq(u, Len(s) + 1, Len(s) + Len(t)) = t
  <2> DEFINE m == Len(s) + 1
             n == Len(s) + Len(t)
             v == SubSeq(u, m, n)
  <2>0. m \in Nat /\ n \in Nat /\ m..n \subseteq 1..Len(u) /\ (m <= n => n - m + 1 = Len(t)) /\ (~(m <= n) => Len(t) = 0)
    BY <1>1, <1>2
  <2>1. \A i \in m..n : u[i] \in Token
    BY <1>2, <2>0, ElementOfSeq
  <2>2. v \in Seq(Token) /\ Len(v) = (IF m <= n THEN n - m + 1 ELSE 0)
        /\ \A i \in 1..(n - m + 1) : v[i] = u[m + i - 1]
    <3> HIDE DEF u, m, n
    <3> QED BY <2>0, <2>1, SubSeqProperties
  <2>3. Len(v) = Len(t) /\ n - m + 1 = Len(t)
    BY <1>1, <2>0, <2>2
  <2>4. \A i \in 1..Len(t) : v[i] = t[i]
    <3>1. ASSUME NEW i \in 1..Len(t) PROVE v[i] = t[i]
      <4>1. m + i - 1 = Len(s) + i
        BY <1>1
      <4> QED BY <2>2, <2>3, <4>1, <1>3
    <3> QED BY <3>1
  <2> QED BY <2>2, <2>3, <2>4, SeqEqual
<1> QED BY <1>1, <1>2, <1>3, <1>4, <1>5, <1>6

LEMMA StringTokens == Seq(STRING) \subseteq Seq(Token)
<1>1. ASSUME NEW s \in Seq(STRING) PROVE s \in Seq(Token)
  BY DEF Token
<1> QED BY <1>1

LEMMA OneSeq ==
  ASSUME NEW r \in Token
  PROVE \E o \in Seq(Token) : o = <<r>> /\ Len(o) = 1 /\ o[1] = r
<1>1. \A S : \A x \in S : <<x>> \in Seq(S) /\ Len(<<x>>) = 1 /\ <<x>>[1] = x
  OBVIOUS
<1> QED BY <1>1

(* A rune that s does not contain is found right behind s. *)
LEMMA FoundBehind ==
  ASSUME NEW s \in Seq(Token), NEW r \in Token, NEW t \in Seq(Token),
         \A i \in DOMAIN s : s[i] # r
  PROVE  LET u == s \o (<<r>> \o t) IN
         /\ u \in Seq(Token)
         /\ IndexRune(u, r) = Len(s) + 1
         /\ Len(u) = Len(s) + 1 + Len(t)
         /\ SubSeq(u, 1, Len(s)) = s
         /\ SubSeq(u, Len(s) + 2, Len(u)) = t
         /\ \A i \in 1..Len(t) : u[Len(s) + 1 + i] = t[i]
         /\ u[Len(s) + 1] = r
<1>1. PICK o \in Seq(Token) : o = <<r>> /\ Len(o) = 1 /\ o[1] = r
  BY OneSeq
<1> DEFINE v == o \o t
           u == s \o v
<1>2. /\ v \in Seq(Token) /\ Len(v) = 1 + Len(t) /\ v[1] = r /\ Len(t) \in Nat
      /\ \A i \in 1..Len(t) : v[1 + i] = t[i]
      /\ SubSeq(v, 2, 1 + Len(t)) = t
  <2>1. /\ v \in Seq(Token) /\ Len(t) \in Nat /\ Len(v) = Len(o) + Len(t)
        /\ \A i \in 1..Len(o) : v[i] = o[i]
        /\ \A i \in 1..Len(t) : v[Len(o) + i] = t[i]
        /\ SubSeq(v, Len(o) + 1, Len(o) + Len(t)) = t
    BY Joined
  <2>2. 1 \in 1..Len(o) /\ Len(o) + 1 = 2
    BY <1>1
  <2> QED BY <1>1, <2>1, <2>2
<1> HIDE DEF v
<1>3. /\ u \in Seq(Token) /\ Len(s) \in Nat /\ Len(u) = Len(s) + Len(v)
      /\ \A i \in 1..Len(s) : u[i] = s[i]
      /\ \A i \in 1..Len(v) : u[Len(s) + i] = v[i]
      /\ SubSeq(u, 1, Len(s)) = s
  BY <1>2, Joined
<1> HIDE DEF u
<1>4. DOMAIN s = 1..Len(s)
  BY LenProperties
<1>5. 1 \in 1..Len(v) /\ Len(s) + 1 \in 1..Len(u) /\ \A i \in 1..((Len(s) + 1) - 1) : i \in 1..Len(s)
  BY <1>2, <1>3
<1>6. u[Len(s) + 1] = r
  BY <1>2, <1>3, <1>5
<1>7. IndexRune(u, r) = Len(s) + 1
  <2>1. \A i \in 1..((Len(s) + 1) - 1) : u[i] # r
    BY <1>3, <1>4, <1>5
  <2> QED BY <1>3, <1>5, <1>6, <2>1, IndexIs
<1>8. ASSUME NEW i \in 1..Len(t) PROVE u[Len(s) + 1 + i] = t[i]
  <2>1. 1 + i \in 1..Len(v) /\ Len(s) + (1 + i) = Len(s) + 1 + i
    BY <1>2, <1>3
  <2> QED BY <1>2, <1>3, <2>1
<1>9. Len(u) = Len(s) + 1 + Len(t)
  BY <1>2, <1>3
<1>10. SubSeq(u, Len(s) + 2, Len(u)) = t
  <2> DEFINE x == SubSeq(u, Len(s) + 2, Len(u))
  <2>1. Len(u) \in Int /\ Len(s) + 2 \in Int /\ \A i \in (Len(s) + 2)..Len(u) : i \in 1..Len(u)
    BY <1>2, <1>3, <1>9
  <2>2. \A i \in (Len(s) + 2)..Len(u) : u[i] \in Token
    BY <1>3, <2>1, ElementOfSeq
  <2>3. /\ x \in Seq(Token)
        /\ Len(x) = IF Len(s) + 2 <= Len(u) THEN Len(u) - (Len(s) + 2) + 1 ELSE 0
        /\ \A i \in 1..(Len(u) - (Len(s) + 2) + 1) : x[i] = u[(Len(s) + 2) + i - 1]
    BY <2>1, <2>2, SubSeqProperties
  <2>4. Len(x) = Len(t) /\ Len(u) - (Len(s) + 2) + 1 = Len(t)
    BY <1>2, <1>3, <1>9, <2>3
  <2>5. ASSUME NEW i \in 1..Len(t) PROVE x[i] = t[i]
    <3>1. (Len(s) + 2) + i - 1 = Len(s) + 1 + i
      BY <1>2, <1>3
    <3> QED BY <1>8, <2>3, <2>4, <3>1
  <2> QED BY <2>3, <2>4, <2>5, SeqEqual
<1> QED BY <1>1, <1>3, <1>6, <1>7, <1>8, <1>9, <1>10 DEF u, v

(* Where the parser finds the protocol of an argument. *)
LEMMA ProtocolCut ==
  ASSUME NEW a \in Arguments, a.remote # <<>>
  PROVE  /\ a.local \in Seq(Token) /\ a.remote \in Seq(Token) /\ a.proto \in Seq(Token)
         /\ Front(a) \in Seq(Token) /\ Len(Front(a)) \in Nat /\ Len(Front(a)) > 0
         /\ a.proto = Absent => a.text = Front(a) /\ IndexRune(a.text, "@") = 0
         /\ a.proto # Absent =>
              /\ IndexRune(a.text, "@") = Len(Front(a)) + 1
              /\ SubSeq(a.text, 1, Len(Front(a))) = Front(a)
              /\ SubSeq(a.text, Len(Front(a)) + 2, Len(a.text)) = a.proto
<1>1. /\ a.local \in Seq(Token) /\ a.remote \in Seq(Token) /\ a.proto \in Seq(Token)
      /\ a.text = Front(a) \o (IF a.proto = Absent THEN <<>> ELSE <<"@">> \o a.proto)
  <2>1. /\ a.local \in Seq(STRING) /\ a.remote \in Seq(STRING) /\ a.proto \in Seq(STRING)
        /\ a = Arg(a.local, a.remote, a.proto)
    BY DEF Arguments
  <2>2. Arg(a.local, a.remote, a.proto).text
          = Front(a) \o (IF a.proto = Absent THEN <<>> ELSE <<"@">> \o a.proto)
    BY DEF Arg, Front
  <2>3. a.text = Arg(a.local, a.remote, a.proto).text
    BY <2>1
  <2>4. Seq(STRING) \subseteq Seq(Token)
    BY StringTokens
  <2> QED BY <2>1, <2>2, <2>3, <2>4
<1>2. PICK l, r, p \in Seq(Token) : l = a.local /\ r = a.remote /\ p = a.proto
  BY <1>1
<1>3. (\A i \in DOMAIN l : l[i] # "@") /\ (\A i \in DOMAIN r : r[i] # "@")
  BY <1>2 DEF Arguments
<1>4. PICK c \in Seq(Token) : c = <<":">> /\ Len(c) = 1 /\ c[1] = ":"
  <2>1. PICK colon \in Token : colon = ":"
    BY DEF Token
  <2> QED BY <2>1, OneSeq
<1>5. Len(r) \in Nat /\ Len(r) > 0 /\ DOMAIN r = 1..Len(r) /\ DOMAIN l = 1..Len(l) /\ Len(l) \in Nat
  BY <1>2, LenProperties, EmptySeq
<1>6. PICK f \in Seq(Token) : f = Front(a) /\ Len(f) \in Nat /\ Len(f) > 0 /\ \A i \in DOMAIN f : f[i] # "@"
  <2>1. CASE a.local = Absent
    <3>1. Front(a) = r
      BY <1>1, <1>2, <2>1, ConcatEmptySeq DEF Front
    <3> QED BY <1>3, <1>5, <3>1
  <2>2. CASE a.local # Absent
    <3> DEFINE h == l \o c
               f == h \o r
    <3>1. /\ h \in Seq(Token) /\ Len(h) = Len(l) + Len(c)
          /\ \A i \in 1..Len(l) : h[i] = l[i]
          /\ \A i \in 1..Len(c) : h[Len(l) + i] = c[i]
      BY Joined
    <3>2. ASSUME NEW i \in 1..Len(h) PROVE h[i] # "@"
      <4>1. CASE i \in 1..Len(l)
        BY <1>3, <1>5, <3>1, <4>1
      <4>2. CASE i = Len(l) + 1
        <5>1. 1 \in 1..Len(c)
          BY <1>4
        <5> QED BY <1>4, <3>1, <4>2, <5>1
      <4> QED BY <1>4, <1>5, <3>1, <4>1, <4>2
    <3> HIDE DEF h
    <3>3. /\ f \in Seq(Token) /\ Len(h) \in Nat /\ Len(f) = Len(h) + Len(r)
          /\ \A i \in 1..Len(h) : f[i] = h[i]
          /\ \A i \in 1..Len(r) : f[Len(h) + i] = r[i]
      BY <3>1, Joined
    <3> HIDE DEF f
    <3>4. ASSUME NEW i \in 1..Len(f) PROVE f[i] # "@"
      <4>1. CASE i \in 1..Len(h)
        BY <3>2, <3>3, <4>1
      <4>2. CASE i \notin 1..Len(h)
        <5>1. PICK j \in 1..Len(r) : i = Len(h) + j
          <6>1. i - Len(h) \in 1..Len(r) /\ i = Len(h) + (i - Len(h))
            BY <1>5, <3>3, <4>2
          <6> QED BY <6>1
        <5> QED BY <1>3, <1>5, <3>3, <5>1
      <4> QED BY <4>1, <4>2
    <3>5. f = Front(a)
      BY <1>2, <1>4, <2>2 DEF Front, f, h
    <3>6. DOMAIN f = 1..Len(f) /\ Len(f) \in Nat /\ Len(f) > 0
      BY <1>5, <3>3, LenProperties
    <3> QED BY <3>3, <3>4, <3>5, <3>6
  <2> QED BY <2>1, <2>2
<1>9. PICK at \in Token : at = "@"
  BY DEF Token
<1>7. CASE a.proto = Absent
  <2>1. a.text = f
    BY <1>1, <1>6, <1>7, ConcatEmptySeq
  <2>2. IndexRune(f, "@") = 0
    BY <1>6, <1>9, IndexNone
  <2> QED BY <1>1, <1>6, <1>7, <2>1, <2>2
<1>8. CASE a.proto # Absent
  <2> DEFINE u == f \o (<<at>> \o p)
  <2>1. a.text = u
    BY <1>1, <1>2, <1>6, <1>8, <1>9
  <2>2. /\ u \in Seq(Token) /\ IndexRune(u, at) = Len(f) + 1
        /\ SubSeq(u, 1, Len(f)) = f
        /\ SubSeq(u, Len(f) + 2, Len(u)) = p
    BY <1>6, <1>9, FoundBehind
  <2> HIDE DEF u
  <2> QED BY <1>1, <1>2, <1>6, <1>8, <1>9, <2>1, <2>2
<1> QED BY <1>7, <1>8

(* Where it finds the local part. *)

LEMMA LocalCut ==
  ASSUME NEW a \in Arguments, a.remote # <<>>
  PROVE  /\ a.local = Absent =>
              /\ Front(a) = a.remote /\ IndexRune(Front(a), ":") = 0
              /\ ~(Cardinality(Colons(Front(a))) > 1)
         /\ a.local # Absent /\ (\A i \in DOMAIN a.local : a.local[i] # ":") =>
              /\ IndexRune(Front(a), ":") = Len(a.local) + 1
              /\ SubSeq(Front(a), 1, Len(a.local)) = a.local
              /\ SubSeq(Front(a), Len(a.local) + 2, Len(Front(a))) = a.remote
              /\ ~(Cardinality(Colons(Front(a))) > 1)
         /\ a.local # Absent /\ (\E i \in DOMAIN a.local : a.local[i] = ":") =>
              Cardinality(Colons(Front(a))) > 1
<1>1. /\ a.local \in Seq(Token) /\ a.remote \in Seq(Token)
      /\ \A i \in DOMAIN a.remote : a.remote[i] # ":"
  <2>1. \A i \in DOMAIN a.remote : a.remote[i] # ":"
    BY DEF Arguments
  <2> QED BY <2>1, ProtocolCut
<1>2. PICK l, r \in Seq(Token) : l = a.local /\ r = a.remote
  BY <1>1
<1>3. (\A i \in DOMAIN r : r[i] # ":")
  BY <1>1, <1>2
<1>4. PICK c \in Seq(Token) : c = <<":">> /\ Len(c) = 1 /\ c[1] = ":"
  <2>1. PICK colon \in Token : colon = ":"
    BY DEF Token
  <2> QED BY <2>1, OneSeq
<1>5. Len(r) \in Nat /\ DOMAIN r = 1..Len(r) /\ DOMAIN l = 1..Len(l) /\ Len(l) \in Nat
  BY LenProperties
<1>6. CASE a.local = Absent
  <2>1. Front(a) = r
    BY <1>1, <1>2, <1>6, ConcatEmptySeq DEF Front
  <2>2. Colons(r) = {}
    BY <1>3 DEF Colons
  <2>3. ~(Cardinality(Colons(r)) > 1)
    <3>1. Cardinality(Colons(r)) = 0
      BY <2>2, FS_EmptySet
    <3> QED BY <3>1
  <2>4. IndexRune(r, ":") = 0
    <3>1. PICK colon \in Token : colon = ":"
      BY DEF Token
    <3> QED BY <1>3, <3>1, IndexNone
  <2> QED BY <1>2, <1>6, <2>1, <2>3, <2>4
<1>7. CASE a.local # Absent
  <2> DEFINE f == l \o (c \o r)
  <2>1. f = Front(a)
    <3>1. Front(a) = (l \o c) \o r
      BY <1>2, <1>4, <1>7 DEF Front
    <3>2. (l \o c) \o r = l \o (c \o r)
      BY ConcatAssociative
    <3> QED BY <3>1, <3>2
  <2>2. /\ f \in Seq(Token) /\ Len(c \o r) = 1 + Len(r) /\ Len(f) = Len(l) + (1 + Len(r))
        /\ \A i \in 1..Len(l) : f[i] = l[i]
        /\ f[Len(l) + 1] = ":"
        /\ \A i \in 1..Len(r) : f[Len(l) + 1 + i] = r[i]
    <3> DEFINE v == c \o r
    <3>1. /\ v \in Seq(Token) /\ Len(v) = Len(c) + Len(r)
          /\ \A i \in 1..Len(c) : v[i] = c[i]
          /\ \A i \in 1..Len(r) : v[Len(c) + i] = r[i]
      BY Joined
    <3>2. 1 \in 1..Len(c) /\ 1 \in 1..Len(v)
      BY <1>4, <1>5, <3>1
    <3> HIDE DEF v
    <3>3. /\ l \o v \in Seq(Token) /\ Len(l \o v) = Len(l) + Len(v)
          /\ \A i \in 1..Len(l) : (l \o v)[i] = l[i]
          /\ \A i \in 1..Len(v) : (l \o v)[Len(l) + i] = v[i]
      BY <3>1, Joined
    <3>4. (l \o v)[Len(l) + 1] = ":"
      BY <1>4, <3>1, <3>2, <3>3
    <3>5. ASSUME NEW i \in 1..Len(r) PROVE (l \o v)[Len(l) + 1 + i] = r[i]
      <4>1. 1 + i \in 1..Len(v) /\ Len(l) + (1 + i) = Len(l) + 1 + i
        BY <1>4, <1>5, <3>1
      <4> QED BY <1>4, <3>1, <3>3, <4>1
    <3> QED BY <1>4, <3>1, <3>3, <3>4, <3>5 DEF v
  <2> HIDE DEF f
  <2>3. DOMAIN f = 1..Len(f) /\ Len(f) \in Nat
    BY <2>2, LenProperties
  <2>4. Len(l) + 1 \in Colons(f)
    BY <1>5, <2>2, <2>3 DEF Colons
  <2>5. IsFiniteSet(Colons(f))
    <3>1. IsFiniteSet(1..Len(f))
      BY <2>3, FS_Interval
    <3>2. Colons(f) \subseteq 1..Len(f)
      BY <2>3 DEF Colons
    <3> QED BY <3>1, <3>2, FS_Subset
  <2>6. CASE \A i \in DOMAIN l : l[i] # ":"
    <3>1. ASSUME NEW i \in Colons(f) PROVE i = Len(l) + 1
      <4>1. i \in 1..Len(f) /\ f[i] = ":"
        BY <2>3 DEF Colons
      <4>2. CASE i \in 1..Len(l)
        BY <1>5, <2>2, <2>6, <4>1, <4>2
      <4>3. CASE i > Len(l) + 1
        <5>1. i - (Len(l) + 1) \in 1..Len(r) /\ Len(l) + 1 + (i - (Len(l) + 1)) = i
          BY <1>5, <2>2, <4>1, <4>3
        <5> QED BY <1>3, <1>5, <2>2, <4>1, <5>1
      <4> QED BY <1>5, <4>1, <4>2, <4>3
    <3>2. Colons(f) = {Len(l) + 1}
      BY <2>4, <3>1
    <3>3. Cardinality(Colons(f)) = 1
      BY <3>2, FS_Singleton
    <3>4. /\ IndexRune(f, ":") = Len(l) + 1
          /\ SubSeq(f, 1, Len(l)) = l
          /\ SubSeq(f, Len(l) + 2, Len(f)) = r
      <4>1. PICK colon \in Token : colon = ":"
        BY DEF Token
      <4>2. f = l \o (<<colon>> \o r)
        BY <1>4, <4>1 DEF f
      <4> QED BY <2>6, <4>1, <4>2, FoundBehind
    <3>5. ~(Cardinality(Colons(f)) > 1)
      BY <3>3
    <3> QED BY <1>2, <1>7, <2>1, <2>6, <3>4, <3>5
  <2>7. CASE \E i \in DOMAIN l : l[i] = ":"
    <3>1. PICK i \in 1..Len(l) : l[i] = ":"
      BY <1>5, <2>7
    <3>2. i \in Colons(f) /\ i # Len(l) + 1
      BY <1>5, <2>2, <2>3, <3>1 DEF Colons
    <3>3. Cardinality({i, Len(l) + 1}) = 2 /\ {i, Len(l) + 1} \subseteq Colons(f)
      <4>1. IsFiniteSet({i}) /\ Cardinality({i}) = 1 /\ Len(l) + 1 \notin {i}
        BY <3>2, FS_Singleton
      <4>2. Cardinality({i} \union {Len(l) + 1}) = 1 + 1
        <5>1. \A x : x \notin {i} => Cardinality({i} \union {x}) = Cardinality({i}) + 1
          BY <4>1, FS_AddElement
        <5> QED BY <4>1, <5>1
      <4>0. 1 + 1 = 2
        OBVIOUS
      <4>3. {i} \union {Len(l) + 1} = {i, Len(l) + 1}
        OBVIOUS
      <4>4. {i, Len(l) + 1} \subseteq Colons(f)
        BY <2>4, <3>2
      <4> QED BY <4>2, <4>0, <4>3, <4>4, Zenon
    <3>4. Cardinality({i, Len(l) + 1}) <= Cardinality(Colons(f)) /\ Cardinality(Colons(f)) \in Nat
      BY <2>5, <3>3, FS_Subset, FS_CardinalityType
    <3>5. Cardinality(Colons(f)) > 1
      BY <3>3, <3>4
    <3> QED BY <1>2, <1>7, <2>1, <2>7, <3>5
  <2> QED BY <1>2, <1>7, <2>6, <2>7
<1> QED BY <1>6, <1>7

(* The local part as the parser takes it. *)
LocalOf(a) == IF a.local = Absent THEN <<>> ELSE IF a.local = <<>> THEN <<"0">> ELSE a.local
ProtoOf(a) == IF a.proto = Absent THEN <<>> ELSE a.proto

LEMMA TakenApart ==
  ASSUME NEW a \in Arguments, a.remote # <<>>, NEW obj
  PROVE  ParseArg(a.text, obj) = IF a.local # Absent /\ (\E i \in DOMAIN a.local : a.local[i] = ":")
                                 THEN Invalid ELSE Pair(LocalOf(a), a.remote, ProtoOf(a), obj)
<1> DEFINE protoIdx  == IndexRune(a.text, "@")
           cut       == protoIdx > 1
           proto     == IF cut THEN SubSeq(a.text, protoIdx + 1, Len(a.text)) ELSE <<>>
           arg       == IF cut THEN SubSeq(a.text, 1, protoIdx - 1) ELSE a.text
           colon     == IndexRune(arg, ":")
           localStr  == CASE colon = 0 -> <<>> [] colon = 1 -> <<"0">>
                          [] OTHER -> SubSeq(arg, 1, colon - 1)
           remoteStr == SubSeq(arg, colon + 1, Len(arg))
<1>1. ParseArg(a.text, obj)
        = IF Cardinality(Colons(arg)) > 1 THEN Invalid ELSE Pair(localStr, remoteStr, proto, obj)
  BY DEF ParseArg
<1>2. arg = Front(a) /\ proto = ProtoOf(a)
  <2>1. CASE a.proto = Absent
    BY <2>1, ProtocolCut DEF ProtoOf
  <2>2. CASE a.proto # Absent
    <3>1. protoIdx = Len(Front(a)) + 1 /\ Len(Front(a)) \in Nat /\ Len(Front(a)) > 0
      BY <2>2, ProtocolCut
    <3> HIDE DEF protoIdx
    <3>2. cut /\ protoIdx - 1 = Len(Front(a)) /\ protoIdx + 1 = Len(Front(a)) + 2
      BY <3>1
    <3> QED BY <2>2, <3>2, ProtocolCut DEF ProtoOf
  <2> QED BY <2>1, <2>2
<1>3. a.local \in Seq(Token) /\ Len(a.local) \in Nat /\ Front(a) \in Seq(Token)
      /\ a.remote \in Seq(Token) /\ Len(a.remote) \in Nat
  BY ProtocolCut, LenProperties
<1> HIDE DEF arg, proto
<1>4. CASE a.local = Absent
  <2>1. arg = a.remote /\ colon = 0 /\ ~(Cardinality(Colons(arg)) > 1)
    BY <1>2, <1>4, LocalCut
  <2>2. SubSeq(a.remote, 1, Len(a.remote)) = a.remote
    BY <1>3, SubSeqFull
  <2>3. localStr = <<>> /\ remoteStr = a.remote
    BY <2>1, <2>2
  <2> HIDE DEF localStr, remoteStr
  <2> QED BY <1>1, <1>2, <1>4, <2>1, <2>3 DEF LocalOf
<1>5. CASE a.local # Absent /\ (\A i \in DOMAIN a.local : a.local[i] # ":")
  <2>1. /\ colon = Len(a.local) + 1 /\ ~(Cardinality(Colons(arg)) > 1)
        /\ SubSeq(arg, 1, Len(a.local)) = a.local
        /\ SubSeq(arg, Len(a.local) + 2, Len(arg)) = a.remote
    BY <1>2, <1>5, LocalCut
  <2> HIDE DEF colon
  <2>2. colon # 0 /\ colon + 1 = Len(a.local) + 2 /\ colon - 1 = Len(a.local)
    BY <1>3, <2>1
  <2>3. colon = 1 <=> a.local = <<>>
    BY <1>3, <2>1, EmptySeq
  <2>4. remoteStr = a.remote /\ localStr = LocalOf(a)
    BY <1>5, <2>1, <2>2, <2>3 DEF LocalOf
  <2> HIDE DEF localStr, remoteStr
  <2> QED BY <1>1, <1>2, <1>5, <2>1, <2>4
<1>6. CASE a.local # Absent /\ (\E i \in DOMAIN a.local : a.local[i] = ":")
  <2>1. Cardinality(Colons(arg)) > 1
    BY <1>2, <1>6, LocalCut
  <2> HIDE DEF localStr, remoteStr
  <2> QED BY <1>1, <1>6, <2>1
<1> QED BY <1>4, <1>5, <1>6

LEMMA AbsentParts ==
  /\ Absent # <<>> /\ Absent # <<"tcp">> /\ Absent # <<"udp">>
  /\ <<"tcp">> # <<>> /\ <<"udp">> # <<>> /\ <<"0">> # <<>>
  /\ IsPort(<<"0">>) /\ Number[<<"0">>[1]] = 0
<1>1. Absent # <<>> /\ Absent # <<"tcp">> /\ Absent # <<"udp">>
  BY DEF Absent
<1>2. <<"tcp">> # <<>> /\ <<"udp">> # <<>> /\ <<"0">> # <<>>
  OBVIOUS
<1>3. IsPort(<<"0">>) /\ Number[<<"0">>[1]] = 0
  BY NumberAssumption DEF IsPort
<1> QED BY <1>1, <1>2, <1>3

(* What the parts of an argument must be like, for any object. *)
Sound(a) ==
  /\ a.proto \in {Absent, <<>>, <<"tcp">>, <<"udp">>}
  /\ a.local \in {Absent, <<>>} \/ IsPort(a.local)

LocalPort(a, remote) ==
  IF a.local = Absent THEN remote ELSE IF a.local = <<>> THEN 0 ELSE Number[a.local[1]]

Meaning(a, r) ==
  [local |-> LocalPort(a, r[1]), remote |-> r[1],
   protocol |-> IF a.proto \in {Absent, <<>>} THEN r[2] ELSE a.proto[1]]

LEMMA MeaningsAre ==
  ASSUME NEW a \in Arguments, NEW obj
  PROVE  Meanings(a, obj) = IF Sound(a) THEN {Meaning(a, r) : r \in Remotes(a.remote, obj)} ELSE {}
<1>1. ASSUME NEW x
      PROVE  (CASE a.local = Absent -> x [] a.local = <<>> -> 0 [] OTHER -> Number[a.local[1]]) = LocalPort(a, x)
  BY AbsentParts DEF LocalPort
<1> QED BY <1>1 DEF Meanings, Sound, Meaning

LEMMA SoundParts ==
  ASSUME NEW a \in Arguments
  PROVE  /\ Sound(a) <=> /\ ProtoOf(a) \in {<<>>, <<"tcp">>, <<"udp">>}
                         /\ ~(LocalOf(a) # <<>> /\ ~IsPort(LocalOf(a)))
         /\ Sound(a) => ~(a.local # Absent /\ (\E i \in DOMAIN a.local : a.local[i] = ":"))
         /\ \A n : LocalPort(a, n) = IF LocalOf(a) = <<>> THEN n ELSE Number[LocalOf(a)[1]]
         /\ ProtoOf(a) = <<>> <=> a.proto \in {Absent, <<>>}
         /\ ProtoOf(a) # <<>> => ProtoOf(a) = a.proto
<1>1. ProtoOf(a) = <<>> <=> a.proto \in {Absent, <<>>}
  BY AbsentParts DEF ProtoOf
<1>2. ProtoOf(a) # <<>> => ProtoOf(a) = a.proto
  BY AbsentParts DEF ProtoOf
<1>3. \A n : LocalPort(a, n) = IF LocalOf(a) = <<>> THEN n ELSE Number[LocalOf(a)[1]]
  BY AbsentParts DEF LocalPort, LocalOf
<1>4. Sound(a) <=> /\ ProtoOf(a) \in {<<>>, <<"tcp">>, <<"udp">>}
                   /\ ~(LocalOf(a) # <<>> /\ ~IsPort(LocalOf(a)))
  <2>1. a.proto \in {Absent, <<>>, <<"tcp">>, <<"udp">>} <=> ProtoOf(a) \in {<<>>, <<"tcp">>, <<"udp">>}
    BY AbsentParts DEF ProtoOf
  <2>2. (a.local \in {Absent, <<>>} \/ IsPort(a.local)) <=> ~(LocalOf(a) # <<>> /\ ~IsPort(LocalOf(a)))
    BY AbsentParts DEF LocalOf
  <2> QED BY <2>1, <2>2 DEF Sound
<1>5. ASSUME Sound(a), a.local # Absent, NEW i \in DOMAIN a.local, a.local[i] = ":" PROVE FALSE
  <2>1. a.local \in Seq(STRING)
    BY DEF Arguments
  <2>2. DOMAIN a.local = 1..Len(a.local) /\ Len(a.local) \in Nat
    BY <2>1, LenProperties
  <2>3. a.local # <<>>
    BY <1>5, EmptySeq, <2>2
  <2>4. Len(a.local) = 1 /\ a.local[1] \in DOMAIN Number
    BY <1>5, <2>3 DEF Sound, IsPort
  <2>5. i = 1
    BY <2>2, <2>4
  <2> QED BY <1>5, <2>4, <2>5, NumberAssumption
<1> QED BY <1>1, <1>2, <1>3, <1>4, <1>5

(* What the ports of an object are. *)
LEMMA ObjectPorts ==
  ASSUME NEW obj, obj.ports \in Seq(PortType)
  PROVE  /\ IsFiniteSet(DOMAIN obj.ports) /\ DOMAIN obj.ports \subseteq Nat
         /\ \A i \in DOMAIN obj.ports :
              obj.ports[i].port \in Nat /\ obj.ports[i].protocol \in {"tcp", "udp", "sctp"}
<1> PICK ports \in Seq(PortType) : ports = obj.ports
  OBVIOUS
<1>2. DOMAIN ports = 1..Len(ports) /\ Len(ports) \in Nat
  BY LenProperties
<1>3. IsFiniteSet(1..Len(ports))
  BY <1>2, FS_Interval
<1>4. \A i \in DOMAIN ports : ports[i] \in PortType
  BY <1>2, ElementOfSeq
<1> QED BY <1>2, <1>3, <1>4 DEF PortType

(* The last of some indices. *)
LEMMA Last ==
  ASSUME NEW n \in Nat, NEW D \in SUBSET (1..n), D # {}
  PROVE  (CHOOSE i \in D : \A j \in D : j <= i) \in D
<1> DEFINE Less == OpToRel(<, Nat)
           Rest == {n - i : i \in D}
<1>1. IsWellFoundedOn(Less, Nat)
  BY NatLessThanWellFounded
<1>2. \A k, m \in Nat : k < m => <<k, m>> \in Less
  BY DEF OpToRel
<1> HIDE DEF Less
<1>3. Rest \subseteq Nat /\ Rest # {}
  <2>1. \A i \in D : i \in 1..n /\ n - i \in Nat
    OBVIOUS
  <2> QED BY <2>1
<1>4. PICK m \in Rest : \A k \in Rest : ~(<<k, m>> \in Less)
  BY <1>1, <1>3, WFMin
<1>5. PICK i \in D : m = n - i
  OBVIOUS
<1>6. ASSUME NEW j \in D PROVE j <= i
  <2>1. n - j \in Rest /\ n - j \in Nat /\ n - i \in Nat
    OBVIOUS
  <2>2. ~(n - j < n - i)
    BY <1>2, <1>4, <1>5, <2>1
  <2> QED BY <2>2
<1> QED BY <1>6

(* Of a set of at most one element. *)
LEMMA AtMostOne ==
  ASSUME NEW D, IsFiniteSet(D), ~(Cardinality(D) > 1), NEW k \in D
  PROVE  D = {k}
<1>1. Cardinality(D) \in Nat /\ Cardinality(D) # 0
  BY FS_CardinalityType, FS_EmptySet
<1>2. Cardinality(D) = 1
  BY <1>1
<1>3. PICK x : D = {x}
  BY <1>2, FS_Singleton
<1> QED BY <1>3

LEMMA RemoteNumber ==
  ASSUME NEW r, NEW obj, IsPort(r)
  PROVE  LET n == Number[r[1]] IN
         Remotes(r, obj) = IF Protocols(obj, n) = {} THEN {<<n, "tcp">>}
                           ELSE {<<n, obj.ports[i].protocol>> : i \in Protocols(obj, n)}
<1> DEFINE n        == Number[r[1]]
           declared == {obj.ports[i] : i \in DOMAIN obj.ports}
           matching == {p \in declared : p.port = n}
           pairs    == {<<p.port, p.protocol>> : p \in matching}
<1>1. Remotes(r, obj) = IF pairs = {} THEN {<<n, "tcp">>} ELSE pairs
  BY DEF Remotes
<1>2. pairs = {<<n, obj.ports[i].protocol>> : i \in Protocols(obj, n)}
  BY DEF Protocols
<1>3. pairs = {} <=> Protocols(obj, n) = {}
  BY <1>2
<1> QED BY <1>1, <1>2, <1>3

LEMMA RemoteName ==
  ASSUME NEW r, NEW obj, ~IsPort(r)
  PROVE  Remotes(r, obj) = {<<obj.ports[i].port, obj.ports[i].protocol>> : i \in Named(obj, r)}
<1> DEFINE declared == {obj.ports[i] : i \in DOMAIN obj.ports}
           matching == {p \in declared : p.name = r}
           pairs    == {<<p.port, p.protocol>> : p \in matching}
<1>1. Remotes(r, obj) = pairs
  BY DEF Remotes
<1>2. pairs = {<<obj.ports[i].port, obj.ports[i].protocol>> : i \in Named(obj, r)}
  BY DEF Named
<1> QED BY <1>1, <1>2

LEMMA ParsedRight ==
  ASSUME NEW a \in Arguments, a.remote # <<>>, NEW obj, obj.ports \in Seq(PortType)
  PROVE  /\ ParseArg(a.text, obj) # Invalid =>
              /\ ParseArg(a.text, obj) \in Meanings(a, obj)
              /\ \/ Meanings(a, obj) = {ParseArg(a.text, obj)}
                 \/ ~IsPort(a.remote) /\ Cardinality(Named(obj, a.remote)) > 1
         /\ ParseArg(a.text, obj) = Invalid =>
              \A m \in Meanings(a, obj) : Cardinality(Protocols(obj, m.remote)) > 1
<1> DEFINE proto == ProtoOf(a)
           pair  == Pair(LocalOf(a), a.remote, proto, obj)
<1>1. CASE ~Sound(a)
  <2>1. Meanings(a, obj) = {}
    BY <1>1, MeaningsAre
  <2>2. pair = Invalid
    BY <1>1, SoundParts DEF Pair
  <2>3. ParseArg(a.text, obj) = Invalid
    BY <2>2, TakenApart
  <2> QED BY <2>1, <2>3
<1>2. CASE Sound(a)
  <2>1. ParseArg(a.text, obj) = pair
    BY <1>2, SoundParts, TakenApart
  <2>2. Meanings(a, obj) = {Meaning(a, r) : r \in Remotes(a.remote, obj)}
    BY <1>2, MeaningsAre
  <2>3. proto \in {<<>>, <<"tcp">>, <<"udp">>} /\ ~(LocalOf(a) # <<>> /\ ~IsPort(LocalOf(a)))
        /\ (proto = <<>> <=> a.proto \in {Absent, <<>>}) /\ (proto # <<>> => proto = a.proto)
    BY <1>2, SoundParts
  <2>4. \A n : LocalPort(a, n) = IF LocalOf(a) = <<>> THEN n ELSE Number[LocalOf(a)[1]]
    BY SoundParts
  <2>5. proto # <<>> => proto[1] \in {"tcp", "udp"}
    BY <2>3
  <2> DEFINE Is(n, q) == [local |-> LocalPort(a, n), remote |-> n, protocol |-> q]
  <2>6. ASSUME NEW n, NEW q
        PROVE  /\ proto = <<>> => Meaning(a, <<n, q>>) = Is(n, q)
               /\ proto # <<>> => Meaning(a, <<n, q>>) = Is(n, proto[1])
    BY <2>3 DEF Meaning
  <2>7. ASSUME NEW n, NEW q \in {"tcp", "udp", "sctp"} PROVE Is(n, q) # Invalid /\ Is(n, q).remote = n
    BY DEF Invalid
  <2>8. CASE IsPort(a.remote)
    <3> DEFINE n == Number[a.remote[1]]
               D == Protocols(obj, n)
    <3>1. Remotes(a.remote, obj) = IF D = {} THEN {<<n, "tcp">>}
                                   ELSE {<<n, obj.ports[i].protocol>> : i \in D}
      BY <2>8, RemoteNumber
    <3>2. pair = IF proto = <<>> /\ Cardinality(D) > 1 THEN Invalid
                 ELSE Is(n, IF proto # <<>> THEN proto[1] ELSE IF D = {} THEN "tcp"
                            ELSE obj.ports[CHOOSE i \in D : \A j \in D : i <= j].protocol)
      BY <2>3, <2>4, <2>8 DEF Pair
    <3>3. D \subseteq DOMAIN obj.ports /\ IsFiniteSet(D)
      <4>1. D \subseteq DOMAIN obj.ports
        BY DEF Protocols
      <4> QED BY <4>1, ObjectPorts, FS_Subset
    <3> HIDE DEF D, n, pair, Is, proto
    <3>4. CASE proto # <<>>
      <4>1. pair = Is(n, proto[1]) /\ pair # Invalid
        BY <2>5, <2>7, <3>2, <3>4
      <4>2. \A r \in Remotes(a.remote, obj) : Meaning(a, r) = Is(n, proto[1])
        BY <2>6, <3>1, <3>4
      <4>3. Remotes(a.remote, obj) # {}
        BY <3>1
      <4> QED BY <2>1, <2>2, <4>1, <4>2, <4>3
    <3>5. CASE proto = <<>> /\ Cardinality(D) > 1
      <4>1. pair = Invalid
        BY <3>2, <3>5
      <4>2. D # {}
        BY <3>5, FS_EmptySet
      <4>3. ASSUME NEW m \in Meanings(a, obj) PROVE m.remote = n
        <5>1. PICK i \in D : m = Meaning(a, <<n, obj.ports[i].protocol>>)
          BY <2>2, <3>1, <4>2
        <5>2. obj.ports[i].protocol \in {"tcp", "udp", "sctp"}
          BY <3>3, ObjectPorts
        <5> QED BY <2>6, <2>7, <3>5, <5>1, <5>2
      <4> QED BY <2>1, <3>5, <4>1, <4>3 DEF D
    <3>6. CASE proto = <<>> /\ ~(Cardinality(D) > 1) /\ D = {}
      <4>1. pair = Is(n, "tcp") /\ pair # Invalid
        BY <2>7, <3>2, <3>6
      <4>2. Meanings(a, obj) = {Is(n, "tcp")}
        BY <2>2, <2>6, <3>1, <3>6
      <4> QED BY <2>1, <4>1, <4>2
    <3>7. CASE proto = <<>> /\ ~(Cardinality(D) > 1) /\ D # {}
      <4>1. PICK k \in D : D = {k}
        BY <3>3, <3>7, AtMostOne
      <4>2. (CHOOSE i \in D : \A j \in D : i <= j) = k
        <5>1. k \in Nat
          BY <3>3, ObjectPorts
        <5> QED BY <4>1, <5>1
      <4>3. obj.ports[k].protocol \in {"tcp", "udp", "sctp"}
        BY <3>3, ObjectPorts
      <4>4. pair = Is(n, obj.ports[k].protocol) /\ pair # Invalid
        BY <2>7, <3>2, <3>7, <4>2, <4>3
      <4>5. Meanings(a, obj) = {Is(n, obj.ports[k].protocol)}
        <5>1. Remotes(a.remote, obj) = {<<n, obj.ports[k].protocol>>}
          BY <3>1, <4>1
        <5>2. Meaning(a, <<n, obj.ports[k].protocol>>) = Is(n, obj.ports[k].protocol)
          BY <2>6, <3>7
        <5> QED BY <2>2, <5>1, <5>2
      <4> QED BY <2>1, <4>4, <4>5
    <3> QED BY <3>4, <3>5, <3>6, <3>7
  <2>9. CASE ~IsPort(a.remote)
    <3> DEFINE D == Named(obj, a.remote)
               k == CHOOSE i \in D : \A j \in D : j <= i
    <3>1. Remotes(a.remote, obj) = {<<obj.ports[i].port, obj.ports[i].protocol>> : i \in D}
      BY <2>9, RemoteName
    <3>2. pair = IF D = {} THEN Invalid
                 ELSE Is(obj.ports[k].port, IF proto # <<>> THEN proto[1] ELSE obj.ports[k].protocol)
      <4>1. ~(Cardinality({}) > 1)
        <5>1. Cardinality({}) = 0
          BY FS_EmptySet
        <5> QED BY <5>1
      <4> QED BY <2>3, <2>4, <2>9, <4>1 DEF Pair, Names
    <3>3. D \subseteq DOMAIN obj.ports /\ IsFiniteSet(D)
      <4>1. D \subseteq DOMAIN obj.ports
        BY DEF Named
      <4> QED BY <4>1, ObjectPorts, FS_Subset
    <3>4. D # {} => k \in D
      <4>1. PICK n \in Nat : DOMAIN obj.ports = 1..n
        BY LenProperties
      <4> QED BY <3>3, <4>1, Last
    <3> HIDE DEF D, pair, Is, proto
    <3>5. CASE D = {}
      <4>1. pair = Invalid /\ Meanings(a, obj) = {}
        BY <2>2, <3>1, <3>2, <3>5
      <4> QED BY <2>1, <4>1
    <3>6. CASE D # {}
      <4>1. PICK x \in D : x = k
        BY <3>4, <3>6
      <4>2. obj.ports[x].protocol \in {"tcp", "udp", "sctp"}
        BY <3>3, ObjectPorts
      <4> DEFINE q == IF proto # <<>> THEN proto[1] ELSE obj.ports[x].protocol
                 n == obj.ports[x].port
      <4>3. pair = Is(n, q) /\ q \in {"tcp", "udp", "sctp"}
        BY <2>5, <3>2, <3>6, <4>1, <4>2
      <4>4. pair # Invalid
        BY <2>7, <4>3
      <4>5. Meaning(a, <<n, obj.ports[x].protocol>>) = Is(n, q)
        BY <2>6
      <4>6. Is(n, q) \in Meanings(a, obj)
        BY <2>2, <3>1, <4>5
      <4>7. ~(Cardinality(D) > 1) => Meanings(a, obj) = {Is(n, q)}
        <5>1. ~(Cardinality(D) > 1) => D = {x}
          BY <3>3, AtMostOne
        <5> QED BY <2>2, <3>1, <4>5, <5>1
      <4> QED BY <2>1, <2>9, <4>3, <4>4, <4>6, <4>7 DEF D
    <3> QED BY <3>5, <3>6
  <2> QED BY <2>8, <2>9
<1> QED BY <1>1, <1>2

(* Whatever the parser returns for an argument is what the argument can    *)
(* mean, for any argument that is written down and any object, and all it  *)
(* can mean unless it is the name of several ports; what it refuses has no *)
(* meaning, or its number has several protocols.                           *)
THEOREM ArgumentsParsed == CommandSpec => []ParseExact
<1>1. ASSUME NEW a \in Arguments, a.remote # <<>>, NEW obj, obj.ports \in Seq(PortType)
      PROVE  /\ ParseArg(a.text, obj) # Invalid => ParseArg(a.text, obj) \in Meanings(a, obj)
             /\ (ParseArg(a.text, obj) # Invalid /\ Meanings(a, obj) # {ParseArg(a.text, obj)}) =>
                   ~IsPort(a.remote) /\ Cardinality(Named(obj, a.remote)) > 1
             /\ (ParseArg(a.text, obj) = Invalid /\ Cardinality(Meanings(a, obj)) = 1) =>
                   Cardinality(Protocols(obj, (CHOOSE m \in Meanings(a, obj) : TRUE).remote)) > 1
  <2>1. ParseArg(a.text, obj) # Invalid =>
          /\ ParseArg(a.text, obj) \in Meanings(a, obj)
          /\ \/ Meanings(a, obj) = {ParseArg(a.text, obj)}
             \/ ~IsPort(a.remote) /\ Cardinality(Named(obj, a.remote)) > 1
    BY <1>1, ParsedRight
  <2>2. ASSUME ParseArg(a.text, obj) = Invalid, Cardinality(Meanings(a, obj)) = 1
        PROVE  Cardinality(Protocols(obj, (CHOOSE m \in Meanings(a, obj) : TRUE).remote)) > 1
    <3>1. Cardinality({}) = 0
      BY FS_EmptySet
    <3>2. Meanings(a, obj) # {}
      BY <2>2, <3>1
    <3>3. (CHOOSE m \in Meanings(a, obj) : TRUE) \in Meanings(a, obj)
      BY <3>2
    <3>4. \A m \in Meanings(a, obj) : Cardinality(Protocols(obj, m.remote)) > 1
      BY <1>1, <2>2, ParsedRight
    <3> QED BY <3>3, <3>4
  <2> QED BY <2>1, <2>2
<1>2. ASSUME NEW t PROVE ObjectOf(t).ports \in Seq(PortType)
  <2>1. NoObject.ports \in Seq(PortType)
    BY EmptySeq DEF NoObject
  <2> QED BY <2>1, ObjectsAssumption DEF ObjectOf, Found
<1>3. CommandTypeInv => ParseExact
  <2> SUFFICES ASSUME CommandTypeInv, cmd = "resolve", targets # <<>>,
                      NEW i \in DOMAIN Head(targets).ports
               PROVE  LET t    == Head(targets)
                          obj  == ObjectOf(t)
                          a    == t.ports[i]
                          pair == ParseArg(a.text, obj)
                      IN  a.remote # <<>> =>
                            /\ pair # Invalid => pair \in Meanings(a, obj)
                            /\ (pair # Invalid /\ Meanings(a, obj) # {pair}) =>
                                 ~IsPort(a.remote) /\ Cardinality(Named(obj, a.remote)) > 1
                            /\ (pair = Invalid /\ Cardinality(Meanings(a, obj)) = 1) =>
                                 Cardinality(Protocols(obj, (CHOOSE m \in Meanings(a, obj) : TRUE).remote)) > 1
    BY DEF ParseExact
  <2>1. Head(targets) \in TargetType
    BY HeadTailProperties DEF CommandTypeInv, CommandTypeOK
  <2>2. Head(targets).ports \in Seq(Arguments)
    BY <2>1 DEF TargetType
  <2>3. Head(targets).ports[i] \in Arguments
    BY <2>2, ElementOfSeq, LenProperties
  <2> QED BY <1>1, <1>2, <2>3
<1> QED
  BY <1>3, TypeInvariant, PTL

=============================================================================
