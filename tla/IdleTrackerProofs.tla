------------------------- MODULE IdleTrackerProofs -------------------------
(***************************************************************************)
(* Proofs about IdleTracker, for any number of connections and any values  *)
(* of the timeout, the heartbeat period and the scheduling delay.          *)
(***************************************************************************)
EXTENDS IdleTracker, FiniteSetTheorems, TLAPS

(* The connection being registered is the one the accept loop holds.       *)
Registering ==
  /\ acc # "accept" => conn[cur] = "onConnect"
  /\ \A c \in Conns : conn[c] = "onConnect" => acc # "accept" /\ c = cur

(* activeConns counts the connections from the Add of onConnect to the one *)
(* of onDisconnect.                                                        *)
Counted == {c \in Conns : conn[c] # "idle" /\ (conn[c] = "onConnect" => acc # "add")}

Counting == active = Cardinality(Counted)

(* No time lies in the future, and no piece of code is older than Delay.   *)
Clocks ==
  /\ served <= now /\ ended <= now /\ accAt <= now
  /\ \A c \in Conns : end[c] <= now
  /\ acc # "accept" => now <= accAt + Delay
  /\ acc = "store" => accAt <= accStamp
  /\ \A c \in Conns : conn[c] \in {"now", "store", "dec"} => now <= end[c] + Delay
  /\ \A c \in Conns : conn[c] = "store" => end[c] <= stamp[c]
  /\ mon \notin {"off", "wait"} => wake <= now /\ now <= wake + Delay

(* lastActivity may go back, but never by more than Delay.                 *)
Fresh ==
  /\ last + Delay >= served
  /\ LastActivityFresh
  /\ \A c \in Conns : conn[c] = "dec" => last + Delay >= end[c]

(* The heartbeats of a client that is up.                                  *)
Beating ==
  /\ clientUp => now <= served + Heartbeat
  /\ acc # "accept" => accAt <= served + Heartbeat

BaseInv == TypeOK /\ Registering /\ Counting /\ Clocks /\ Fresh /\ Beating

(* What monitor's check amounts to as it goes on.  It may have seen a      *)
(* server in use as idle, but then the tick of that check came soon after  *)
(* the last onConnect.                                                     *)
InUse == clientUp \/ Busy

Checking ==
  /\ mon = "last" /\ InUse => wake <= served + Heartbeat + Delay
  /\ mon = "since" /\ InUse => wake <= seen + Heartbeat + 2 * Delay
  /\ mon = "close" => ~InUse
  /\ SafeShutdown

-----------------------------------------------------------------------------
LEMMA CountedFinite == TypeOK => IsFiniteSet(Counted) /\ Cardinality(Counted) \in Nat
<1>1. Counted \subseteq Conns
  BY DEF Counted
<1> QED
  BY <1>1, ConstantsAssumption, FS_Subset, FS_CardinalityType

LEMMA InitBase == Init => BaseInv
<1> SUFFICES ASSUME Init PROVE BaseInv
  OBVIOUS
<1>1. TypeOK
  BY ConstantsAssumption DEF Init, TypeOK, AccPhases, ConnPhases, MonPhases, Interval, MaxOf
<1>2. Counting
  <2>1. Counted = {}
    BY DEF Init, Counted
  <2> QED BY <2>1, FS_EmptySet DEF Init, Counting
<1>3. Registering /\ Clocks /\ Fresh /\ Beating
  BY ConstantsAssumption DEF Init, Registering, Clocks, Fresh, LastActivityFresh, Beating
<1> QED
  BY <1>1, <1>2, <1>3 DEF BaseInv

(* The counter and the set of the connections it counts change together.   *)
LEMMA CountStep == BaseInv /\ [Next]_vars => Counting' /\ active' \in Nat
<1> SUFFICES ASSUME BaseInv, [Next]_vars PROVE Counting' /\ active' \in Nat
  OBVIOUS
<1>0. /\ TypeOK /\ Registering
      /\ IsFiniteSet(Counted) /\ active = Cardinality(Counted) /\ active \in Nat
  BY CountedFinite DEF BaseInv, Counting, TypeOK
<1>1. CASE active' = active /\ Counted' = Counted
  BY <1>0, <1>1 DEF Counting
<1>2. ASSUME NEW c \in Conns, Accept(c) PROVE active' = active /\ Counted' = Counted
  BY <1>0, <1>2 DEF Accept, Counted, Registering, TypeOK
<1>3. ASSUME NEW c \in Conns, HandleConnReturns(c) \/ OnDisconnectNow(c) \/ OnDisconnectStore(c)
      PROVE active' = active /\ Counted' = Counted
  BY <1>0, <1>3 DEF HandleConnReturns, OnDisconnectNow, OnDisconnectStore, accVars, Counted, TypeOK
<1>4. ASSUME NEW c \in Conns, OnDisconnectDec(c) PROVE Counting' /\ active' \in Nat
  <2>1. c \in Counted /\ Counted' = Counted \ {c} /\ active' = active - 1
    BY <1>0, <1>4 DEF OnDisconnectDec, accVars, Counted, TypeOK
  <2>2. Cardinality(Counted \ {c}) = Cardinality(Counted) - 1 /\ Cardinality(Counted \ {c}) \in Nat
    BY <1>0, <2>1, FS_RemoveElement, FS_CardinalityType
  <2> QED BY <1>0, <2>1, <2>2 DEF Counting
<1>5. CASE OnConnectAdd
  <2>1. cur \notin Counted /\ Counted' = Counted \union {cur} /\ active' = active + 1
    BY <1>0, <1>5 DEF OnConnectAdd, connVars, Counted, Registering, TypeOK
  <2>2. Cardinality(Counted \union {cur}) = Cardinality(Counted) + 1
    BY <1>0, <2>1, FS_AddElement
  <2> QED BY <1>0, <2>1, <2>2 DEF Counting
<1>6. CASE OnConnectNow
  BY <1>0, <1>1, <1>6 DEF OnConnectNow, connVars, Counted
<1>7. CASE OnConnectStore
  BY <1>0, <1>1, <1>7 DEF OnConnectStore, Counted, Registering, TypeOK
<1>8. CASE UNCHANGED <<active, accVars, connVars>>
  BY <1>1, <1>8 DEF accVars, connVars, Counted
<1>9. CASE \/ RunReturns \/ AcceptFails \/ ClientGone \/ Tick \/ UNCHANGED vars
           \/ MonitorTick \/ MonitorLoadActive \/ MonitorLoadLast \/ MonitorSince \/ MonitorClose
  BY <1>8, <1>9 DEF RunReturns, AcceptFails, ClientGone, Tick, vars,
       MonitorTick, MonitorLoadActive, MonitorLoadLast, MonitorSince, MonitorClose
<1> QED
  BY <1>1, <1>2, <1>3, <1>4, <1>5, <1>6, <1>7, <1>9 DEF Next

LEMMA BaseStep == BaseInv /\ [Next]_vars => BaseInv'
<1> SUFFICES ASSUME BaseInv, [Next]_vars PROVE BaseInv'
  OBVIOUS
<1>0. Counting' /\ active' \in Nat
  BY CountStep
<1> DEFINE Rest == TypeOK' /\ Registering' /\ Clocks' /\ Fresh' /\ Beating'
<1> SUFFICES Rest
  BY <1>0 DEF BaseInv
<1> USE ConstantsAssumption DEF BaseInv, TypeOK, Registering, Clocks, Fresh, LastActivityFresh, Beating
<1>1. ASSUME NEW c \in Conns, Accept(c) PROVE Rest
  BY <1>0, <1>1 DEF Accept, monVars, history, AccPhases, ConnPhases
<1>2. ASSUME NEW c \in Conns, HandleConnReturns(c) PROVE Rest
  BY <1>0, <1>2 DEF HandleConnReturns, accVars, monVars, history, ConnPhases
<1>3. ASSUME NEW c \in Conns, OnDisconnectNow(c) PROVE Rest
  BY <1>0, <1>3 DEF OnDisconnectNow, accVars, monVars, history, ConnPhases
<1>4. ASSUME NEW c \in Conns, OnDisconnectStore(c) PROVE Rest
  BY <1>0, <1>4 DEF OnDisconnectStore, accVars, monVars, history, ConnPhases
<1>5. ASSUME NEW c \in Conns, OnDisconnectDec(c) PROVE Rest
  BY <1>0, <1>5 DEF OnDisconnectDec, accVars, monVars, ConnPhases, MaxOf
<1>6. CASE OnConnectAdd \/ OnConnectNow
  BY <1>0, <1>6 DEF OnConnectAdd, OnConnectNow, connVars, monVars, history, AccPhases
<1>7. CASE OnConnectStore
  BY <1>0, <1>7 DEF OnConnectStore, monVars, AccPhases, ConnPhases
<1>8. CASE RunReturns \/ AcceptFails \/ ClientGone
  <2>1. CASE RunReturns
    BY <1>0, <2>1 DEF RunReturns, accVars, connVars, monVars, history
  <2>2. CASE AcceptFails
    BY <1>0, <2>2 DEF AcceptFails, accVars, connVars, monVars, history
  <2>3. CASE ClientGone
    BY <1>0, <2>3 DEF ClientGone, accVars, connVars, monVars, history
  <2> QED BY <1>8, <2>1, <2>2, <2>3
<1>9. CASE MonitorTick \/ MonitorLoadActive \/ MonitorLoadLast \/ MonitorSince \/ MonitorClose
  BY <1>0, <1>9 DEF MonitorTick, MonitorLoadActive, MonitorLoadLast, MonitorSince, MonitorClose,
       accVars, connVars, history, MonPhases, Interval, MaxOf
<1>10. CASE Tick
  BY <1>0, <1>10 DEF Tick, accVars, connVars, monVars, history
<1>11. CASE UNCHANGED vars
  BY <1>0, <1>11 DEF vars, accVars, connVars, monVars, history
<1> QED
  BY <1>1, <1>2, <1>3, <1>4, <1>5, <1>6, <1>7, <1>8, <1>9, <1>10, <1>11 DEF Next

LEMMA BaseInvariant == Spec => []BaseInv
BY InitBase, BaseStep, PTL DEF Spec

(* The counter and every other variable keep their types: activeConns,     *)
(* which onDisconnect decrements without a check, never becomes negative.  *)
THEOREM TypeCorrect == Spec => []TypeOK
<1>1. BaseInv => TypeOK
  BY DEF BaseInv
<1> QED
  BY <1>1, BaseInvariant, PTL

(* lastActivity is never older, by more than Delay, than the end of a      *)
(* connection that has been counted out.                                   *)
THEOREM ActivityIsFresh == Spec => []LastActivityFresh
<1>1. BaseInv => LastActivityFresh
  BY DEF BaseInv, Fresh
<1> QED
  BY <1>1, BaseInvariant, PTL

-----------------------------------------------------------------------------
(* Once the client is gone and the connections have ended, no new one can  *)
(* be accepted.                                                            *)
LEMMA InUseStep == BaseInv /\ [Next]_vars /\ InUse' => InUse
<1> SUFFICES ASSUME BaseInv, [Next]_vars, ~clientUp, ~Busy PROVE ~clientUp' /\ ~Busy'
  BY DEF InUse
<1>0. \A c \in Conns : conn[c] = "idle"
  BY DEF Busy
<1>1. acc = "accept"
  BY <1>0 DEF BaseInv, Registering, TypeOK
<1>2. clientUp' = clientUp /\ conn' = conn
  <2>1. ASSUME NEW c \in Conns,
               \/ Accept(c) \/ HandleConnReturns(c)
               \/ OnDisconnectNow(c) \/ OnDisconnectStore(c) \/ OnDisconnectDec(c)
        PROVE  FALSE
    BY <1>0, <2>1 DEF Accept, HandleConnReturns, OnDisconnectNow, OnDisconnectStore, OnDisconnectDec
  <2>2. CASE OnConnectAdd \/ OnConnectNow \/ OnConnectStore \/ ClientGone
    BY <1>1, <2>2 DEF OnConnectAdd, OnConnectNow, OnConnectStore, ClientGone
  <2>3. CASE RunReturns \/ AcceptFails \/ Tick \/ UNCHANGED vars
    BY <2>3 DEF RunReturns, AcceptFails, Tick, vars, connVars
  <2>4. CASE MonitorTick \/ MonitorLoadActive \/ MonitorLoadLast \/ MonitorSince \/ MonitorClose
    BY <2>4 DEF MonitorTick, MonitorLoadActive, MonitorLoadLast, MonitorSince, MonitorClose, connVars
  <2> QED BY <2>1, <2>2, <2>3, <2>4 DEF Next
<1> QED
  BY <1>2 DEF Busy

(* monitor has just found activeConns = 0 although the server is in use:   *)
(* the last onConnect, or the Accept before the next one, was not long ago.*)
LEMMA ZeroMeansRecent ==
  ASSUME BaseInv, active = 0, InUse
  PROVE  now <= served + Heartbeat + Delay
<1> USE ConstantsAssumption
<1>1. CASE clientUp
  BY <1>1 DEF BaseInv, Beating, TypeOK
<1>2. CASE Busy
  <2>1. Counted = {}
    BY CountedFinite, FS_EmptySet DEF BaseInv, Counting
  <2>2. acc = "add"
    BY <1>2, <2>1 DEF Busy, Counted
  <2> QED
    BY <2>2 DEF BaseInv, Beating, Clocks, TypeOK
<1> QED
  BY <1>1, <1>2 DEF InUse

LEMMA CheckStep == TimingOK /\ BaseInv /\ BaseInv' /\ Checking /\ [Next]_vars => Checking'
<1> SUFFICES ASSUME TimingOK, BaseInv, BaseInv', Checking, [Next]_vars PROVE Checking'
  OBVIOUS
<1> USE ConstantsAssumption
<1>0. /\ InUse' => InUse
      /\ InUse <=> clientUp \/ Busy
      /\ InUse' <=> clientUp' \/ Busy'
      /\ TypeOK /\ TypeOK'
  BY InUseStep DEF InUse, BaseInv
<1>1. CASE MonitorTick
  BY <1>0, <1>1 DEF MonitorTick, Checking, SafeShutdown
<1>2. CASE MonitorLoadActive
  <2>1. active = 0 /\ InUse => now <= served + Heartbeat + Delay
    BY ZeroMeansRecent
  <2>2. wake <= now
    BY <1>2 DEF MonitorLoadActive, BaseInv, Clocks
  <2>3. mon' = "last" => active = 0
    BY <1>2 DEF MonitorLoadActive, TypeOK, BaseInv
  <2> QED
    BY <1>0, <1>2, <2>1, <2>2, <2>3 DEF MonitorLoadActive, Checking, SafeShutdown, history, TypeOK
<1>3. CASE MonitorLoadLast
  <2>1. served <= last + Delay
    BY DEF BaseInv, Fresh, TypeOK
  <2> QED
    BY <1>0, <1>3, <2>1 DEF MonitorLoadLast, Checking, SafeShutdown, TypeOK
<1>4. CASE MonitorSince
  <2>1. now <= wake + Delay
    BY <1>4 DEF MonitorSince, BaseInv, Clocks
  <2>2. InUse => now < seen + Timeout
    BY <1>0, <1>4, <2>1 DEF MonitorSince, Checking, TimingOK, TypeOK
  <2>3. mon' = "close" => now >= seen + Timeout
    BY <1>4 DEF MonitorSince
  <2>4. mon' = "close" => ~InUse
    BY <1>0, <2>2, <2>3 DEF TypeOK
  <2> QED
    BY <1>0, <1>4, <2>4 DEF MonitorSince, Checking, SafeShutdown
<1>5. CASE MonitorClose
  BY <1>0, <1>5 DEF MonitorClose, Checking, SafeShutdown
<1>6. CASE /\ UNCHANGED monVars /\ served <= served'
           /\ lis' = "closed" /\ exit' # "err" => lis = "closed" /\ exit # "err"
  <2>1. mon' = mon /\ wake' = wake /\ seen' = seen
    BY <1>6 DEF monVars
  <2>2. ASSUME mon' = "last", InUse' PROVE wake' <= served' + Heartbeat + Delay
    <3>1. wake <= served + Heartbeat + Delay
      BY <1>0, <2>1, <2>2 DEF Checking
    <3>2. PICK t \in Nat : t = served'
      BY <1>0 DEF TypeOK
    <3>3. wake \in Nat /\ served \in Nat /\ served <= t
      BY <1>0, <1>6, <3>2 DEF TypeOK
    <3>4. wake <= t + Heartbeat + Delay
      BY <3>1, <3>3
    <3> QED BY <2>1, <3>2, <3>4
  <2>3. /\ mon' = "since" /\ InUse' => wake' <= seen' + Heartbeat + 2 * Delay
        /\ mon' = "close" => ~InUse'
    BY <1>0, <2>1 DEF Checking
  <2>4. SafeShutdown'
    BY <1>0, <1>6 DEF Checking, SafeShutdown
  <2> QED
    BY <2>2, <2>3, <2>4 DEF Checking
<1>7. ASSUME NEW c \in Conns,
             \/ Accept(c) \/ HandleConnReturns(c)
             \/ OnDisconnectNow(c) \/ OnDisconnectStore(c) \/ OnDisconnectDec(c)
      PROVE  Checking'
  BY <1>0, <1>6, <1>7 DEF Accept, HandleConnReturns, OnDisconnectNow, OnDisconnectStore,
       OnDisconnectDec, history, TypeOK
<1>8. CASE OnConnectAdd \/ OnConnectNow \/ OnConnectStore
  <2>1. served <= now
    BY DEF BaseInv, Clocks
  <2> QED
    BY <1>0, <1>6, <1>8, <2>1 DEF OnConnectAdd, OnConnectNow, OnConnectStore, history, TypeOK
<1>9. CASE RunReturns \/ AcceptFails \/ ClientGone \/ Tick \/ UNCHANGED vars
  BY <1>0, <1>6, <1>9 DEF RunReturns, AcceptFails, ClientGone, Tick, vars, history, Running, TypeOK
<1> QED
  BY <1>1, <1>2, <1>3, <1>4, <1>5, <1>7, <1>8, <1>9 DEF Next

(* With a timeout above the heartbeat period and three scheduling delays,  *)
(* monitor shuts the server down only when the client is gone and no       *)
(* connection is open, although it loads the two atomics one by one and    *)
(* connections come and go between its steps.                              *)
THEOREM ShutdownIsSafe == ASSUME TimingOK PROVE Spec => []SafeShutdown
<1>1. Init => Checking
  BY DEF Init, Checking, SafeShutdown
<1>2. BaseInv /\ BaseInv' /\ Checking /\ [Next]_vars => Checking'
  BY CheckStep
<1>3. Checking => SafeShutdown
  BY DEF Checking
<1> QED
  BY <1>1, <1>2, <1>3, BaseInvariant, PTL DEF Spec

-----------------------------------------------------------------------------
(* The checks of monitor follow each other.  A check that finds the server *)
(* not idle for long enough, although it has no connection, was at most    *)
(* Timeout after lastActivity, and so was every check before the last      *)
(* connection was counted out.  The value that monitor has loaded is that  *)
(* of lastActivity, or lastActivity was stored during the check.           *)
Watching ==
  /\ tickAt <= wake + Interval
  /\ wake <= now
  /\ Timeout > 0 /\ lis = "open" => mon # "off"
  /\ mon = "since" /\ seen # last => wake <= last + Delay
  /\ ~Busy /\ mon = "wait" =>
       /\ tickAt < last + Timeout + Interval
       /\ now < last + Timeout + Interval + Delay
  /\ ~Busy /\ mon \notin {"off", "wait"} => wake < last + Timeout + Interval + Delay

LEMMA IntervalPositive == Interval \in Nat /\ Interval >= 1
  BY ConstantsAssumption DEF Interval, MaxOf

LEMMA WatchStep ==
  Timeout > 2 * Delay /\ BaseInv /\ BaseInv' /\ Watching /\ [Next]_vars => Watching'
<1> SUFFICES ASSUME Timeout > 2 * Delay, BaseInv, BaseInv', Watching, [Next]_vars
             PROVE  Watching'
  OBVIOUS
<1> USE ConstantsAssumption, IntervalPositive
<1>0. /\ TypeOK /\ TypeOK' /\ Clocks /\ Fresh
      /\ Registering
  BY DEF BaseInv
<1>1. CASE MonitorTick
  <2>1. now >= tickAt /\ mon = "wait" /\ wake' = now /\ tickAt' = tickAt + Interval /\ mon' = "active"
        /\ UNCHANGED <<now, lis, last, seen, conn>>
    BY <1>1 DEF MonitorTick, connVars
  <2>2. Busy' <=> Busy
    BY <2>1 DEF Busy
  <2> QED BY <1>0, <2>1, <2>2 DEF Watching, TypeOK
<1>2. CASE MonitorLoadActive
  <2>1. /\ mon = "active" /\ mon' = (IF active > 0 THEN "wait" ELSE "last")
        /\ UNCHANGED <<now, lis, last, seen, conn, wake, tickAt, active, acc>>
    BY <1>2 DEF MonitorLoadActive, connVars, accVars
  <2>2. Busy' <=> Busy
    BY <2>1 DEF Busy
  <2>3. active > 0 => Busy
    <3>1. ASSUME ~Busy PROVE active = 0
      <4>1. Counted = {}
        BY <3>1 DEF Busy, Counted
      <4> QED BY <4>1, FS_EmptySet DEF BaseInv, Counting
    <3> QED BY <3>1
  <2> QED BY <1>0, <2>1, <2>2, <2>3 DEF Watching, TypeOK
<1>3. CASE MonitorLoadLast
  <2>1. /\ mon = "last" /\ mon' = "since" /\ seen' = last
        /\ UNCHANGED <<now, lis, last, conn, wake, tickAt>>
    BY <1>3 DEF MonitorLoadLast, connVars
  <2>2. Busy' <=> Busy
    BY <2>1 DEF Busy
  <2> QED BY <1>0, <2>1, <2>2 DEF Watching, TypeOK
<1>4. CASE MonitorSince
  <2>1. /\ mon = "since" /\ mon' = (IF now >= seen + Timeout THEN "close" ELSE "wait")
        /\ UNCHANGED <<now, lis, last, conn, wake, tickAt>>
    BY <1>4 DEF MonitorSince, connVars
  <2>2. Busy' <=> Busy
    BY <2>1 DEF Busy
  <2>3. now <= wake + Delay
    BY <1>0, <2>1 DEF Clocks
  <2>4. mon' = "wait" => now < last + Timeout
    BY <1>0, <2>1, <2>3 DEF Watching, TypeOK
  <2> QED BY <1>0, <2>1, <2>2, <2>4 DEF Watching, TypeOK
<1>5. CASE MonitorClose
  BY <1>0, <1>5 DEF MonitorClose, Watching, Busy, connVars
<1>6. CASE Tick
  <2>1. /\ now' = now + 1 /\ (mon = "wait" => now < tickAt + Delay)
        /\ UNCHANGED <<mon, seen, lis, last, conn, wake, tickAt>>
    BY <1>6 DEF Tick, connVars, monVars
  <2>2. Busy' <=> Busy
    BY <2>1 DEF Busy
  <2> QED BY <1>0, <2>1, <2>2 DEF Watching, TypeOK
<1>7. ASSUME NEW c \in Conns, OnDisconnectDec(c) PROVE Watching'
  <2>1. /\ conn[c] = "dec"
        /\ UNCHANGED <<now, mon, seen, lis, last, wake, tickAt>>
    BY <1>7 DEF OnDisconnectDec, monVars
  <2>2. now <= last + 2 * Delay
    BY <1>0, <2>1 DEF Clocks, Fresh, TypeOK
  <2>3. now < last + Timeout
    BY <1>0, <2>2 DEF TypeOK
  <2> QED BY <1>0, <2>1, <2>3 DEF Watching, TypeOK
<1>8. ASSUME UNCHANGED <<now, monVars>>, lis' = "open" => lis = "open",
             Busy', last' # last => now <= last' + Delay
      PROVE Watching'
  <2>1. UNCHANGED <<now, mon, wake, tickAt, seen>>
    BY <1>8 DEF monVars
  <2>2. PICK t \in Nat : t = last'
    BY <1>0 DEF TypeOK
  <2>3. mon = "since" /\ seen # t => wake <= t + Delay
    <3>1. t = last \/ now <= t + Delay
      BY <1>8, <2>2
    <3>2. wake <= now /\ (mon = "since" /\ seen # last => wake <= last + Delay)
      BY DEF Watching
    <3>3. wake \in Nat /\ now \in Nat /\ t \in Nat
      BY <1>0, <2>2 DEF TypeOK
    <3>4. CASE t = last
      BY <3>2, <3>4
    <3>5. CASE now <= t + Delay
      BY <3>2, <3>3, <3>5
    <3> QED BY <3>1, <3>4, <3>5
  <2> QED BY <1>8, <2>1, <2>2, <2>3 DEF Watching
<1>9. ASSUME NEW c \in Conns, Accept(c) \/ HandleConnReturns(c) \/ OnDisconnectNow(c)
      PROVE Watching'
  <2>1. UNCHANGED <<now, monVars, lis, last>>
    BY <1>9 DEF Accept, HandleConnReturns, OnDisconnectNow
  <2>2. Busy'
    BY <1>0, <1>9 DEF Accept, HandleConnReturns, OnDisconnectNow, Busy, TypeOK
  <2> QED BY <1>8, <2>1, <2>2
<1>10. ASSUME NEW c \in Conns, OnDisconnectStore(c) PROVE Watching'
  <2>1. UNCHANGED <<now, monVars, lis>> /\ last' = stamp[c] /\ conn[c] = "store"
    BY <1>10 DEF OnDisconnectStore
  <2>2. Busy'
    BY <1>0, <1>10 DEF OnDisconnectStore, Busy, TypeOK
  <2>3. now <= last' + Delay
    BY <1>0, <2>1 DEF Clocks, TypeOK
  <2> QED BY <1>8, <2>1, <2>2, <2>3
<1>11. CASE OnConnectAdd \/ OnConnectNow \/ OnConnectStore
  <2>1. UNCHANGED <<now, monVars, lis>>
    BY <1>11 DEF OnConnectAdd, OnConnectNow, OnConnectStore
  <2>2. Busy'
    BY <1>0, <1>11 DEF OnConnectAdd, OnConnectNow, OnConnectStore, Busy, Registering, TypeOK, connVars
  <2>3. CASE OnConnectStore
    <3>1. last' = accStamp /\ now <= accStamp + Delay
      BY <1>0, <2>3 DEF OnConnectStore, Clocks, TypeOK
    <3> QED BY <1>8, <2>1, <2>2, <3>1
  <2>4. CASE OnConnectAdd \/ OnConnectNow
    BY <1>8, <2>1, <2>2, <2>4 DEF OnConnectAdd, OnConnectNow
  <2> QED BY <1>11, <2>3, <2>4
<1>12. CASE RunReturns \/ AcceptFails \/ ClientGone \/ UNCHANGED vars
  <2>1. UNCHANGED <<now, mon, wake, tickAt, seen, last, conn>> /\ (lis' = "open" => lis = "open")
    BY <1>12 DEF RunReturns, AcceptFails, ClientGone, vars, connVars, monVars
  <2>2. Busy' <=> Busy
    BY <2>1 DEF Busy
  <2> QED BY <2>1, <2>2 DEF Watching
<1> QED
  BY <1>1, <1>2, <1>3, <1>4, <1>5, <1>6, <1>7, <1>9, <1>10, <1>11, <1>12 DEF Next

(* With a timeout above two scheduling delays, a server without            *)
(* connections is closed at most Timeout, one period of monitor's ticker   *)
(* and two delays after its lastActivity, whatever stale value a delayed   *)
(* thread has stored there, and however late monitor receives its ticks.   *)
THEOREM ShutdownInTime == ASSUME Timeout > 2 * Delay PROVE Spec => []IdleShutdownInTime
<1>1. Init => Watching
  BY ConstantsAssumption, IntervalPositive DEF Init, Watching
<1>2. BaseInv /\ BaseInv' /\ Watching /\ [Next]_vars => Watching'
  BY WatchStep
<1>3. BaseInv /\ Watching => IdleShutdownInTime
  BY ConstantsAssumption, IntervalPositive
     DEF BaseInv, TypeOK, Clocks, Watching, IdleShutdownInTime
<1> QED
  BY <1>1, <1>2, <1>3, BaseInvariant, PTL DEF Spec

=============================================================================
