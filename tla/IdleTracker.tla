---------------------------- MODULE IdleTracker ----------------------------
(***************************************************************************)
(* The accept loop of krelay-server and its idleTracker                    *)
(* (cmd/server/main.go).  Three kinds of threads share two atomics,        *)
(* activeConns and lastActivity, without a lock:                           *)
(*                                                                         *)
(*   - the accept loop of run(), which calls onConnect;                    *)
(*   - one goroutine per connection, which runs handleConn and then the    *)
(*     deferred onDisconnect;                                              *)
(*   - monitor, which closes the listener when it finds the server idle.   *)
(*                                                                         *)
(* lastActivity.Store(time.Now().UnixNano()) is two steps, reading the     *)
(* clock and storing what was read, and each atomic access of monitor is a *)
(* step.  Time is discrete, one unit standing for time.Second.  The clock  *)
(* advances under two assumptions about the environment, the only ones     *)
(* here: straight-line code that has started is finished within Delay, and *)
(* while the client is up some connection (its heartbeats at least) is     *)
(* registered by onConnect every Heartbeat.                                *)
(***************************************************************************)
EXTENDS Naturals, FiniteSets

CONSTANTS
  Conns,      (* connection slots: a slot is reused once it is idle again *)
  Timeout,    (* idleTracker.timeout, the flag --idle-timeout; 0 disables *)
  Heartbeat,  (* longest time between two onConnect calls, client up      *)
  Delay,      (* longest time a started piece of code takes to finish     *)
  MaxTime     (* bound on the clock                                       *)

ASSUME ConstantsAssumption ==
  /\ IsFiniteSet(Conns)
  /\ Timeout \in Nat
  /\ Heartbeat \in Nat
  /\ Delay \in Nat
  /\ MaxTime \in Nat

VARIABLES
  now,       (* the clock                                                 *)
  clientUp,  (* the client is running and connects to the server          *)
  lis,       (* the listener: "open" or "closed"                          *)
  exit,      (* "no" while run() has not returned, else "nil" or "err"    *)
  active,    (* idleTracker.activeConns                                   *)
  last,      (* idleTracker.lastActivity                                  *)
  acc,       (* where the accept loop is                                  *)
  cur,       (* the connection it is registering                          *)
  accAt,     (* when the latest connection was accepted                   *)
  accStamp,  (* the clock value onConnect has read and not yet stored     *)
  conn,      (* where each connection is in its life                      *)
  stamp,     (* the clock value its onDisconnect has read                 *)
  end,       (* when its handleConn returned                              *)
  mon,       (* where monitor is                                          *)
  wake,      (* when monitor received its last tick                       *)
  tickAt,    (* when its ticker sends the next one                        *)
  seen,      (* the lastActivity monitor has loaded                       *)
  served,    (* history: when onConnect last completed                    *)
  ended      (* history: the latest end of a connection counted out       *)

connVars == <<conn, stamp, end>>
accVars  == <<acc, cur, accAt, accStamp>>
monVars  == <<mon, wake, tickAt, seen>>
history  == <<served, ended>>
vars == <<now, clientUp, lis, exit, active, last, accVars, connVars, monVars, history>>

ConnPhases == {"idle", "onConnect", "handling", "now", "store", "dec"}
AccPhases  == {"accept", "add", "now", "store"}
MonPhases  == {"off", "wait", "active", "last", "since", "close"}

MaxOf(a, b) == IF a >= b THEN a ELSE b

(* interval := max(t.timeout/4, time.Second) *)
Interval == MaxOf(Timeout \div 4, 1)

TypeOK ==
  /\ now \in Nat
  /\ clientUp \in BOOLEAN
  /\ lis \in {"open", "closed"}
  /\ exit \in {"no", "nil", "err"}
  /\ active \in Nat
  /\ last \in Nat
  /\ acc \in AccPhases
  /\ cur \in Conns
  /\ accAt \in Nat
  /\ accStamp \in Nat
  /\ conn \in [Conns -> ConnPhases]
  /\ stamp \in [Conns -> Nat]
  /\ end \in [Conns -> Nat]
  /\ mon \in MonPhases
  /\ wake \in Nat
  /\ tickAt \in Nat
  /\ seen \in Nat
  /\ served \in Nat
  /\ ended \in Nat

(***************************************************************************)
(* run() has created the listener and the tracker and started monitor,     *)
(* which returns at once when the timeout is 0.                            *)
(***************************************************************************)
Init ==
  /\ now = 0
  /\ clientUp = TRUE
  /\ lis = "open"
  /\ exit = "no"
  /\ active = 0
  /\ last = now
  /\ acc = "accept"
  /\ cur \in Conns
  /\ accAt = 0
  /\ accStamp = 0
  /\ conn = [c \in Conns |-> "idle"]
  /\ stamp = [c \in Conns |-> 0]
  /\ end = [c \in Conns |-> 0]
  /\ mon = IF Timeout = 0 THEN "off" ELSE "wait"
  /\ wake = 0
  /\ tickAt = Interval
  /\ seen = 0
  /\ served = 0
  /\ ended = 0

Running == exit = "no"

-----------------------------------------------------------------------------
(* The accept loop.  A Temporary() error is retried and changes nothing.   *)

Accept(c) ==
  /\ Running
  /\ acc = "accept"
  /\ lis = "open"
  /\ clientUp
  /\ conn[c] = "idle"
  /\ acc' = "add"
  /\ cur' = c
  /\ conn' = [conn EXCEPT ![c] = "onConnect"]
  /\ accAt' = now
  /\ UNCHANGED <<now, clientUp, lis, exit, active, last, accStamp, stamp, end, monVars, history>>

OnConnectAdd ==
  /\ Running
  /\ acc = "add"
  /\ active' = active + 1
  /\ acc' = "now"
  /\ UNCHANGED <<now, clientUp, lis, exit, last, cur, accAt, accStamp, connVars, monVars, history>>

OnConnectNow ==
  /\ Running
  /\ acc = "now"
  /\ accStamp' = now
  /\ acc' = "store"
  /\ UNCHANGED <<now, clientUp, lis, exit, active, last, cur, accAt, connVars, monVars, history>>

(* The store ends onConnect; the loop starts the goroutine and accepts again. *)
OnConnectStore ==
  /\ Running
  /\ acc = "store"
  /\ last' = accStamp
  /\ acc' = "accept"
  /\ accStamp' = 0
  /\ conn' = [conn EXCEPT ![cur] = "handling"]
  /\ served' = now
  /\ UNCHANGED <<now, clientUp, lis, exit, active, cur, accAt, stamp, end, monVars, ended>>

(* Accept returns net.ErrClosed: run returns nil and the process exits.    *)
RunReturns ==
  /\ Running
  /\ acc = "accept"
  /\ lis = "closed"
  /\ exit' = "nil"
  /\ UNCHANGED <<now, clientUp, lis, active, last, accVars, connVars, monVars, history>>

(* Any other error: run returns it, the deferred Close closes the listener. *)
AcceptFails ==
  /\ Running
  /\ acc = "accept"
  /\ lis = "open"
  /\ exit' = "err"
  /\ lis' = "closed"
  /\ UNCHANGED <<now, clientUp, active, last, accVars, connVars, monVars, history>>

-----------------------------------------------------------------------------
(* A connection's goroutine: handleConn returns, onDisconnect runs.        *)

HandleConnReturns(c) ==
  /\ Running
  /\ conn[c] = "handling"
  /\ conn' = [conn EXCEPT ![c] = "now"]
  /\ end' = [end EXCEPT ![c] = now]
  /\ UNCHANGED <<now, clientUp, lis, exit, active, last, accVars, stamp, monVars, history>>

OnDisconnectNow(c) ==
  /\ Running
  /\ conn[c] = "now"
  /\ stamp' = [stamp EXCEPT ![c] = now]
  /\ conn' = [conn EXCEPT ![c] = "store"]
  /\ UNCHANGED <<now, clientUp, lis, exit, active, last, accVars, end, monVars, history>>

(* Mutant: onDisconnect leaves lastActivity alone.                         *)
OnDisconnectStoreSkipped(c) ==
  /\ Running
  /\ conn[c] = "store"
  /\ conn' = [conn EXCEPT ![c] = "dec"]
  /\ UNCHANGED <<now, clientUp, lis, exit, active, last, accVars, stamp, end, monVars, history>>

OnDisconnectStore(c) ==
  /\ Running
  /\ conn[c] = "store"
  /\ last' = stamp[c]
  /\ stamp' = [stamp EXCEPT ![c] = 0]
  /\ conn' = [conn EXCEPT ![c] = "dec"]
  /\ UNCHANGED <<now, clientUp, lis, exit, active, accVars, end, monVars, history>>

(* Mutant: a connection is counted out twice.                              *)
OnDisconnectTwice(c) ==
  /\ Running
  /\ conn[c] = "dec"
  /\ active' = active - 2
  /\ conn' = [conn EXCEPT ![c] = "idle"]
  /\ ended' = MaxOf(ended, end[c])
  /\ end' = [end EXCEPT ![c] = 0]
  /\ UNCHANGED <<now, clientUp, lis, exit, last, accVars, stamp, monVars, served>>

OnDisconnectDec(c) ==
  /\ Running
  /\ conn[c] = "dec"
  /\ active' = active - 1
  /\ conn' = [conn EXCEPT ![c] = "idle"]
  /\ ended' = MaxOf(ended, end[c])
  /\ end' = [end EXCEPT ![c] = 0]
  /\ UNCHANGED <<now, clientUp, lis, exit, last, accVars, stamp, monVars, served>>

-----------------------------------------------------------------------------
(* monitor                                                                 *)

MonitorTick ==
  /\ Running
  /\ mon = "wait"
  /\ now >= tickAt
  /\ mon' = "active"
  /\ wake' = now
  /\ tickAt' = tickAt + Interval
  /\ UNCHANGED <<now, clientUp, lis, exit, active, last, accVars, connVars, seen, history>>

(* Mutant: the check of activeConns is missing.                            *)
MonitorIgnoresActive ==
  /\ Running
  /\ mon = "active"
  /\ mon' = "last"
  /\ UNCHANGED <<now, clientUp, lis, exit, active, last, accVars, connVars, wake, tickAt, seen, history>>

MonitorLoadActive ==
  /\ Running
  /\ mon = "active"
  /\ mon' = IF active > 0 THEN "wait" ELSE "last"
  /\ UNCHANGED <<now, clientUp, lis, exit, active, last, accVars, connVars, wake, tickAt, seen, history>>

MonitorLoadLast ==
  /\ Running
  /\ mon = "last"
  /\ seen' = last
  /\ mon' = "since"
  /\ UNCHANGED <<now, clientUp, lis, exit, active, last, accVars, connVars, wake, tickAt, history>>

(* Mutant: the idle time is compared with the wrong bound.                 *)
MonitorSinceLate ==
  /\ Running
  /\ mon = "since"
  /\ mon' = IF now - seen >= 2 * Timeout THEN "close" ELSE "wait"
  /\ UNCHANGED <<now, clientUp, lis, exit, active, last, accVars, connVars, wake, tickAt, seen, history>>

(* time.Since reads the clock after lastActivity was loaded.               *)
MonitorSince ==
  /\ Running
  /\ mon = "since"
  /\ mon' = IF now >= seen + Timeout THEN "close" ELSE "wait"
  /\ UNCHANGED <<now, clientUp, lis, exit, active, last, accVars, connVars, wake, tickAt, seen, history>>

MonitorClose ==
  /\ Running
  /\ mon = "close"
  /\ lis' = "closed"
  /\ mon' = "off"
  /\ UNCHANGED <<now, clientUp, exit, active, last, accVars, connVars, wake, tickAt, seen, history>>

-----------------------------------------------------------------------------
(* The environment.                                                        *)

(* The client exits or crashes: no connection reaches the server any more. *)
ClientGone ==
  /\ Running
  /\ clientUp
  /\ clientUp' = FALSE
  /\ UNCHANGED <<now, lis, exit, active, last, accVars, connVars, monVars, history>>

Tick ==
  /\ Running
  /\ now < MaxTime
  /\ clientUp => now < served + Heartbeat
  /\ acc # "accept" => now < accAt + Delay
  /\ \A c \in Conns : conn[c] \in {"now", "store", "dec"} => now < end[c] + Delay
  /\ mon \notin {"off", "wait"} => now < wake + Delay
  /\ mon = "wait" => now < tickAt + Delay
  /\ now' = now + 1
  /\ UNCHANGED <<clientUp, lis, exit, active, last, accVars, connVars, monVars, history>>

Next ==
  \/ \E c \in Conns : \/ Accept(c)
                      \/ HandleConnReturns(c)
                      \/ OnDisconnectNow(c)
                      \/ OnDisconnectStore(c)
                      \/ OnDisconnectDec(c)
  \/ OnConnectAdd \/ OnConnectNow \/ OnConnectStore
  \/ RunReturns \/ AcceptFails
  \/ MonitorTick \/ MonitorLoadActive \/ MonitorLoadLast \/ MonitorSince \/ MonitorClose
  \/ ClientGone
  \/ Tick

Spec == Init /\ [][Next]_vars

-----------------------------------------------------------------------------
(* Properties *)

Busy == \E c \in Conns : conn[c] # "idle"

(* The timing under which heartbeats keep the server alive: the default    *)
(* values are 5 minutes and 5 seconds.                                     *)
TimingOK == Timeout > Heartbeat + 3 * Delay

(* onDisconnect refreshes lastActivity before it counts the connection     *)
(* out, so that whatever monitor combines with activeConns = 0 is no older *)
(* than the end of every connection counted out, up to the time a thread   *)
(* may take between reading the clock and storing it.                      *)
LastActivityFresh == last + Delay >= ended

(* monitor closes the listener, which ends the process, only when the      *)
(* client is gone and no connection is open: neither a server whose client *)
(* sends heartbeats nor a connection accepted during monitor's check is    *)
(* shut down, although the check is not atomic.                            *)
SafeShutdown ==
  (lis = "closed" /\ exit # "err") => ~clientUp /\ ~Busy

(* A server without connections is never left open for longer than Timeout *)
(* after its lastActivity, one ticker period and one check: the Job of a   *)
(* client that crashed completes and can be garbage-collected.             *)
IdleShutdownInTime ==
  (lis = "open" /\ ~Busy /\ Timeout > 0)
    => now < last + Timeout + Interval + 2 * Delay

=============================================================================
