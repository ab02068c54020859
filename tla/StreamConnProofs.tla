-------------------------- MODULE StreamConnProofs --------------------------
(***************************************************************************)
(* Proofs about StreamConn, for any number of local connections and any    *)
(* faults.                                                                 *)
(***************************************************************************)
EXTENDS StreamConn, TLAPS

LEMMA HandleTypes ==
  ASSUME TypeOK, NEW s \in Sessions, Handle(s)
  PROVE  TypeOK'
<1> USE DEF TypeOK, HandlerPhases, Copy, conn, copies, streams, beats
<1>1. CASE CreateStream(s)
  <2>1. corrupt \in BOOLEAN /\ ended' = [ended EXCEPT ![s] = corrupt]
    BY <1>1 DEF CreateStream
  <2>2. ended' \in [Sessions -> BOOLEAN]
    BY <2>1
  <2>3. \E m \in {"sandbox", "none"} : message' = [message EXCEPT ![s] = m]
    BY <1>1 DEF CreateStream
  <2>4. message' \in [Sessions -> {"none", "other", "sandbox"}]
    BY <2>3
  <2> QED BY <1>1, <2>2, <2>4 DEF CreateStream
<1>2. CASE CreateStreamFails(s)
  BY <1>2 DEF CreateStreamFails
<1>3. CASE WriteHeader(s)
  BY <1>3 DEF WriteHeader
<1>4. CASE ReadAck(s)
  BY <1>4 DEF ReadAck
<1>5. CASE HandlerFails(s)
  BY <1>5 DEF HandlerFails
<1>6. CASE HandlerSelect(s)
  BY <1>6 DEF HandlerSelect
<1>7. CASE HandlerReturns(s)
  <2>1. errRead' \in [Sessions -> {"off", "read", "send", "close", "done"}]
    BY <1>7 DEF HandlerReturns
  <2> QED BY <1>7, <2>1 DEF HandlerReturns
<1> QED
  BY <1>1, <1>2, <1>3, <1>4, <1>5, <1>6, <1>7 DEF Handle

LEMMA SessionTypes ==
  ASSUME TypeOK, NEW s \in Sessions,
         \/ FromRemoteEnds(s) \/ ToRemoteEnds(s) \/ ErrorGoroutine(s) \/ Flow(s)
         \/ ClientCloses(s) \/ ClientResets(s) \/ ServerEnds(s) \/ ServerEndsWithError(s)
  PROVE  TypeOK'
<1> USE DEF TypeOK, HandlerPhases, Copy, conn, copies, streams, beats
<1>1. CASE FromRemoteEnds(s)
  BY <1>1 DEF FromRemoteEnds
<1>2. CASE ToRemoteEnds(s)
  <2>1. \/ UNCHANGED localError
        \/ \E failed \in {localError[s], TRUE} : localError' = [localError EXCEPT ![s] = failed]
    BY <1>2 DEF ToRemoteEnds, LocalReadEnds, StreamWriteFails
  <2>2. localError' \in [Sessions -> BOOLEAN]
    BY <2>1
  <2>3. /\ toRemote' = [toRemote EXCEPT ![s] = "done"]
        /\ UNCHANGED <<conn, loop, handler, local, fromRemote, streams, beats, main>>
    BY <1>2 DEF ToRemoteEnds
  <2> QED BY <2>2, <2>3
<1>8. CASE Flow(s)
  BY <1>8 DEF Flow, FromRemoteBlocks, ClientReceives, ToRemoteBlocks, ServerReceives
<1>3. CASE ErrorStreamEnds(s)
  <2>1. message' \in [Sessions -> {"none", "other", "sandbox"}]
    BY <1>3 DEF ErrorStreamEnds
  <2>2. \E phase \in {"close", "send"} : errRead' = [errRead EXCEPT ![s] = phase]
    BY <1>3 DEF ErrorStreamEnds
  <2>3. errRead' \in [Sessions -> {"off", "read", "send", "close", "done"}]
    BY <2>2
  <2> QED BY <1>3, <2>1, <2>3 DEF ErrorStreamEnds
<1>4. CASE ErrorChanClosed(s)
  <2>1. connUp' \in BOOLEAN
    BY <1>4 DEF ErrorChanClosed
  <2> QED BY <1>4, <2>1 DEF ErrorChanClosed
<1>5. CASE ClientCloses(s) \/ ClientResets(s)
  BY <1>5 DEF ClientCloses, ClientResets
<1>6. CASE ServerEnds(s)
  BY <1>6 DEF ServerEnds
<1>7. CASE ServerEndsWithError(s)
  BY <1>7 DEF ServerEndsWithError
<1> QED
  BY <1>1, <1>2, <1>3, <1>4, <1>5, <1>6, <1>7, <1>8 DEF ErrorGoroutine

LEMMA ConnectionTypes ==
  ASSUME TypeOK,
         \/ LoopSelect \/ (\E s \in Sessions : LoopAccept(s))
         \/ Heartbeat \/ HeartbeatErrorRead
         \/ SandboxCloses \/ ConnLost
         \/ MainReturns
  PROVE  TypeOK'
<1> USE DEF TypeOK, HandlerPhases, Copy, conn, copies, streams, beats
<1>1. CASE LoopSelect
  BY <1>1 DEF LoopSelect
<1>2. CASE \E s \in Sessions : LoopAccept(s)
  BY <1>2 DEF LoopAccept
<1>3. CASE HeartbeatCreates
  <2>1. beatError' \in BOOLEAN
    BY <1>3 DEF HeartbeatCreates
  <2> QED BY <1>3, <2>1 DEF HeartbeatCreates
<1>4. CASE HeartbeatTick \/ HeartbeatFails \/ HeartbeatWrites
  BY <1>4 DEF HeartbeatTick, HeartbeatFails, HeartbeatWrites
<1>5. CASE HeartbeatErrorRead
  BY <1>5 DEF HeartbeatErrorRead
<1>6. CASE SandboxCloses
  BY <1>6 DEF SandboxCloses
<1>7. CASE ConnLost \/ MainReturns
  BY <1>7 DEF ConnLost, MainReturns
<1> QED
  BY <1>1, <1>2, <1>3, <1>4, <1>5, <1>6, <1>7 DEF Heartbeat

(* The goroutines of a command and of its sessions stay where their code   *)
(* has a place for them, and a handler that uses a stream has got one.     *)
THEOREM TypeCorrect == Spec => []TypeOK
<1>1. Init => TypeOK
  <2> SUFFICES ASSUME Init PROVE TypeOK
    OBVIOUS
  <2>1. connUp \in BOOLEAN /\ corrupt \in BOOLEAN /\ beatError \in BOOLEAN
    BY DEF Init
  <2>2. /\ local \in [Sessions -> {"open", "fin", "reset"}] /\ localError \in [Sessions -> BOOLEAN]
        /\ ended \in [Sessions -> BOOLEAN]
    BY DEF Init
  <2>3. /\ handler \in [Sessions -> HandlerPhases]
        /\ fromRemote \in [Sessions -> Copy]
        /\ toRemote \in [Sessions -> Copy]
        /\ message \in [Sessions -> {"none", "other", "sandbox"}]
        /\ errRead \in [Sessions -> {"off", "read", "send", "close", "done"}]
    BY DEF Init, HandlerPhases, Copy
  <2>4. loop = "select" /\ heart = "wait" /\ main = "running"
    BY DEF Init
  <2>5. \A s \in Sessions : handler[s] = "idle"
    BY DEF Init
  <2> QED BY <2>1, <2>2, <2>3, <2>4, <2>5 DEF TypeOK
<1>2. TypeOK /\ [Next]_vars => TypeOK'
  <2> SUFFICES ASSUME TypeOK, [Next]_vars PROVE TypeOK'
    OBVIOUS
  <2>1. CASE Next
    BY <2>1, HandleTypes, SessionTypes, ConnectionTypes DEF Next
  <2>2. CASE UNCHANGED vars
    BY <2>2 DEF vars, conn, copies, streams, beats, TypeOK, Copy
  <2> QED BY <2>1, <2>2
<1> QED BY <1>1, <1>2, PTL DEF Spec

=============================================================================
