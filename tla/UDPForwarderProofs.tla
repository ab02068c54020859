------------------------ MODULE UDPForwarderProofs ------------------------
(***************************************************************************)
(* Proofs about UDPForwarder, for any clients, any number of datagrams and *)
(* any faults: its types, the exactness of the conntrack table, the order  *)
(* of the datagrams written, and that it implements UDPSessions.           *)
(***************************************************************************)
EXTENDS UDPForwarder, TLAPS

USE DEF Get, Set, Delete

(* A session is opened by a datagram, so that there are never more         *)
(* sessions of a client than datagrams read from it.                       *)
Opening ==
  /\ \A c \in Clients : opened[c] <= taken[c]
  /\ loop = "open" => opened[pkt.from] < taken[pkt.from]

(* The sessions of c that exist are the first opened[c] ones.  All but the *)
(* last are done.  The last is in the table until the finisher, having     *)
(* taken its key, deletes it.                                              *)
Tracking(c) ==
  /\ \A k \in Gens : handler[<<c, k>>] = "none" <=> k > opened[c]
  /\ \A k \in Gens : handler[<<c, k>>] \notin {"none", "done"} => track[c] = k
  /\ track[c] # 0 => /\ track[c] = opened[c]
                     /\ handler[<<c, track[c]>>] = "done" => finisher = c
  /\ finisher = c => /\ track[c] # 0
                     /\ handler[<<c, track[c]>>] = "done"

(* The loop opens a session only for a client that has none in the table:  *)
(* nobody else sets the table.                                             *)
TrackInv ==
  /\ \A c \in Clients : Tracking(c)
  /\ loop = "open" => track[pkt.from] = 0

IInv == TypeOK /\ Opening /\ TrackInv

LEMMA InitInv == Init => IInv
<1> SUFFICES ASSUME Init PROVE IInv
  OBVIOUS
<1> USE ConstantsAssumption
<1>1. TypeOK
  BY DEF Init, TypeOK, LoopPhases, HandlerPhases, WriterPhases, ReaderPhases, Sessions, Gens
<1>2. Opening
  BY DEF Init, Opening
<1>3. TrackInv
  BY DEF Init, TrackInv, Tracking, Sessions, Gens
<1> QED
  BY <1>1, <1>2, <1>3 DEF IInv

LEMMA TypeStep == IInv /\ [Next]_vars => TypeOK'
<1> SUFFICES ASSUME IInv, [Next]_vars PROVE TypeOK'
  OBVIOUS
<1> USE ConstantsAssumption DEF IInv, TypeOK
<1>1. CASE LoopSelect
  BY <1>1 DEF LoopSelect, sessionVars, LoopPhases
<1>2. ASSUME NEW c \in Clients, LoopRead(c) PROVE TypeOK'
  <2>1. taken[c] + 1 \in Gens /\ taken[c] + 1 \in 0..MaxSend
    BY <1>2 DEF LoopRead, Gens
  <2>2. taken' \in [Clients -> 0..MaxSend] /\ pkt' \in Packets
    BY <1>2, <2>1 DEF LoopRead, Packets
  <2>3. loop' \in LoopPhases /\ (loop' = "send" => ch' \in Sessions)
    BY <1>2 DEF LoopRead, LoopPhases, Sessions, Gens
  <2> QED BY <1>2, <2>2, <2>3 DEF LoopRead, sessionVars
<1>3. CASE LoopOpen
  <2>1. PICK c \in Clients : c = pkt.from
    BY <1>3 DEF LoopOpen, Packets
  <2>2. opened[c] + 1 \in Gens /\ <<c, opened[c] + 1>> \in Sessions
    BY <1>3, <2>1 DEF LoopOpen, Opening, Sessions, Gens
  <2>3. /\ opened' \in [Clients -> 0..MaxSend]
        /\ track' \in [Clients -> 0..MaxSend]
    <3>1. /\ opened' = [opened EXCEPT ![c] = @ + 1]
          /\ track' = [track EXCEPT ![c] = opened[c] + 1]
      BY <1>3, <2>1 DEF LoopOpen
    <3>2. opened[c] + 1 \in 0..MaxSend
      BY <2>2 DEF Gens
    <3> QED BY <3>1, <3>2
  <2>4. handler' \in [Sessions -> HandlerPhases]
    BY <1>3, <2>1, <2>2 DEF LoopOpen, HandlerPhases
  <2> QED
    BY <1>3, <2>1, <2>2, <2>3, <2>4 DEF LoopOpen, LoopPhases
<1>4. CASE LoopSend
  <2>1. pkt.n \in Gens /\ pkt.n \in 0..MaxSend
    BY <1>4 DEF LoopSend, Packets, Gens
  <2>2. /\ writer' \in [Sessions -> WriterPhases]
        /\ data' \in [Sessions -> 0..MaxSend]
        /\ \A s \in Sessions : writer'[s] = "write" => data'[s] \in Gens
    BY <1>4, <2>1 DEF LoopSend, WriterPhases
  <2> QED BY <1>4, <2>2 DEF LoopSend, LoopPhases
<1>5. CASE LoopReadFails
  BY <1>5 DEF LoopReadFails, sessionVars, LoopPhases
<1>6. CASE FinisherDelete
  BY <1>6 DEF FinisherDelete, sessionVars, loopVars
<1>7. ASSUME NEW s \in Sessions, Handle(s) PROVE TypeOK'
  <2>1. CASE Finish(s)
    BY <2>1 DEF Finish, loopVars, Sessions, HandlerPhases
  <2>2. CASE ReadAck(s)
    BY <2>2 DEF ReadAck, loopVars, HandlerPhases, WriterPhases, ReaderPhases
  <2>3. CASE CreateStream(s) \/ WriteHeader(s) \/ HandlerFails(s) \/ HandlerReturns(s)
    BY <2>3 DEF CreateStream, WriteHeader, HandlerFails, HandlerReturns, loopVars, HandlerPhases
  <2> QED BY <1>7, <2>1, <2>2, <2>3 DEF Handle
<1>8. ASSUME NEW s \in Sessions, Write(s) PROVE TypeOK'
  <2>1. CASE WriterStops(s)
    BY <2>1 DEF WriterStops, loopVars, WriterPhases
  <2>2. CASE WriterWrites(s)
    <3>1. up' \in [Sessions -> Seq(Gens)]
      BY <2>2 DEF WriterWrites
    <3> QED BY <3>1, <2>2 DEF WriterWrites, loopVars, WriterPhases
  <2>3. CASE WriterFails(s)
    BY <2>3 DEF WriterFails, loopVars, WriterPhases
  <2> QED BY <1>8, <2>1, <2>2, <2>3 DEF Write
<1>9. ASSUME NEW s \in Sessions, ReaderStops(s) \/ ServerCloses(s) PROVE TypeOK'
  BY <1>9 DEF ReaderStops, ServerCloses, loopVars, ReaderPhases
<1>10. ASSUME NEW c \in Clients, Arrive(c) PROVE TypeOK'
  <2>1. arrived' \in [Clients -> 0..MaxSend]
    BY <1>10 DEF Arrive
  <2> QED BY <1>10, <2>1 DEF Arrive, loopVars, sessionVars
<1>11. CASE ConnCloses
  BY <1>11 DEF ConnCloses, loopVars, sessionVars
<1>12. CASE UNCHANGED vars
  BY <1>12 DEF vars, loopVars, sessionVars
<1> QED
  BY <1>1, <1>2, <1>3, <1>4, <1>5, <1>6, <1>7, <1>8, <1>9, <1>10, <1>11, <1>12 DEF Next, Loop

LEMMA OpeningStep == IInv /\ [Next]_vars => Opening'
<1> SUFFICES ASSUME IInv, [Next]_vars PROVE Opening'
  OBVIOUS
<1> USE ConstantsAssumption DEF IInv, Opening
<1>1. CASE LoopSelect
  BY <1>1 DEF LoopSelect
<1>2. ASSUME NEW c \in Clients, LoopRead(c) PROVE Opening'
  BY <1>2 DEF LoopRead, TypeOK
<1>3. CASE LoopOpen
  BY <1>3 DEF LoopOpen, TypeOK, Packets
<1>4. CASE LoopSend
  BY <1>4 DEF LoopSend
<1>5. CASE LoopReadFails
  BY <1>5 DEF LoopReadFails
<1>6. CASE UNCHANGED <<taken, opened, loopVars>>
  BY <1>6 DEF loopVars
<1>7. ASSUME NEW s \in Sessions, Handle(s) \/ Write(s) PROVE UNCHANGED <<taken, opened, loopVars>>
  BY <1>7 DEF Handle, CreateStream, WriteHeader, ReadAck, HandlerFails, HandlerReturns, Finish,
       Write, WriterStops, WriterWrites, WriterFails
<1>8. ASSUME NEW s \in Sessions, ReaderStops(s) \/ ServerCloses(s)
      PROVE  UNCHANGED <<taken, opened, loopVars>>
  BY <1>8 DEF ReaderStops, ServerCloses
<1>9. ASSUME NEW c \in Clients, Arrive(c) PROVE UNCHANGED <<taken, opened, loopVars>>
  BY <1>9 DEF Arrive
<1>10. CASE FinisherDelete \/ ConnCloses \/ UNCHANGED vars
  BY <1>6, <1>10 DEF FinisherDelete, ConnCloses, vars
<1> QED
  BY <1>1, <1>2, <1>3, <1>4, <1>5, <1>6, <1>7, <1>8, <1>9, <1>10 DEF Next, Loop

(* What a session's place in the table depends on. *)
trackVars == <<handler, opened, track, finisher>>

LEMMA TrackStep == IInv /\ [Next]_vars => TrackInv'
<1> SUFFICES ASSUME IInv, [Next]_vars PROVE TrackInv'
  OBVIOUS
<1> USE ConstantsAssumption DEF IInv, TrackInv
<1>1. CASE UNCHANGED trackVars /\ (loop' = "open" => loop = "open" /\ UNCHANGED pkt)
  BY <1>1 DEF trackVars, Tracking
<1>2. CASE LoopSelect \/ LoopSend \/ LoopReadFails
  BY <1>1, <1>2 DEF LoopSelect, LoopSend, LoopReadFails, sessionVars, trackVars
<1>3. ASSUME NEW c \in Clients, LoopRead(c) PROVE TrackInv'
  BY <1>3 DEF LoopRead, sessionVars, Tracking
<1>4. CASE LoopOpen
  <2>0. PICK c \in Clients : c = pkt.from
    BY <1>4 DEF LoopOpen, TypeOK, Packets
  <2>1. c = pkt.from /\ opened[c] + 1 \in Gens /\ track[c] = 0
    BY <1>4, <2>0 DEF LoopOpen, Opening, TypeOK, Packets, Gens
  <2>2. ASSUME NEW d \in Clients PROVE Tracking(d)'
    <3>1. Tracking(d)
      OBVIOUS
    <3>2. CASE d # c
      <4>1. opened'[d] = opened[d] /\ track'[d] = track[d] /\ finisher' = finisher
        BY <1>4, <2>1, <3>2 DEF LoopOpen, TypeOK
      <4>2. \A k \in Gens : handler'[<<d, k>>] = handler[<<d, k>>]
        BY <1>4, <2>1, <3>2 DEF LoopOpen, TypeOK, Sessions
      <4>3. track[d] # 0 => track[d] \in Gens
        BY DEF TypeOK, Gens
      <4> QED
        BY <3>1, <4>1, <4>2, <4>3 DEF Tracking
    <3>3. CASE d = c
      <4>1. opened' = [opened EXCEPT ![c] = @ + 1] /\ opened'[c] = opened[c] + 1
        BY <1>4, <2>1 DEF LoopOpen, TypeOK
      <4>2. track'[c] = opened[c] + 1 /\ finisher' = finisher
        BY <1>4, <2>1 DEF LoopOpen, TypeOK
      <4>3. ASSUME NEW k \in Gens
            PROVE handler'[<<c, k>>] = IF k = opened[c] + 1 THEN "create" ELSE handler[<<c, k>>]
        BY <1>4, <2>1 DEF LoopOpen, TypeOK, Sessions
      <4>4. finisher # c
        BY <2>1, <3>1, <3>3 DEF Tracking
      <4> QED
        <5>1. opened[c] \in Nat /\ \A k \in Gens : k \in Nat /\ k > 0
          BY <2>1 DEF TypeOK, Gens
        <5>2. Tracking(c)
          BY <3>1, <3>3
        <5>3. Tracking(c)'
          BY <2>1, <4>1, <4>2, <4>3, <4>4, <5>1, <5>2 DEF Tracking
        <5> QED BY <3>3, <5>3
    <3> QED BY <3>2, <3>3
  <2> QED
    BY <1>4, <2>2 DEF LoopOpen
<1>5. CASE FinisherDelete
  <2>1. finisher \in Clients
    BY <1>5 DEF FinisherDelete, TypeOK
  <2>2. ASSUME NEW d \in Clients PROVE Tracking(d)'
    BY <1>5, <2>1, <2>2 DEF FinisherDelete, Tracking, TypeOK, sessionVars, Gens
  <2> QED
    BY <1>5, <2>1, <2>2 DEF FinisherDelete, TypeOK, loopVars, Packets
<1>6. ASSUME NEW s \in Sessions, Handle(s) PROVE TrackInv'
  <2> PICK c \in Clients, k \in Gens : s = <<c, k>>
    BY DEF Sessions
  <2>1. CASE Finish(s)
    <3>1. track[c] = k /\ finisher' = c /\ finisher = None
      BY <2>1 DEF Finish, Tracking
    <3>0. /\ UNCHANGED <<opened, track>>
          /\ c # None
          /\ \A d \in Clients : \A j \in Gens :
               handler'[<<d, j>>] = IF <<d, j>> = <<c, k>> THEN "done" ELSE handler[<<d, j>>]
      BY <2>1 DEF Finish, TypeOK, Sessions
    <3>2. ASSUME NEW d \in Clients, d # c PROVE Tracking(d)'
      <4>1. \A j \in Gens : handler'[<<d, j>>] = handler[<<d, j>>]
        BY <3>0, <3>2
      <4>2. Tracking(d) /\ (track[d] # 0 => track[d] \in Gens) /\ finisher # d
        BY <3>1 DEF TypeOK, Gens
      <4> QED BY <3>0, <3>1, <3>2, <4>1, <4>2 DEF Tracking
    <3>3. Tracking(c)'
      <4>1. \A j \in Gens : handler'[<<c, j>>] = IF j = k THEN "done" ELSE handler[<<c, j>>]
        BY <3>0
      <4>2. Tracking(c) /\ handler[<<c, k>>] = "finish" /\ k # 0
        BY <2>1 DEF Finish, Gens
      <4> QED BY <3>0, <3>1, <4>1, <4>2 DEF Tracking
    <3> QED BY <2>1, <3>2, <3>3 DEF Finish, loopVars
  <2>2. CASE CreateStream(s) \/ WriteHeader(s) \/ ReadAck(s) \/ HandlerFails(s) \/ HandlerReturns(s)
    <3>1. /\ handler[s] \notin {"none", "done"}
          /\ \E x \in {"header", "ack", "wait", "finish"} : handler' = [handler EXCEPT ![s] = x]
          /\ UNCHANGED <<opened, track, finisher, loopVars>>
      BY <2>2 DEF CreateStream, WriteHeader, ReadAck, HandlerFails, HandlerReturns
    <3>2. ASSUME NEW d \in Clients PROVE Tracking(d)'
      <4>1. Tracking(d) /\ (track[d] # 0 => track[d] \in Gens)
        BY DEF TypeOK, Gens
      <4>2. \A j \in Gens : \/ handler'[<<d, j>>] = handler[<<d, j>>]
                            \/ /\ handler'[<<d, j>>] \notin {"none", "done"}
                               /\ handler[<<d, j>>] \notin {"none", "done"}
        BY <3>1 DEF TypeOK, Sessions
      <4> QED
        BY <3>1, <4>1, <4>2 DEF Tracking
    <3> QED BY <3>1, <3>2 DEF loopVars
  <2> QED BY <1>6, <2>1, <2>2 DEF Handle
<1>7. ASSUME NEW s \in Sessions, Write(s) \/ ReaderStops(s) \/ ServerCloses(s) PROVE TrackInv'
  BY <1>1, <1>7 DEF Write, WriterStops, WriterWrites, WriterFails, ReaderStops, ServerCloses,
       trackVars, loopVars
<1>8. ASSUME NEW c \in Clients, Arrive(c) PROVE TrackInv'
  BY <1>1, <1>8 DEF Arrive, trackVars, loopVars, sessionVars
<1>9. CASE ConnCloses \/ UNCHANGED vars
  BY <1>1, <1>9 DEF ConnCloses, vars, trackVars, loopVars, sessionVars
<1> QED
  BY <1>2, <1>3, <1>4, <1>5, <1>6, <1>7, <1>8, <1>9 DEF Next, Loop

LEMMA InvInvariant == Spec => []IInv
<1>1. IInv /\ [Next]_vars => IInv'
  BY TypeStep, OpeningStep, TrackStep DEF IInv
<1> QED
  BY <1>1, InitInv, PTL DEF Spec

(* The variables of the loop, the table and the sessions always hold       *)
(* values of their types: in particular no more sessions are opened for a  *)
(* client than it has sent datagrams, and a writer that writes holds one.  *)
THEOREM TypeCorrect == Spec => []TypeOK
<1>1. IInv => TypeOK
  BY DEF IInv
<1> QED
  BY <1>1, InvInvariant, PTL

(* The conntrack table maps each client to its one live session.           *)
THEOREM TrackIsExact == Spec => []TrackExact
<1>1. IInv => TrackExact
  <2> SUFFICES ASSUME IInv, NEW c \in Clients, NEW k \in Gens
               PROVE  Live(<<c, k>>) <=> track[c] = k
    BY DEF TrackExact, Sessions
  <2>1. Tracking(c) /\ opened[c] \in 0..MaxSend /\ track[c] \in 0..MaxSend /\ MaxSend \in Nat
    BY ConstantsAssumption DEF IInv, TrackInv, TypeOK
  <2> QED
    BY <2>1 DEF Live, Tracking, Gens
<1> QED
  BY <1>1, InvInvariant, PTL

-----------------------------------------------------------------------------
(* The order of the datagrams                                              *)

(* Datagram n is in the hands of session s: written, or about to be.       *)
Holds(s, n) ==
  \/ \E i \in DOMAIN up[s] : up[s][i] = n
  \/ writer[s] = "write" /\ data[s] = n

(* What a session writes next is newer than all it has written.            *)
NextIsNewer ==
  \A s \in Sessions : /\ \A i, j \in DOMAIN up[s] : i < j => up[s][i] < up[s][j]
                      /\ writer[s] = "write" => \A i \in DOMAIN up[s] : up[s][i] < data[s]

(* A later session of a client holds newer datagrams only, no session      *)
(* holds one that has not been read, and one not opened holds none.        *)
SessionsInOrder ==
  /\ \A c \in Clients : \A j, k \in Gens : \A m, n \in Gens :
       j < k /\ Holds(<<c, j>>, m) /\ Holds(<<c, k>>, n) => m < n
  /\ \A c \in Clients : \A k \in Gens : \A n \in Gens :
       Holds(<<c, k>>, n) => n <= taken[c] /\ k <= opened[c]

(* The datagram the loop holds is the last one read from its client, no    *)
(* session has it yet, and it goes to the client's last session.           *)
LoopHoldsNewest ==
  /\ loop \in {"open", "send"} =>
       /\ pkt.n = taken[pkt.from]
       /\ \A k \in Gens : \A n \in Gens : Holds(<<pkt.from, k>>, n) => n < pkt.n
  /\ loop = "send" => ch = <<pkt.from, opened[pkt.from]>>

OrderInv == NextIsNewer /\ SessionsInOrder /\ LoopHoldsNewest

LEMMA InitOrder == Init => OrderInv
<1> SUFFICES ASSUME Init PROVE OrderInv
  OBVIOUS
<1>1. \A s \in Sessions : up[s] = <<>> /\ writer[s] = "none"
  BY DEF Init
<1>2. \A c \in Clients : \A k, n \in Gens : ~Holds(<<c, k>>, n)
  BY <1>1 DEF Holds, Sessions
<1> QED
  BY <1>1, <1>2 DEF Init, OrderInv, NextIsNewer, SessionsInOrder, LoopHoldsNewest

(* A step that hands no datagram to a writer. *)
Quiet ==
  /\ up' = up
  /\ \A s \in Sessions : writer'[s] = "write" => writer[s] = "write" /\ data'[s] = data[s]

LEMMA QuietKeepsHolds ==
  ASSUME Quiet, NEW c \in Clients, NEW k \in Gens, NEW n \in Gens, Holds(<<c, k>>, n)'
  PROVE  Holds(<<c, k>>, n)
BY DEF Quiet, Holds, Sessions

LEMMA QuietKeepsOrder ==
  ASSUME IInv, IInv', OrderInv, Quiet,
         UNCHANGED taken, \A c \in Clients : opened[c] <= opened'[c]
  PROVE  NextIsNewer' /\ SessionsInOrder'
<1>1. NextIsNewer'
  BY DEF OrderInv, NextIsNewer, Quiet
<1>2. ASSUME NEW c \in Clients, NEW j \in Gens, NEW k \in Gens, NEW m \in Gens, NEW n \in Gens,
             j < k, Holds(<<c, j>>, m)', Holds(<<c, k>>, n)'
      PROVE  m < n
  BY <1>2, QuietKeepsHolds DEF OrderInv, SessionsInOrder
<1>3. ASSUME NEW c \in Clients, NEW k \in Gens, NEW n \in Gens, Holds(<<c, k>>, n)'
      PROVE  n <= taken'[c] /\ k <= opened'[c]
  <2>1. n <= taken[c] /\ k <= opened[c]
    BY <1>3, QuietKeepsHolds DEF OrderInv, SessionsInOrder
  <2> QED BY <2>1 DEF IInv, TypeOK, Gens
<1> QED
  BY <1>1, <1>2, <1>3 DEF SessionsInOrder

LEMMA QuietKeepsAll ==
  ASSUME IInv, IInv', OrderInv, Quiet, UNCHANGED <<taken, opened>>,
         loop' \in {"open", "send"} => UNCHANGED loopVars
  PROVE  OrderInv'
<1>1. NextIsNewer' /\ SessionsInOrder'
  <2>1. \A c \in Clients : opened[c] <= opened'[c]
    BY DEF IInv, TypeOK
  <2> QED BY <2>1, QuietKeepsOrder
<1>2. CASE loop' \notin {"open", "send"}
  BY <1>1, <1>2 DEF OrderInv, LoopHoldsNewest
<1>3. CASE loop' \in {"open", "send"}
  <2>1. pkt \in Packets /\ pkt' = pkt /\ loop' = loop /\ ch' = ch
    BY <1>3 DEF loopVars, IInv, TypeOK
  <2>2. LoopHoldsNewest'
    BY <1>3, <2>1, QuietKeepsHolds DEF LoopHoldsNewest, OrderInv, Packets
  <2> QED BY <1>1, <2>2 DEF OrderInv
<1> QED BY <1>2, <1>3

LEMMA OrderStep == IInv /\ IInv' /\ OrderInv /\ [Next]_vars => OrderInv'
<1> SUFFICES ASSUME IInv, IInv', OrderInv, [Next]_vars PROVE OrderInv'
  OBVIOUS
<1> USE ConstantsAssumption
<1>1. CASE LoopSelect \/ LoopReadFails
  BY <1>1, QuietKeepsAll DEF LoopSelect, LoopReadFails, Quiet, sessionVars
<1>2. ASSUME NEW c \in Clients, LoopRead(c) PROVE OrderInv'
  <2>1. /\ Quiet /\ UNCHANGED opened
        /\ taken[c] + 1 \in Gens /\ taken'[c] = taken[c] + 1
        /\ \A d \in Clients : taken'[d] \in Nat /\ taken[d] \in Nat /\ taken[d] <= taken'[d]
        /\ pkt'.from = c /\ pkt'.n = taken[c] + 1
        /\ loop' = "send" => ch' = <<c, track[c]>> /\ track[c] # 0
    <3>1. /\ Quiet /\ UNCHANGED opened
          /\ taken' = [taken EXCEPT ![c] = @ + 1] /\ taken[c] < arrived[c]
          /\ pkt' = [from |-> c, n |-> taken[c] + 1]
          /\ loop' = "send" => ch' = <<c, track[c]>> /\ track[c] # 0
      BY <1>2 DEF LoopRead, sessionVars, Quiet
    <3>2. taken \in [Clients -> 0..MaxSend] /\ arrived[c] \in 0..MaxSend
      BY DEF IInv, TypeOK
    <3>3. taken[c] + 1 \in Gens
      BY <3>1, <3>2 DEF Gens
    <3>4. \A d \in Clients : taken'[d] = IF d = c THEN taken[d] + 1 ELSE taken[d]
      BY <3>1, <3>2
    <3> QED BY <3>1, <3>2, <3>3, <3>4
  <2>2. NextIsNewer'
    BY <2>1 DEF OrderInv, NextIsNewer, Quiet
  <2>3. SessionsInOrder'
    BY <2>1, QuietKeepsHolds DEF OrderInv, SessionsInOrder, Gens
  <2>4. LoopHoldsNewest'
    <3>1. \A k, n \in Gens : Holds(<<c, k>>, n)' => n < taken[c] + 1
      BY <2>1, QuietKeepsHolds DEF OrderInv, SessionsInOrder, Gens
    <3>2. track[c] # 0 => track[c] = opened[c]
      BY DEF IInv, TrackInv, Tracking
    <3> QED BY <2>1, <3>1, <3>2 DEF LoopHoldsNewest
  <2> QED BY <2>2, <2>3, <2>4 DEF OrderInv
<1>3. CASE LoopOpen
  <2>1. PICK c \in Clients : c = pkt.from
    BY <1>3 DEF LoopOpen, IInv, TypeOK, Packets
  <2>2. /\ Quiet /\ UNCHANGED <<taken, pkt>>
        /\ opened'[c] = opened[c] + 1
        /\ \A d \in Clients : opened[d] <= opened'[d]
        /\ ch' = <<c, opened[c] + 1>>
        /\ loop = "open"
    <3>1. Quiet /\ UNCHANGED <<taken, pkt>>
      BY <1>3 DEF LoopOpen, Quiet
    <3>2. opened' = [opened EXCEPT ![c] = @ + 1] /\ ch' = <<c, opened[c] + 1>> /\ loop = "open"
      BY <1>3, <2>1 DEF LoopOpen
    <3>3. opened \in [Clients -> 0..MaxSend]
      BY DEF IInv, TypeOK
    <3>4. \A d \in Clients : opened'[d] = IF d = c THEN opened[d] + 1 ELSE opened[d]
      BY <3>2, <3>3
    <3> QED BY <3>1, <3>2, <3>3, <3>4
  <2>3. NextIsNewer' /\ SessionsInOrder'
    BY <2>2, QuietKeepsOrder
  <2>4. LoopHoldsNewest'
    BY <2>1, <2>2, QuietKeepsHolds DEF OrderInv, LoopHoldsNewest
  <2> QED BY <2>3, <2>4 DEF OrderInv
<1>4. CASE LoopSend
  <2>1. PICK c \in Clients : c = pkt.from
    BY <1>4 DEF LoopSend, IInv, TypeOK, Packets
  <2> DEFINE o == opened[c]
             p == pkt.n
  <2>2. /\ p \in Gens /\ p = taken[c]
        /\ o \in Gens /\ ch = <<c, o>> /\ <<c, o>> \in Sessions
        /\ loop' = "select"
        /\ UNCHANGED <<taken, opened, up>>
        /\ writer' = [writer EXCEPT ![<<c, o>>] = "write"]
        /\ data' = [data EXCEPT ![<<c, o>>] = p]
    BY <1>4, <2>1 DEF LoopSend, OrderInv, LoopHoldsNewest, IInv, TypeOK, Packets, Sessions
  <2>3. \A k, n \in Gens : Holds(<<c, k>>, n) => n < p /\ k <= o
    BY <1>4, <2>1 DEF LoopSend, OrderInv, LoopHoldsNewest, SessionsInOrder
  <2>4. ASSUME NEW d \in Clients, NEW k \in Gens, NEW n \in Gens, Holds(<<d, k>>, n)'
        PROVE  Holds(<<d, k>>, n) \/ (d = c /\ k = o /\ n = p)
    BY <2>2, <2>4 DEF Holds, IInv, TypeOK, Sessions
  <2>5. NextIsNewer'
    <3>1. ASSUME NEW s \in Sessions, writer'[s] = "write", NEW i \in DOMAIN up[s]
          PROVE  up[s][i] < data'[s]
      <4>1. CASE s = <<c, o>>
        <5>1. up[s][i] \in Gens
          BY <3>1 DEF IInv, TypeOK
        <5>2. Holds(<<c, o>>, up[s][i])
          BY <4>1 DEF Holds
        <5> QED BY <2>2, <2>3, <4>1, <5>1, <5>2 DEF IInv, TypeOK
      <4>2. CASE s # <<c, o>>
        BY <2>2, <3>1, <4>2 DEF OrderInv, NextIsNewer, IInv, TypeOK
      <4> QED BY <4>1, <4>2
    <3> QED BY <2>2, <3>1 DEF OrderInv, NextIsNewer
  <2>6. SessionsInOrder'
    <3>1. ASSUME NEW d \in Clients, NEW j \in Gens, NEW k \in Gens, NEW m \in Gens, NEW n \in Gens,
                 j < k, Holds(<<d, j>>, m)', Holds(<<d, k>>, n)'
          PROVE  m < n
      <4>1. CASE Holds(<<d, j>>, m) /\ Holds(<<d, k>>, n)
        BY <3>1, <4>1 DEF OrderInv, SessionsInOrder
      <4>2. CASE d = c /\ k = o /\ n = p /\ Holds(<<d, j>>, m)
        BY <2>3, <4>2
      <4>3. CASE d = c /\ j = o /\ m = p
        <5>1. k # o /\ ~(k <= o)
          BY <2>2, <3>1, <4>3 DEF Gens
        <5>2. Holds(<<d, k>>, n)
          BY <2>4, <3>1, <5>1
        <5>3. k <= o
          BY <2>3, <4>3, <5>2
        <5> QED BY <5>1, <5>3
      <4> QED BY <2>4, <3>1, <4>1, <4>2, <4>3
    <3>2. ASSUME NEW d \in Clients, NEW k \in Gens, NEW n \in Gens, Holds(<<d, k>>, n)'
          PROVE  n <= taken'[d] /\ k <= opened'[d]
      <4>1. CASE Holds(<<d, k>>, n)
        BY <2>2, <4>1 DEF OrderInv, SessionsInOrder
      <4>2. CASE d = c /\ k = o /\ n = p
        BY <2>2, <4>2 DEF Gens
      <4> QED BY <2>4, <3>2, <4>1, <4>2
    <3> QED BY <3>1, <3>2 DEF SessionsInOrder
  <2> QED BY <2>2, <2>5, <2>6 DEF OrderInv, LoopHoldsNewest
<1>5. ASSUME NEW s \in Sessions, WriterWrites(s) PROVE OrderInv'
  <2>1. CASE Dead(s)
    <3>1. Quiet
      BY <1>5, <2>1 DEF WriterWrites, Quiet, IInv, TypeOK
    <3> QED BY <1>5, <3>1, QuietKeepsAll DEF WriterWrites
  <2>2. CASE ~Dead(s)
    <3>1. /\ up' = [up EXCEPT ![s] = Append(up[s], data[s])]
          /\ writer' = [writer EXCEPT ![s] = "recv"]
          /\ data' = [data EXCEPT ![s] = 0]
          /\ UNCHANGED <<taken, opened, loopVars>>
          /\ writer[s] = "write" /\ data[s] \in Gens
      BY <1>5, <2>2 DEF WriterWrites, IInv, TypeOK
    <3>2. /\ DOMAIN up[s] = 1..Len(up[s]) /\ Len(up[s]) \in Nat
          /\ DOMAIN up'[s] = 1..(Len(up[s]) + 1)
          /\ \A i \in DOMAIN up[s] : up'[s][i] = up[s][i]
          /\ up'[s][Len(up[s]) + 1] = data[s]
      <4>1. up'[s] = Append(up[s], data[s]) /\ up[s] \in Seq(Gens)
        BY <3>1 DEF IInv, TypeOK
      <4> QED BY <3>1, <4>1
    <3>3. \A t \in Sessions : t # s => up'[t] = up[t] /\ writer'[t] = writer[t] /\ data'[t] = data[t]
      BY <3>1 DEF IInv, TypeOK
    <3>4. ASSUME NEW c \in Clients, NEW k \in Gens, NEW n \in Gens, Holds(<<c, k>>, n)'
          PROVE  Holds(<<c, k>>, n)
      <4>1. <<c, k>> \in Sessions
        BY DEF Sessions
      <4>2. CASE <<c, k>> = s
        <5>1. writer'[s] # "write"
          BY <3>1 DEF IInv, TypeOK
        <5>2. PICK i \in DOMAIN up'[s] : up'[s][i] = n
          BY <3>4, <4>2, <5>1 DEF Holds
        <5>3. i \in DOMAIN up[s] \/ i = Len(up[s]) + 1
          BY <3>2, <5>2
        <5> QED BY <3>1, <3>2, <4>2, <5>2, <5>3 DEF Holds
      <4>3. CASE <<c, k>> # s
        BY <3>3, <3>4, <4>1, <4>3 DEF Holds
      <4> QED BY <4>2, <4>3
    <3>5. NextIsNewer'
      <4>1. ASSUME NEW i \in DOMAIN up'[s], NEW j \in DOMAIN up'[s], i < j
            PROVE  up'[s][i] < up'[s][j]
        BY <3>1, <3>2, <4>1 DEF OrderInv, NextIsNewer
      <4>2. writer'[s] # "write"
        BY <3>1 DEF IInv, TypeOK
      <4> QED BY <3>3, <4>1, <4>2 DEF OrderInv, NextIsNewer
    <3>6. SessionsInOrder'
      BY <3>1, <3>4 DEF OrderInv, SessionsInOrder
    <3>7. LoopHoldsNewest'
      BY <3>1, <3>4 DEF OrderInv, LoopHoldsNewest, loopVars, IInv, TypeOK, Packets
    <3> QED BY <3>5, <3>6, <3>7 DEF OrderInv
  <2> QED BY <2>1, <2>2
<1>6. ASSUME NEW s \in Sessions, Handle(s) \/ WriterStops(s) \/ WriterFails(s) \/ ReaderStops(s) \/ ServerCloses(s)
      PROVE  Quiet /\ UNCHANGED <<taken, opened, loopVars>>
  BY <1>6 DEF Handle, CreateStream, WriteHeader, ReadAck, HandlerFails, HandlerReturns, Finish,
       WriterStops, WriterFails, ReaderStops, ServerCloses, Quiet, IInv, TypeOK
<1>7. ASSUME NEW c \in Clients, Arrive(c) PROVE Quiet /\ UNCHANGED <<taken, opened, loopVars>>
  BY <1>7 DEF Arrive, Quiet, sessionVars
<1>8. CASE FinisherDelete \/ ConnCloses \/ UNCHANGED vars
  BY <1>8, QuietKeepsAll DEF FinisherDelete, ConnCloses, vars, Quiet, sessionVars, loopVars
<1> QED
  BY <1>1, <1>2, <1>3, <1>4, <1>5, <1>6, <1>7, <1>8, QuietKeepsAll DEF Next, Loop, Write

(* Each datagram is written to at most one stream and in the order it was  *)
(* read, whatever sessions end and are opened again meanwhile.             *)
THEOREM DatagramsInOrder == Spec => []WrittenInOrder
<1>1. IInv /\ OrderInv => WrittenInOrder
  <2> SUFFICES ASSUME IInv, OrderInv PROVE WrittenInOrder
    OBVIOUS
  <2>1. ASSUME NEW s \in Sessions, NEW t \in Sessions, s[1] = t[1], s[2] < t[2],
               NEW i \in DOMAIN up[s], NEW j \in DOMAIN up[t]
        PROVE  up[s][i] < up[t][j]
    <3>1. PICK c \in Clients, k \in Gens, l \in Gens : s = <<c, k>> /\ t = <<c, l>> /\ k < l
      BY <2>1 DEF Sessions
    <3>2. up[s][i] \in Gens /\ up[t][j] \in Gens
      BY DEF IInv, TypeOK
    <3>3. Holds(<<c, k>>, up[s][i]) /\ Holds(<<c, l>>, up[t][j])
      BY <3>1 DEF Holds
    <3> QED BY <3>1, <3>2, <3>3 DEF OrderInv, SessionsInOrder
  <2> QED BY <2>1 DEF WrittenInOrder, OrderInv, NextIsNewer
<1>2. IInv /\ IInv' /\ OrderInv /\ [Next]_vars => OrderInv'
  BY OrderStep
<1> QED
  BY <1>1, <1>2, InitOrder, InvInvariant, PTL DEF Spec

-----------------------------------------------------------------------------
(* The forwarder implements UDPSessions                                    *)

(* No datagram is read that has not arrived. *)
ReadsArrived == \A c \in Clients : taken[c] <= arrived[c]

(* A writer outlives its handler only on streams that are dead: the        *)
(* handler waits for the end of the error stream, which is assumed not to  *)
(* end before the data stream does.                                        *)
LeftOverIsDead ==
  \A s \in Sessions : writer[s] # "none" /\ handler[s] # "wait" => Dead(s)

LEMMA ReadsArrivedStep == IInv /\ ReadsArrived /\ [Next]_vars => ReadsArrived'
<1> SUFFICES ASSUME IInv, ReadsArrived, [Next]_vars PROVE ReadsArrived'
  OBVIOUS
<1> USE ConstantsAssumption DEF ReadsArrived
<1>0. taken \in [Clients -> Nat] /\ arrived \in [Clients -> Nat]
  BY DEF IInv, TypeOK
<1>1. ASSUME NEW c \in Clients, LoopRead(c) PROVE ReadsArrived'
  BY <1>0, <1>1 DEF LoopRead
<1>2. ASSUME NEW c \in Clients, Arrive(c) PROVE ReadsArrived'
  BY <1>0, <1>2 DEF Arrive
<1>3. CASE LoopSelect \/ LoopReadFails \/ LoopOpen \/ LoopSend
  BY <1>3 DEF LoopSelect, LoopReadFails, LoopOpen, LoopSend
<1>4. ASSUME NEW s \in Sessions, Handle(s) \/ Write(s) \/ ReaderStops(s) \/ ServerCloses(s)
      PROVE  ReadsArrived'
  BY <1>4 DEF Handle, CreateStream, WriteHeader, ReadAck, HandlerFails, HandlerReturns, Finish,
       Write, WriterStops, WriterWrites, WriterFails, ReaderStops, ServerCloses
<1>5. CASE FinisherDelete \/ ConnCloses \/ UNCHANGED vars
  BY <1>5 DEF FinisherDelete, ConnCloses, vars
<1> QED
  BY <1>1, <1>2, <1>3, <1>4, <1>5 DEF Next, Loop

LEMMA LeftOverStep ==
  "error" \notin Faults /\ IInv /\ LeftOverIsDead /\ [Next]_vars => LeftOverIsDead'
<1> SUFFICES ASSUME "error" \notin Faults, IInv, LeftOverIsDead, [Next]_vars
             PROVE  LeftOverIsDead'
  OBVIOUS
<1> USE ConstantsAssumption DEF LeftOverIsDead, Dead
<1>1. CASE UNCHANGED <<handler, writer, closed, connUp>>
  BY <1>1
<1>2. CASE LoopSelect \/ LoopReadFails \/ FinisherDelete \/ UNCHANGED vars
  BY <1>1, <1>2 DEF LoopSelect, LoopReadFails, FinisherDelete, sessionVars, vars
<1>3. ASSUME NEW c \in Clients, LoopRead(c) \/ Arrive(c) PROVE LeftOverIsDead'
  BY <1>1, <1>3 DEF LoopRead, Arrive, sessionVars
<1>4. CASE LoopOpen
  <2>1. PICK c \in Clients : c = pkt.from
    BY <1>4 DEF LoopOpen, IInv, TypeOK, Packets
  <2> DEFINE t == <<c, opened[c] + 1>>
  <2>2. t \in Sessions /\ handler[t] # "wait"
    <3>1. opened[c] + 1 \in Gens
      BY <1>4, <2>1 DEF LoopOpen, IInv, Opening, TypeOK, Gens
    <3>2. opened[c] \in Nat /\ opened[c] + 1 > opened[c]
      BY DEF IInv, TypeOK
    <3>3. Tracking(c)
      BY DEF IInv, TrackInv
    <3>4. handler[t] = "none"
      BY <3>1, <3>2, <3>3 DEF Tracking
    <3> QED BY <3>1, <3>4 DEF Sessions
  <2>3. handler' = [handler EXCEPT ![t] = "create"] /\ UNCHANGED <<writer, closed, connUp>>
    BY <1>4, <2>1 DEF LoopOpen
  <2> QED BY <2>2, <2>3 DEF IInv, TypeOK
<1>5. CASE LoopSend
  BY <1>5 DEF LoopSend, IInv, TypeOK
<1>6. ASSUME NEW s \in Sessions, Handle(s) PROVE LeftOverIsDead'
  BY <1>6 DEF Handle, CreateStream, WriteHeader, ReadAck, HandlerFails, HandlerReturns, Finish,
       IInv, TypeOK
<1>7. ASSUME NEW s \in Sessions, Write(s) \/ ReaderStops(s) \/ ServerCloses(s) PROVE LeftOverIsDead'
  BY <1>7 DEF Write, WriterStops, WriterWrites, WriterFails, ReaderStops, ServerCloses, IInv, TypeOK
<1>8. CASE ConnCloses
  BY <1>8 DEF ConnCloses, sessionVars
<1> QED
  BY <1>2, <1>3, <1>4, <1>5, <1>6, <1>7, <1>8 DEF Next, Loop

(* What a session writes, its client sees delivered over its current       *)
(* session, after all that was delivered before.                           *)
LEMMA WriteDelivers ==
  ASSUME IInv, OrderInv, ReadsArrived, LeftOverIsDead,
         NEW s \in Sessions, WriterWrites(s), ~Dead(s)
  PROVE  \E c \in Clients : Service!Deliver(c)
<1> PICK c \in Clients, k \in Gens : s = <<c, k>>
  BY DEF Sessions
<1> DEFINE n == data[s]
<1>1. /\ writer[s] = "write" /\ n \in Gens
      /\ up' = [up EXCEPT ![<<c, k>>] = Append(@, n)]
      /\ UNCHANGED <<arrived, opened>>
  BY DEF WriterWrites, IInv, TypeOK
<1>2. opened[c] = k /\ k > 0
  <2>1. handler[<<c, k>>] = "wait"
    BY <1>1 DEF LeftOverIsDead
  <2>2. Tracking(c)
    BY DEF IInv, TrackInv
  <2>3. k > 0 /\ k # 0
    BY ConstantsAssumption DEF Gens
  <2>4. track[c] = k
    BY <2>1, <2>2 DEF Tracking
  <2> QED BY <2>2, <2>3, <2>4 DEF Tracking
<1>3. Holds(<<c, k>>, n)
  BY <1>1 DEF Holds
<1>4. n \in 1..arrived[c]
  <2>1. n <= taken[c] /\ taken[c] <= arrived[c]
    BY <1>1, <1>3 DEF OrderInv, SessionsInOrder, ReadsArrived
  <2> QED BY <1>1, <2>1, ConstantsAssumption DEF IInv, TypeOK, Gens
<1>5. ASSUME NEW j \in 1..MaxSend, NEW i \in DOMAIN up[<<c, j>>] PROVE up[<<c, j>>][i] < n
  <2>1. /\ j \in Gens /\ <<c, j>> \in Sessions
        /\ up[<<c, j>>][i] \in Gens /\ Holds(<<c, j>>, up[<<c, j>>][i])
    <3>1. j \in Gens /\ <<c, j>> \in Sessions
      BY DEF Gens, Sessions
    <3>2. up[<<c, j>>] \in Seq(Gens)
      BY <3>1 DEF IInv, TypeOK
    <3>3. up[<<c, j>>][i] \in Gens
      BY <3>2
    <3> QED BY <3>1, <3>3 DEF Holds
  <2>2. j <= k
    BY <1>2, <2>1 DEF OrderInv, SessionsInOrder
  <2>3. CASE j = k
    BY <1>1, <1>5, <2>1, <2>3 DEF OrderInv, NextIsNewer
  <2>4. CASE j < k
    BY <1>1, <1>3, <2>1, <2>4 DEF OrderInv, SessionsInOrder
  <2> QED BY <2>2, <2>3, <2>4, ConstantsAssumption DEF Gens
<1> QED
  BY <1>1, <1>2, <1>4, <1>5 DEF Service!Deliver, Service!Newer

LEMMA StepImplements ==
  IInv /\ OrderInv /\ ReadsArrived /\ LeftOverIsDead /\ [Next]_vars
    => [Service!Next]_(Service!vars)
<1> SUFFICES ASSUME IInv, OrderInv, ReadsArrived, LeftOverIsDead, [Next]_vars
             PROVE  Service!Next \/ UNCHANGED <<arrived, opened, up>>
  BY DEF Service!vars
<1> USE ConstantsAssumption
<1>1. ASSUME NEW c \in Clients, Arrive(c) PROVE Service!Next
  BY <1>1 DEF Arrive, sessionVars, Service!Next, Service!Arrive
<1>2. CASE LoopOpen
  <2>1. PICK c \in Clients : c = pkt.from
    BY <1>2 DEF LoopOpen, IInv, TypeOK, Packets
  <2>2. opened[c] < arrived[c]
    <3>1. opened[c] < taken[c] /\ taken[c] <= arrived[c]
      BY <1>2, <2>1 DEF LoopOpen, IInv, Opening, ReadsArrived
    <3>2. opened[c] \in Nat /\ taken[c] \in Nat /\ arrived[c] \in Nat
      BY DEF IInv, TypeOK
    <3> QED BY <3>1, <3>2
  <2> QED BY <1>2, <2>1, <2>2 DEF LoopOpen, Service!Next, Service!Open
<1>3. ASSUME NEW s \in Sessions, WriterWrites(s) PROVE Service!Next \/ UNCHANGED <<arrived, opened, up>>
  <2>1. CASE Dead(s)
    BY <1>3, <2>1 DEF WriterWrites
  <2>2. CASE ~Dead(s)
    BY <1>3, <2>2, WriteDelivers DEF Service!Next
  <2> QED BY <2>1, <2>2
<1>4. ASSUME NEW c \in Clients, LoopRead(c) PROVE UNCHANGED <<arrived, opened, up>>
  BY <1>4 DEF LoopRead, sessionVars
<1>5. CASE LoopSelect \/ LoopReadFails \/ LoopSend
  BY <1>5 DEF LoopSelect, LoopReadFails, LoopSend, sessionVars
<1>6. ASSUME NEW s \in Sessions,
             Handle(s) \/ WriterStops(s) \/ WriterFails(s) \/ ReaderStops(s) \/ ServerCloses(s)
      PROVE  UNCHANGED <<arrived, opened, up>>
  BY <1>6 DEF Handle, CreateStream, WriteHeader, ReadAck, HandlerFails, HandlerReturns, Finish,
       WriterStops, WriterFails, ReaderStops, ServerCloses
<1>7. CASE FinisherDelete \/ ConnCloses \/ UNCHANGED vars
  BY <1>7 DEF FinisherDelete, ConnCloses, vars, sessionVars
<1> QED
  BY <1>1, <1>2, <1>3, <1>4, <1>5, <1>6, <1>7 DEF Next, Loop, Write

(* If an error stream ends only together with its data stream, every       *)
(* behaviour of the forwarder is one of UDPSessions: a client's datagrams  *)
(* are passed on over its current session only, each at most once and in   *)
(* the order they arrived.                                                 *)
THEOREM ForwarderImplements ==
  ASSUME "error" \notin Faults
  PROVE  Spec => ImplementsSessions
<1>0. IInv /\ LeftOverIsDead /\ [Next]_vars => LeftOverIsDead'
  BY LeftOverStep
<1>1. Init => Service!Init /\ ReadsArrived /\ LeftOverIsDead
  BY ConstantsAssumption DEF Init, Service!Init, ReadsArrived, LeftOverIsDead, Sessions, Gens
<1>2. IInv /\ IInv' /\ OrderInv /\ [Next]_vars => OrderInv'
  BY OrderStep
<1> QED
  BY <1>0, <1>1, <1>2, InitOrder, InvInvariant, ReadsArrivedStep, StepImplements, PTL
     DEF Spec, ImplementsSessions, Service!Spec

=============================================================================
