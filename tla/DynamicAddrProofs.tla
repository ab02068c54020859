------------------------- MODULE DynamicAddrProofs -------------------------
(***************************************************************************)
(* Proofs about DynamicAddr, for any set of pods, any number of            *)
(* incarnations, any lag of the watch and any faults.                      *)
(***************************************************************************)
EXTENDS DynamicAddr, SequenceTheorems, TLAPS

Told == \E i \in DOMAIN events : Relevant(events[i])

(* What the cluster does to pod p, and what it says of it. *)
Says(p, ev) ==
  /\ events' = Append(events, ev)
  /\ ev \in Event
  /\ ev.name = p
  /\ \A q \in Pods \ {p} : pods'[q] = pods[q]
  /\ UNCHANGED <<watcher, podName, addr, gaveUp>>

-----------------------------------------------------------------------------
(* A change of a pod, its event, and the type of what it leaves. *)
LEMMA ClusterStep ==
  ASSUME TypeOK, NEW p \in Pods, Cluster(p)
  PROVE  /\ pods' \in [Pods -> Pod]
         /\ created' \in Uids
         /\ \E ev \in Event :
              /\ Says(p, ev)
              /\ \/ pods[p].phase # "Running"
                 \/ pods'[p].phase = "Running" /\ pods'[p].uid = pods[p].uid
                 \/ ev.type = "Deleted"
                 \/ ev.phase # "Running"
<1> USE ConstantsAssumption DEF TypeOK, Uids, Pod, Phases, Event, Says
<1>0. /\ pods[p].phase \in Phases /\ pods[p].del \in BOOLEAN /\ pods[p].uid \in Uids
      /\ pods[p].phase = "none" <=> pods[p].uid = 0
  OBVIOUS
<1>1. ASSUME NEW type \in {"Added", "Modified"}, NEW phase \in Phases, NEW del \in BOOLEAN,
             NEW uid \in Uids, phase = "none" <=> uid = 0, Becomes(p, type, phase, del, uid)
      PROVE  /\ pods' \in [Pods -> Pod]
             /\ pods'[p].phase = phase /\ pods'[p].uid = uid
             /\ Says(p, [type |-> type, name |-> p, phase |-> phase, del |-> del])
  BY <1>1 DEF Becomes
<1>2. CASE PodCreated(p)
  <2>1. created + 1 \in Uids /\ created + 1 # 0 /\ created' = created + 1 /\ pods[p].phase = "none"
    BY <1>2 DEF PodCreated
  <2> QED BY <1>1, <1>2, <2>1 DEF PodCreated
<1>3. CASE PodRuns(p)
  BY <1>0, <1>1, <1>3 DEF PodRuns
<1>4. CASE PodFails(p)
  <2>1. /\ Becomes(p, "Modified", "Failed", pods[p].del, pods[p].uid) /\ UNCHANGED created
        /\ pods[p].uid # 0
    BY <1>0, <1>4 DEF PodFails
  <2> DEFINE ev == [type |-> "Modified", name |-> p, phase |-> "Failed", del |-> pods[p].del]
  <2>2. ev \in Event /\ ev.phase # "Running"
    BY <1>0
  <2>3. pods' \in [Pods -> Pod] /\ Says(p, ev)
    BY <1>0, <1>1, <2>1
  <2>4. created' \in Uids
    BY <2>1
  <2> HIDE DEF Says, ev
  <2> QED BY <2>2, <2>3, <2>4
<1>5. CASE PodTerminates(p)
  <2>1. Becomes(p, "Modified", pods[p].phase, TRUE, pods[p].uid) /\ UNCHANGED created
    BY <1>5 DEF PodTerminates
  <2> HIDE DEF Phases, Says, Pod, Uids
  <2> QED BY <1>0, <1>1, <2>1
<1>6. CASE PodDeleted(p)
  <2> DEFINE ev == [type |-> "Deleted", name |-> p, phase |-> pods[p].phase, del |-> TRUE]
  <2>1. ev \in Event /\ ev.name = p /\ ev.type = "Deleted"
    BY <1>0
  <2>2. /\ pods' \in [Pods -> Pod] /\ \A q \in Pods \ {p} : pods'[q] = pods[q]
        /\ events' = Append(events, ev)
        /\ UNCHANGED <<created, watcher, podName, addr, gaveUp>>
    BY <1>6 DEF PodDeleted
  <2> QED BY <2>1, <2>2
<1> QED BY <1>2, <1>3, <1>4, <1>5, <1>6 DEF Cluster

LEMMA TypeStep == TypeOK /\ [Next]_vars => TypeOK'
<1> SUFFICES ASSUME TypeOK, [Next]_vars PROVE TypeOK'
  OBVIOUS
<1>1. ASSUME NEW p \in Pods, Cluster(p) PROVE TypeOK'
  <2>1. PICK ev \in Event : Says(p, ev)
    BY <1>1, ClusterStep
  <2>2. events' \in Seq(Event)
    BY <2>1, AppendProperties DEF Says, TypeOK
  <2> QED BY <1>1, <2>1, <2>2, ClusterStep DEF Says, TypeOK
<1>2. CASE Receive
  <2>1. events' \in Seq(Event)
    BY <1>2, HeadTailProperties DEF Receive, TypeOK
  <2> QED BY <1>2, <2>1 DEF Receive, TypeOK
<1>3. CASE Update
  <2>1. PICK p \in Pods : Newest(p) /\ podName' = p /\ addr' = pods[p].uid
    BY <1>3 DEF Update
  <2>2. pods[p] \in Pod /\ pods[p].phase = "Running"
    BY <2>1 DEF TypeOK, Newest
  <2>3. pods[p].uid \in Uids /\ pods[p].uid # 0
    BY <2>2 DEF Pod
  <2> QED BY <1>3, <2>1, <2>3 DEF Update, TypeOK
<1>4. CASE GiveUp \/ WatchEnds
  BY <1>4 DEF GiveUp, WatchEnds, TypeOK
<1>5. CASE UNCHANGED vars
  BY <1>5 DEF vars, TypeOK
<1> QED BY <1>1, <1>2, <1>3, <1>4, <1>5 DEF Next, Watch

(* Every variable keeps its type: no pod gets an incarnation above         *)
(* MaxPods, and podName and addr are a pod and an incarnation.             *)
THEOREM TypeCorrect == Spec => []TypeOK
<1>1. ASSUME Init PROVE TypeOK
  <2>1. 0 \in Uids /\ 1 \in Uids /\ 1 # 0
    BY ConstantsAssumption DEF Uids
  <2>2. [phase |-> "Running", del |-> FALSE, uid |-> 1] \in Pod
    BY <2>1 DEF Pod, Phases
  <2>3. [phase |-> "none", del |-> FALSE, uid |-> 0] \in Pod
    BY <2>1 DEF Pod, Phases
  <2>4. pods \in [Pods -> Pod] /\ podName \in Pods
    BY <1>1, <2>2, <2>3 DEF Init
  <2> QED BY <1>1, <2>1, <2>4, EmptySeq DEF Init, TypeOK
<1> QED
  BY <1>1, TypeStep, PTL DEF Spec

-----------------------------------------------------------------------------
(* What is appended does not hide an event that is still to come. *)
LEMMA ToldStays ==
  ASSUME TypeOK, NEW ev \in Event, events' = Append(events, ev), UNCHANGED podName
  PROVE  /\ Told => Told'
         /\ Relevant(ev) => Told'
<1>1. /\ DOMAIN events = 1..Len(events) /\ Len(events) \in Nat
      /\ DOMAIN events' = 1..(Len(events) + 1)
      /\ \A i \in 1..Len(events) : events'[i] = events[i]
      /\ events'[Len(events) + 1] = ev
  BY AppendProperties, LenProperties DEF TypeOK
<1>2. \A e : Relevant(e)' <=> Relevant(e)
  BY DEF Relevant
<1> QED BY <1>1 DEF Told, Relevant

LEMMA MissStep == TypeOK /\ NoMissedUpdate /\ [Next]_vars => NoMissedUpdate'
<1> SUFFICES ASSUME TypeOK, NoMissedUpdate, [Next]_vars,
                    watcher' = "recv", ~gaveUp', ~Fresh'
             PROVE  Told'
  BY DEF NoMissedUpdate, Told
<1>1. ASSUME NEW p \in Pods, Cluster(p) PROVE Told'
  <2>1. PICK ev \in Event :
          /\ Says(p, ev)
          /\ \/ pods[p].phase # "Running"
             \/ pods'[p].phase = "Running" /\ pods'[p].uid = pods[p].uid
             \/ ev.type = "Deleted"
             \/ ev.phase # "Running"
    BY <1>1, ClusterStep
  <2>2. CASE Fresh
    <3>1. p = podName
      BY <2>1, <2>2 DEF Says, Fresh, TypeOK
    <3>2. Relevant(ev)
      BY <2>1, <2>2, <3>1 DEF Says, Fresh, Relevant
    <3> QED BY <2>1, <3>2, ToldStays DEF Says
  <2>3. CASE ~Fresh
    BY <2>1, <2>3, ToldStays DEF Says, NoMissedUpdate, Told
  <2> QED BY <2>2, <2>3
<1>2. CASE Receive
  <2>1. /\ watcher = "recv" /\ events # <<>> /\ events' = Tail(events)
        /\ ~Relevant(Head(events)) /\ ~gaveUp /\ ~Fresh /\ UNCHANGED podName
    BY <1>2 DEF Receive, Fresh
  <2>2. PICK i \in DOMAIN events : Relevant(events[i])
    BY <2>1 DEF NoMissedUpdate
  <2>3. /\ Len(events) \in Nat /\ DOMAIN events = 1..Len(events) /\ Head(events) = events[1]
        /\ DOMAIN events' = 1..(Len(events) - 1)
        /\ \A j \in 1..(Len(events) - 1) : events'[j] = events[j + 1]
    BY <2>1, HeadTailProperties, LenProperties DEF TypeOK
  <2>4. i # 1 /\ i - 1 \in DOMAIN events' /\ events'[i - 1] = events[i]
    BY <2>1, <2>2, <2>3
  <2> QED BY <2>1, <2>2, <2>4 DEF Told, Relevant
<1>3. CASE Update
  BY <1>3 DEF Update, Newest, Fresh
<1>4. CASE GiveUp \/ WatchEnds
  BY <1>4 DEF GiveUp, WatchEnds
<1>5. CASE UNCHANGED vars
  BY <1>5 DEF vars, NoMissedUpdate, Fresh, Told, Relevant
<1> QED BY <1>1, <1>2, <1>3, <1>4, <1>5 DEF Next, Watch

(* An address that is out of date is in use only while an event that will  *)
(* replace it is on its way, for any number of pods that come and go, also *)
(* under the same name, and any lag of the watch.                          *)
THEOREM NoUpdateMissed == Spec => []NoMissedUpdate
<1>1. Init => NoMissedUpdate
  BY DEF Init, NoMissedUpdate, Fresh
<1> QED
  BY <1>1, MissStep, TypeCorrect, PTL DEF Spec

=============================================================================
