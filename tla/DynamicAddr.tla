---------------------------- MODULE DynamicAddr ----------------------------
(***************************************************************************)
(* The remote address of a workload: dynamicAddr                           *)
(* (pkg/remoteaddr/dynamic.go), the goroutine that follows a watch of pods *)
(* and replaces the address when its pod goes away, next to the cluster    *)
(* that creates, runs, terminates and deletes pods.                        *)
(*                                                                         *)
(* The cluster's state changes first; the event that tells of the change   *)
(* is delivered later, in order.  A List reads the state of the moment.    *)
(* A pod's address is the number of its incarnation: a pod that is created *)
(* again under the same name, as a StatefulSet does, has another one.      *)
(***************************************************************************)
EXTENDS Naturals, Sequences

CONSTANTS
  Pods,       (* names of the pods the selector matches                    *)
  MaxPods,    (* bound on the pods ever created                            *)
  MaxLag,     (* bound on the events the watch has not delivered yet       *)
  Faults      (* "list": a List may fail; "slow": the workload may have no *)
              (* Running pod for as long as the poll lasts; "gone": the    *)
              (* watch may end (410 Gone)                                  *)

ASSUME ConstantsAssumption ==
  /\ MaxPods \in Nat \ {0}
  /\ MaxLag \in Nat
  /\ Faults \subseteq {"list", "slow", "gone"}

VARIABLES
  pods,      (* the cluster: phase, deletion mark and incarnation          *)
  created,   (* incarnations so far; also the creation timestamps          *)
  events,    (* the events the watch has not delivered yet                 *)
  watcher,   (* watchForUpdates: "recv" an event, "poll", or "stopped"     *)
  podName,   (* dynamicAddr.podName                                        *)
  addr,      (* dynamicAddr.addr                                           *)
  gaveUp     (* history: a poll has ended without an update                *)

vars == <<pods, created, events, watcher, podName, addr, gaveUp>>

Phases == {"none", "Pending", "Running", "Failed"}
Uids   == 0..MaxPods
Pod    == {pod \in [phase : Phases, del : BOOLEAN, uid : Uids] : pod.phase = "none" <=> pod.uid = 0}
Event  == [type : {"Added", "Modified", "Deleted"}, name : Pods, phase : Phases, del : BOOLEAN]

TypeOK ==
  /\ pods \in [Pods -> Pod]
  /\ created \in Uids
  /\ events \in Seq(Event)
  /\ watcher \in {"recv", "poll", "stopped"}
  /\ podName \in Pods
  /\ addr \in Uids \ {0}
  /\ gaveUp \in BOOLEAN

(* updatePodIP sorts the pods by creation time, newest first, and takes    *)
(* the first one in phase Running; a pod being deleted may still be.       *)
Newest(p) ==
  /\ pods[p].phase = "Running"
  /\ \A q \in Pods : pods[q].phase = "Running" => pods[q].uid <= pods[p].uid

(* init() has listed the pods, found a Running one and started the watch   *)
(* at the list's resource version.                                         *)
Init ==
  /\ \E p \in Pods :
       /\ pods = [q \in Pods |-> IF q = p
                                 THEN [phase |-> "Running", del |-> FALSE, uid |-> 1]
                                 ELSE [phase |-> "none", del |-> FALSE, uid |-> 0]]
       /\ podName = p
  /\ created = 1
  /\ addr = 1
  /\ events = <<>>
  /\ watcher = "recv"
  /\ gaveUp = FALSE

-----------------------------------------------------------------------------
(* The cluster                                                             *)

(* Pod p changes, and the watch will tell. *)
Becomes(p, type, phase, del, uid) ==
  /\ Len(events) < MaxLag
  /\ pods' = [pods EXCEPT ![p] = [phase |-> phase, del |-> del, uid |-> uid]]
  /\ events' = Append(events, [type |-> type, name |-> p, phase |-> phase, del |-> del])
  /\ UNCHANGED <<watcher, podName, addr, gaveUp>>

PodCreated(p) ==
  /\ pods[p].phase = "none"
  /\ created < MaxPods
  /\ created' = created + 1
  /\ Becomes(p, "Added", "Pending", FALSE, created + 1)

PodRuns(p) ==
  /\ pods[p].phase = "Pending"
  /\ ~pods[p].del
  /\ Becomes(p, "Modified", "Running", FALSE, pods[p].uid)
  /\ UNCHANGED created

PodFails(p) ==
  /\ pods[p].phase \in {"Pending", "Running"}
  /\ Becomes(p, "Modified", "Failed", pods[p].del, pods[p].uid)
  /\ UNCHANGED created

PodTerminates(p) ==
  /\ pods[p].phase # "none"
  /\ ~pods[p].del
  /\ Becomes(p, "Modified", pods[p].phase, TRUE, pods[p].uid)
  /\ UNCHANGED created

PodDeleted(p) ==
  /\ pods[p].phase # "none"
  /\ pods[p].del
  /\ Len(events) < MaxLag
  /\ pods' = [pods EXCEPT ![p] = [phase |-> "none", del |-> FALSE, uid |-> 0]]
  /\ events' = Append(events, [type |-> "Deleted", name |-> p, phase |-> pods[p].phase, del |-> TRUE])
  /\ UNCHANGED <<created, watcher, podName, addr, gaveUp>>

-----------------------------------------------------------------------------
(* watchForUpdates                                                         *)

(* Mutant: every event of type Modified is ignored.                        *)
RelevantUnlessModified(ev) ==
  /\ ev.name = podName
  /\ ev.type # "Modified"

(* Mutant: only a pod seen to have left the phase Running is replaced.     *)
RelevantIfModified(ev) ==
  /\ ev.name = podName
  /\ ev.type = "Modified"
  /\ ev.phase # "Running"

(* The filters of the loop: the event is about the pod whose address is in *)
(* use, and does not just say that the pod is still running.               *)
Relevant(ev) ==
  /\ ev.name = podName
  /\ ~(ev.type = "Modified" /\ ~ev.del /\ ev.phase = "Running")

Receive ==
  /\ watcher = "recv"
  /\ events # <<>>
  /\ events' = Tail(events)
  /\ watcher' = IF Relevant(Head(events)) THEN "poll" ELSE "recv"
  /\ UNCHANGED <<pods, created, podName, addr, gaveUp>>

(* Mutant: a pod that is still starting is taken, too; it has no address,  *)
(* and the error of AddrFromIP is ignored.                                 *)
UpdateStarting ==
  /\ watcher = "poll"
  /\ \E p \in Pods :
       /\ pods[p].phase \in {"Pending", "Running"}
       /\ podName' = p
       /\ addr' = IF pods[p].phase = "Pending" THEN 0 ELSE pods[p].uid
  /\ watcher' = "recv"
  /\ UNCHANGED <<pods, created, events, gaveUp>>

(* An attempt of the poll succeeds: updatePodIP sets podName and addr. *)
Update ==
  /\ watcher = "poll"
  /\ \E p \in Pods :
       /\ Newest(p)
       /\ podName' = p
       /\ addr' = pods[p].uid
  /\ watcher' = "recv"
  /\ UNCHANGED <<pods, created, events, gaveUp>>

(* All attempts of the poll have failed, for a minute, because no pod was  *)
(* Running or no List succeeded.  The event is dropped.                    *)
GiveUp ==
  /\ watcher = "poll"
  /\ \/ "slow" \in Faults /\ \A p \in Pods : pods[p].phase # "Running"
     \/ "list" \in Faults
  /\ watcher' = "recv"
  /\ gaveUp' = TRUE
  /\ UNCHANGED <<pods, created, events, podName, addr>>

(* The RetryWatcher meets 410 Gone and closes ResultChan. *)
WatchEnds ==
  /\ "gone" \in Faults
  /\ watcher = "recv"
  /\ watcher' = "stopped"
  /\ UNCHANGED <<pods, created, events, podName, addr, gaveUp>>

-----------------------------------------------------------------------------
Cluster(p) == PodCreated(p) \/ PodRuns(p) \/ PodFails(p) \/ PodTerminates(p) \/ PodDeleted(p)

Watch == Receive \/ Update

Next ==
  \/ \E p \in Pods : Cluster(p)
  \/ Watch
  \/ GiveUp
  \/ WatchEnds

(* The watch delivers what has happened, the goroutine is scheduled, and a *)
(* List succeeds from time to time.  The cluster owes nothing.             *)
Fairness == WF_vars(Receive) /\ WF_vars(Update)

Spec == Init /\ [][Next]_vars /\ Fairness

-----------------------------------------------------------------------------
(* Properties *)

(* The pod whose address Get() returns runs. *)
Fresh == pods[podName].phase = "Running" /\ pods[podName].uid = addr

SomeRunning == \E p \in Pods : pods[p].phase = "Running"

(* The address in use is never that of a pod that has ended, unless an     *)
(* event that will replace it is still to come, an update is under way, a  *)
(* poll has given up, or the watch has ended: ignoring the events of other *)
(* pods, by the name that is current when an event is received, and those  *)
(* of a pod still running, misses no change, although events lag behind    *)
(* the lists and pods may return under the same name.                      *)
NoMissedUpdate ==
  (watcher = "recv" /\ ~gaveUp /\ ~Fresh)
    => \E i \in DOMAIN events : Relevant(events[i])

(* A stale address is replaced as long as a pod runs to replace it, a poll *)
(* does not give up and the watch goes on.                                 *)
StaleAddrReplaced ==
  (~Fresh /\ SomeRunning) ~> (Fresh \/ ~SomeRunning \/ gaveUp \/ watcher = "stopped")

(* docs/ARCHITECTURE.md: "the dynamic watcher keeps the forwarding session *)
(* alive across rolling updates".  A stale address is replaced as long as  *)
(* a pod runs to replace it, however long it took to start.                *)
AddressRecovers == (~Fresh /\ SomeRunning) ~> (Fresh \/ ~SomeRunning)

=============================================================================
