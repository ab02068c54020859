----------------------------- MODULE ServerJob -----------------------------
(***************************************************************************)
(* The life of the krelay-server Job: Flags.RunServerJob and               *)
(* ServerJob.Close (pkg/kube/flags.go), waitForServerJobPod and            *)
(* removeServerJob (pkg/kube/utils.go), the commands that call them        *)
(* (cmd/client/main.go, command_proxy.go), and the cluster: the Job        *)
(* controller, the kubelet, and the server that exits when it is idle.     *)
(***************************************************************************)
EXTENDS Naturals, Sequences

CONSTANT
  Faults   (* "delete": the removal of the Job may fail; "lost": Create    *)
           (* may fail after the Job was created; "crash": the client may  *)
           (* be killed                                                    *)

ASSUME ConstantsAssumption == Faults \subseteq {"delete", "lost", "crash"}

VARIABLES
  client,      (* where the command is; it has returned when "exited", and *)
               (* "abandoned" if it could not remove the Job               *)
  interrupted, (* its context is done: the user has sent an interrupt      *)
  job,         (* "none", "active", "finished" or "deleted"                *)
  pod,         (* the server's pod                                         *)
  watching,    (* waitForServerJobPod has opened its watch                 *)
  events,      (* the events the watch has not delivered yet               *)
  stream       (* the port-forward connection is up                        *)

cluster == <<job, pod>>
watchVars == <<watching, events>>
vars == <<client, interrupted, cluster, watchVars, stream>>

PodPhases == {"none", "pending", "running", "ended"}

TypeOK ==
  /\ client \in {"create", "watch", "wait", "dial", "run", "cleanup",
                "exited", "abandoned", "crashed"}
  /\ interrupted \in BOOLEAN
  /\ job \in {"none", "active", "finished", "deleted"}
  /\ pod \in PodPhases
  /\ watching = (client = "wait")
  /\ events \in Seq({"pending", "running", "ended", "deleted"})
  /\ stream \in BOOLEAN

Init ==
  /\ client = "create"
  /\ interrupted = FALSE
  /\ job = "none"
  /\ pod = "none"
  /\ watching = FALSE
  /\ events = <<>>
  /\ stream = FALSE

Gone == client \in {"exited", "abandoned", "crashed"}

-----------------------------------------------------------------------------
(* RunServerJob                                                            *)

CreateJob ==
  /\ client = "create"
  /\ job' = "active"
  /\ client' = "watch"
  /\ UNCHANGED <<interrupted, pod, watchVars, stream>>

(* An error before Create, or in it. *)
CreateJobFails ==
  /\ client = "create"
  /\ client' = "exited"
  /\ UNCHANGED <<interrupted, cluster, watchVars, stream>>

(* Create returns an error although the API server has created the Job:    *)
(* the answer was lost, or the context was done before it arrived.         *)
CreateAnswerLost ==
  /\ "lost" \in Faults
  /\ client = "create"
  /\ job' = "active"
  /\ client' = "abandoned"
  /\ UNCHANGED <<interrupted, pod, watchVars, stream>>

(* The watch begins with the pod that exists, if one does. *)
OpenWatch ==
  /\ client = "watch"
  /\ client' = "wait"
  /\ watching' = TRUE
  /\ events' = IF pod = "none" THEN <<>> ELSE <<pod>>
  /\ UNCHANGED <<interrupted, cluster, stream>>

(* Mutant: waitForServerJobPod returns without stopping its watch.         *)
WaitReceivesWithoutStop ==
  /\ client = "wait"
  /\ events # <<>>
  /\ client' = CASE Head(events) = "running" -> "dial"
                 [] Head(events) = "deleted" -> "cleanup"
                 [] OTHER -> "wait"
  /\ events' = Tail(events)
  /\ UNCHANGED <<interrupted, cluster, watching, stream>>

(* An event: the pod's only container runs, it does not, or the pod is     *)
(* gone.                                                                   *)
WaitReceives ==
  /\ client = "wait"
  /\ events # <<>>
  /\ client' = CASE Head(events) = "running" -> "dial"
                 [] Head(events) = "deleted" -> "cleanup"
                 [] OTHER -> "wait"
  /\ events' = IF client' = "wait" THEN Tail(events) ELSE <<>>
  /\ watching' = (client' = "wait")
  /\ UNCHANGED <<interrupted, cluster, stream>>

(* Mutant: the error path returns without the cleanup.                     *)
WaitFailsWithoutCleanup ==
  /\ client \in {"watch", "wait"}
  /\ client' = "exited"
  /\ watching' = FALSE
  /\ events' = <<>>
  /\ UNCHANGED <<interrupted, cluster, stream>>

(* The watch cannot be opened, fails, or ends: after 5 minutes or when the *)
(* context is done.                                                        *)
WaitFails ==
  /\ client \in {"watch", "wait"}
  /\ client' = "cleanup"
  /\ watching' = FALSE
  /\ events' = <<>>
  /\ UNCHANGED <<interrupted, cluster, stream>>

Dial ==
  /\ client = "dial"
  /\ pod = "running"
  /\ stream' = TRUE
  /\ client' = "run"
  /\ UNCHANGED <<interrupted, cluster, watchVars>>

(* RESTClientFor, createDialer or Dial fails. *)
DialFails ==
  /\ client = "dial"
  /\ client' = "cleanup"
  /\ UNCHANGED <<interrupted, cluster, watchVars, stream>>

(* The command's select on CloseChan and ctx.Done(), and the deferred      *)
(* Close, which closes the stream first.                                   *)
RunEnds ==
  /\ client = "run"
  /\ interrupted \/ ~stream
  /\ client' = "cleanup"
  /\ stream' = FALSE
  /\ UNCHANGED <<interrupted, cluster, watchVars>>

(* removeServerJob, with background propagation; a Job that does not exist *)
(* any more is no error.                                                   *)
RemoveJob ==
  /\ client = "cleanup"
  /\ job' = "deleted"
  /\ client' = "exited"
  /\ UNCHANGED <<interrupted, pod, watchVars, stream>>

RemoveJobFails ==
  /\ "delete" \in Faults
  /\ client = "cleanup"
  /\ client' = "abandoned"
  /\ UNCHANGED <<interrupted, cluster, watchVars, stream>>

Interrupt ==
  /\ ~Gone
  /\ ~interrupted
  /\ interrupted' = TRUE
  /\ UNCHANGED <<client, cluster, watchVars, stream>>

Crash ==
  /\ "crash" \in Faults
  /\ ~Gone
  /\ client' = "crashed"
  /\ stream' = FALSE
  /\ watching' = FALSE
  /\ events' = <<>>
  /\ UNCHANGED <<interrupted, cluster>>

-----------------------------------------------------------------------------
(* The cluster                                                             *)

PodBecomes(phase) ==
  /\ pod' = phase
  /\ events' = IF watching
               THEN Append(events, IF phase = "none" THEN "deleted" ELSE phase)
               ELSE events
  /\ stream' = (stream /\ phase = "running")

PodCreated ==
  /\ job = "active"
  /\ pod = "none"
  /\ PodBecomes("pending")
  /\ UNCHANGED <<client, interrupted, job, watching>>

PodStarts ==
  /\ pod = "pending"
  /\ PodBecomes("running")
  /\ UNCHANGED <<client, interrupted, job, watching>>

(* The server crashes or is evicted. *)
PodFails ==
  /\ pod \in {"pending", "running"}
  /\ PodBecomes("ended")
  /\ UNCHANGED <<client, interrupted, job, watching>>

(* Mutant: the idle timeout is never reached once the client is gone.      *)
ServerIdleNever ==
  /\ pod = "running"
  /\ ~stream
  /\ ~Gone
  /\ PodBecomes("ended")
  /\ UNCHANGED <<client, interrupted, job, watching>>

(* No heartbeat has arrived for the idle timeout: the server exits. *)
ServerIdle ==
  /\ pod = "running"
  /\ ~stream
  /\ PodBecomes("ended")
  /\ UNCHANGED <<client, interrupted, job, watching>>

ConnLost ==
  /\ stream
  /\ stream' = FALSE
  /\ UNCHANGED <<client, interrupted, cluster, watchVars>>

(* backoffLimit is 0: the Job is finished with its only pod. *)
JobFinishes ==
  /\ job = "active"
  /\ pod = "ended"
  /\ job' = "finished"
  /\ UNCHANGED <<client, interrupted, pod, watchVars, stream>>

(* ttlSecondsAfterFinished *)
JobExpires ==
  /\ job = "finished"
  /\ job' = "deleted"
  /\ UNCHANGED <<client, interrupted, pod, watchVars, stream>>

(* The garbage collector follows the deletion of the Job. *)
PodCollected ==
  /\ job = "deleted"
  /\ pod # "none"
  /\ PodBecomes("none")
  /\ UNCHANGED <<client, interrupted, job, watching>>

-----------------------------------------------------------------------------
Client ==
  \/ CreateJob \/ CreateJobFails \/ CreateAnswerLost
  \/ OpenWatch \/ WaitReceives \/ WaitFails
  \/ Dial \/ DialFails
  \/ RunEnds
  \/ RemoveJob \/ RemoveJobFails

Controllers == JobFinishes \/ JobExpires \/ PodCreated \/ PodCollected

Next ==
  \/ Client \/ Interrupt \/ Crash
  \/ Controllers \/ PodStarts \/ PodFails \/ ServerIdle \/ ConnLost

(* The command and the controllers make progress, a pod is started or      *)
(* fails, and an idle server exits.                                        *)
Fairness ==
  /\ WF_vars(Client)
  /\ WF_vars(Controllers)
  /\ WF_vars(Gone /\ ServerIdle)
  /\ WF_vars(PodStarts)

Spec == Init /\ [][Next]_vars /\ Fairness

-----------------------------------------------------------------------------
(* Properties *)

(* The comment in RunServerJob: "Clean up the Job if anything below fails".*)
(* A command that returns, through any error path or after an interrupt in *)
(* any of its steps, leaves no Job behind, unless the API server did not   *)
(* answer Create or Delete.                                                *)
ExitCleansUp == client = "exited" => job \in {"none", "deleted"}

(* docs/ARCHITECTURE.md: "on crash the server self-terminates on idle (see *)
(* below) and the Job's ttlSecondsAfterFinished cleans it up".  Whenever   *)
(* and however the command ends, no Job and no pod remain.                 *)
JobCollected == Gone ~> (job \in {"none", "deleted"} /\ pod = "none")

=============================================================================
