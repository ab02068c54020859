----------------------------- MODULE StreamConn -----------------------------
(***************************************************************************)
(* The client's side of the multiplexed connection to krelay-server: the   *)
(* TCP accept loop of portForwarder.run (cmd/client/forwarder.go), the     *)
(* goroutines of handleTCPConn (tcp.go), createStream and sendHeartbeats   *)
(* (utils.go), and the select that ends the command (main.go).             *)
(*                                                                         *)
(* createStream starts a goroutine that reads the error stream to its end, *)
(* hands an error, if there is one, to whoever receives from errCh, closes *)
(* errCh, and then closes the whole connection if the error says that the  *)
(* network namespace of the server's sandbox is closed.                    *)
(***************************************************************************)
EXTENDS Naturals

CONSTANTS
  Sessions,  (* local TCP connections                                      *)
  Faults     (* "stall": CreateStream may time out on a connection that    *)
             (* stays up; "write": a write to a stream of it may fail;      *)
             (* "corrupt": the sandbox may be closed; "lost": the          *)
             (* connection may be lost; "refuse": an ack may not be OK     *)

ASSUME ConstantsAssumption == Faults \subseteq {"stall", "write", "corrupt", "lost", "refuse"}

VARIABLES
  connUp,    (* the connection's CloseChan is open                         *)
  corrupt,   (* the sandbox is closed: no stream reaches the server        *)
  loop,      (* the accept loop                                            *)
  handler,   (* where each handleTCPConn is                                *)
  local,     (* the local client's connection: "fin" once it sends no more *)
  fromRemote,(* the copy from dataStream to clientConn: in "write" it is   *)
             (* blocked, because the local client does not receive         *)
  toRemote,  (* the copy from clientConn to dataStream, then Close: in     *)
             (* "write" it is blocked, because nobody takes its data       *)
  localError,(* that copy has failed: close(localError)                    *)
  ended,     (* the server's side has ended both streams                   *)
  message,   (* what the error stream said: "none", "other" or "sandbox"   *)
  errRead,   (* createStream's goroutine                                   *)
  heart,     (* where sendHeartbeats is                                    *)
  beatError, (* a heartbeat's error stream reports the closed sandbox      *)
  main       (* "running" until the command's select ends                  *)

conn     == <<connUp, corrupt>>
streams  == <<ended, message, errRead>>
copies   == <<fromRemote, toRemote, localError>>
beats    == <<heart, beatError>>
vars == <<conn, loop, handler, local, copies, streams, beats, main>>

HandlerPhases == {"idle", "create", "header", "ack", "copy", "err", "done"}
Copy == {"off", "copy", "write", "done"}

TypeOK ==
  /\ connUp \in BOOLEAN
  /\ corrupt \in BOOLEAN
  /\ loop \in {"select", "accept", "returned"}
  /\ handler \in [Sessions -> HandlerPhases]
  /\ local \in [Sessions -> {"open", "fin", "reset"}]
  /\ fromRemote \in [Sessions -> Copy]
  /\ toRemote \in [Sessions -> Copy]
  /\ localError \in [Sessions -> BOOLEAN]
  /\ ended \in [Sessions -> BOOLEAN]
  /\ message \in [Sessions -> {"none", "other", "sandbox"}]
  /\ errRead \in [Sessions -> {"off", "read", "send", "close", "done"}]
  /\ heart \in {"wait", "create", "write", "returned"}
  /\ beatError \in BOOLEAN
  /\ main \in {"running", "exited"}
  (* a handler that uses a stream has one *)
  /\ \A s \in Sessions : handler[s] \in {"header", "ack", "copy", "err"} => errRead[s] # "off"

Init ==
  /\ connUp = TRUE
  /\ corrupt = FALSE
  /\ loop = "select"
  /\ handler = [s \in Sessions |-> "idle"]
  /\ local = [s \in Sessions |-> "open"]
  /\ fromRemote = [s \in Sessions |-> "off"]
  /\ toRemote = [s \in Sessions |-> "off"]
  /\ localError = [s \in Sessions |-> FALSE]
  /\ ended = [s \in Sessions |-> FALSE]
  /\ message = [s \in Sessions |-> "none"]
  /\ errRead = [s \in Sessions |-> "off"]
  /\ heart = "wait"
  /\ beatError = FALSE
  /\ main = "running"

Running == main = "running"

(* Nothing more arrives on the streams of s. *)
Over(s) == ended[s] \/ ~connUp

-----------------------------------------------------------------------------
(* The accept loop                                                         *)

LoopSelect ==
  /\ Running
  /\ loop = "select"
  /\ loop' = IF connUp THEN "accept" ELSE "returned"
  /\ UNCHANGED <<conn, handler, local, copies, streams, beats, main>>

LoopAccept(s) ==
  /\ Running
  /\ loop = "accept"
  /\ handler[s] = "idle"
  /\ handler' = [handler EXCEPT ![s] = "create"]
  /\ loop' = "select"
  /\ UNCHANGED <<conn, local, copies, streams, beats, main>>

-----------------------------------------------------------------------------
(* handleTCPConn.  Its deferred clientConn.Close() takes effect as the     *)
(* handler becomes "done".                                                 *)

(* createStream: both streams exist and the error stream's reader runs. On *)
(* a closed sandbox the streams are ended with the error that says so.     *)
CreateStream(s) ==
  /\ Running
  /\ handler[s] = "create"
  /\ connUp
  /\ handler' = [handler EXCEPT ![s] = "header"]
  /\ errRead' = [errRead EXCEPT ![s] = "read"]
  /\ ended' = [ended EXCEPT ![s] = corrupt]
  /\ message' = [message EXCEPT ![s] = IF corrupt THEN "sandbox" ELSE "none"]
  /\ UNCHANGED <<conn, loop, local, copies, beats, main>>

(* Mutant: a handler whose createStream has failed does not return.        *)
CreateStreamFailsOn(s) ==
  /\ Running
  /\ handler[s] = "create"
  /\ "stall" \in Faults \/ ~connUp
  /\ handler' = [handler EXCEPT ![s] = "header"]
  /\ UNCHANGED <<conn, loop, local, copies, streams, beats, main>>

CreateStreamFails(s) ==
  /\ Running
  /\ handler[s] = "create"
  /\ "stall" \in Faults \/ ~connUp
  /\ handler' = [handler EXCEPT ![s] = "done"]
  /\ UNCHANGED <<conn, loop, local, copies, streams, beats, main>>

(* The write of the header succeeds on a stream the other side has ended. *)
WriteHeader(s) ==
  /\ Running
  /\ handler[s] = "header"
  /\ connUp
  /\ handler' = [handler EXCEPT ![s] = "ack"]
  /\ UNCHANGED <<conn, loop, local, copies, streams, beats, main>>

ReadAck(s) ==
  /\ Running
  /\ handler[s] = "ack"
  /\ ~Over(s)
  /\ handler' = [handler EXCEPT ![s] = "copy"]
  /\ fromRemote' = [fromRemote EXCEPT ![s] = "copy"]
  /\ toRemote' = [toRemote EXCEPT ![s] = "copy"]
  /\ UNCHANGED <<conn, loop, local, localError, streams, beats, main>>

(* The early returns after createStream; nobody will receive from errCh. *)
HandlerFails(s) ==
  /\ Running
  /\ \/ handler[s] = "header" /\ (Over(s) \/ "write" \in Faults)
     \/ handler[s] = "ack" /\ (Over(s) \/ "refuse" \in Faults)
  /\ handler' = [handler EXCEPT ![s] = "done"]
  /\ UNCHANGED <<conn, loop, local, copies, streams, beats, main>>

(* The local client stops receiving, and the copy blocks in a write. *)
FromRemoteBlocks(s) ==
  /\ Running
  /\ fromRemote[s] = "copy"
  /\ local[s] # "reset" /\ handler[s] # "done"
  /\ fromRemote' = [fromRemote EXCEPT ![s] = "write"]
  /\ UNCHANGED <<conn, loop, handler, local, toRemote, localError, streams, beats, main>>

ClientReceives(s) ==
  /\ Running
  /\ fromRemote[s] = "write"
  /\ fromRemote' = [fromRemote EXCEPT ![s] = "copy"]
  /\ UNCHANGED <<conn, loop, handler, local, toRemote, localError, streams, beats, main>>

(* The copy to the local connection ends with the stream, or by a write to *)
(* a connection that the handler or the local client has closed.           *)
FromRemoteEnds(s) ==
  /\ Running
  /\ \/ fromRemote[s] = "copy" /\ (Over(s) \/ local[s] # "open" \/ handler[s] = "done")
     \/ fromRemote[s] = "write" /\ (local[s] = "reset" \/ handler[s] = "done")
  /\ fromRemote' = [fromRemote EXCEPT ![s] = "done"]
  /\ UNCHANGED <<conn, loop, handler, local, toRemote, localError, streams, beats, main>>

(* Nobody takes what the local client sends, and the copy blocks. *)
ToRemoteBlocks(s) ==
  /\ Running
  /\ toRemote[s] = "copy"
  /\ connUp
  /\ local[s] # "reset" /\ handler[s] # "done"
  /\ toRemote' = [toRemote EXCEPT ![s] = "write"]
  /\ UNCHANGED <<conn, loop, handler, local, fromRemote, localError, streams, beats, main>>

ServerReceives(s) ==
  /\ Running
  /\ toRemote[s] = "write"
  /\ toRemote' = [toRemote EXCEPT ![s] = "copy"]
  /\ UNCHANGED <<conn, loop, handler, local, fromRemote, localError, streams, beats, main>>

(* The read of the local connection ends: the client sends no more, or the *)
(* handler has closed the connection, neither of which is an error, or the *)
(* connection is reset.                                                    *)
LocalReadEnds(s) ==
  /\ toRemote[s] = "copy"
  /\ \/ /\ local[s] = "fin" \/ handler[s] = "done"
        /\ UNCHANGED localError
     \/ /\ local[s] = "reset"
        /\ localError' = [localError EXCEPT ![s] = TRUE]

(* A write to the stream fails, which the copy learns of only if there is  *)
(* something to write.  net.ErrClosed is no error either.                  *)
StreamWriteFails(s) ==
  /\ toRemote[s] \in {"copy", "write"}
  /\ Over(s) \/ "write" \in Faults
  /\ \E failed \in {localError[s], TRUE} :
       localError' = [localError EXCEPT ![s] = failed]

(* The copy to the stream ends, and the deferred dataStream.Close() tells  *)
(* the server.                                                             *)
ToRemoteEnds(s) ==
  /\ Running
  /\ LocalReadEnds(s) \/ StreamWriteFails(s)
  /\ toRemote' = [toRemote EXCEPT ![s] = "done"]
  /\ UNCHANGED <<conn, loop, handler, local, fromRemote, streams, beats, main>>

(* Mutant: the select has no case for remoteDone.                          *)
HandlerSelectLocalOnly(s) ==
  /\ Running
  /\ handler[s] = "copy"
  /\ localError[s]
  /\ handler' = [handler EXCEPT ![s] = "err"]
  /\ UNCHANGED <<conn, loop, local, copies, streams, beats, main>>

(* The select on remoteDone and localError *)
HandlerSelect(s) ==
  /\ Running
  /\ handler[s] = "copy"
  /\ fromRemote[s] = "done" \/ localError[s]
  /\ handler' = [handler EXCEPT ![s] = "err"]
  /\ UNCHANGED <<conn, loop, local, copies, streams, beats, main>>

(* <-errorChan: an error is handed over, or errCh is closed. *)
HandlerReturns(s) ==
  /\ Running
  /\ handler[s] = "err"
  /\ \/ /\ errRead[s] = "send"
        /\ errRead' = [errRead EXCEPT ![s] = "close"]
     \/ /\ errRead[s] = "done"
        /\ UNCHANGED errRead
  /\ handler' = [handler EXCEPT ![s] = "done"]
  /\ UNCHANGED <<conn, loop, local, copies, ended, message, beats, main>>

-----------------------------------------------------------------------------
(* createStream's goroutine                                                *)

(* io.ReadAll(errStream) returns.  The loss of the connection is an error  *)
(* of its own.                                                             *)
ErrorStreamEnds(s) ==
  /\ Running
  /\ errRead[s] = "read"
  /\ Over(s)
  /\ message' = IF ended[s] THEN message ELSE [message EXCEPT ![s] = "other"]
  /\ errRead' = [errRead EXCEPT ![s] = IF message'[s] = "none" THEN "close" ELSE "send"]
  /\ UNCHANGED <<conn, loop, handler, local, copies, ended, beats, main>>

(* close(errCh), and the check for a corrupted connection *)
ErrorChanClosed(s) ==
  /\ Running
  /\ errRead[s] = "close"
  /\ errRead' = [errRead EXCEPT ![s] = "done"]
  /\ connUp' = (connUp /\ message[s] # "sandbox")
  /\ UNCHANGED <<corrupt, loop, handler, local, copies, ended, message, beats, main>>

-----------------------------------------------------------------------------
(* sendHeartbeats                                                          *)

HeartbeatTick ==
  /\ Running
  /\ heart = "wait"
  /\ heart' = IF connUp THEN "create" ELSE "returned"
  /\ UNCHANGED <<conn, loop, handler, local, copies, streams, beatError, main>>

(* createStream, and the goroutine that receives from its errCh *)
HeartbeatCreates ==
  /\ Running
  /\ heart = "create"
  /\ connUp
  /\ heart' = "write"
  /\ beatError' = (beatError \/ corrupt)
  /\ UNCHANGED <<conn, loop, handler, local, copies, streams, main>>

HeartbeatFails ==
  /\ Running
  /\ \/ heart = "create" /\ ("stall" \in Faults \/ ~connUp)
     \/ heart = "write" /\ ("write" \in Faults \/ ~connUp)
  /\ heart' = "returned"
  /\ UNCHANGED <<conn, loop, handler, local, copies, streams, beatError, main>>

HeartbeatWrites ==
  /\ Running
  /\ heart = "write"
  /\ connUp
  /\ heart' = "wait"
  /\ UNCHANGED <<conn, loop, handler, local, copies, streams, beatError, main>>

(* Mutant: errCh is not received from, so that its sender stays blocked.   *)
HeartbeatErrorIgnored ==
  /\ Running
  /\ beatError
  /\ UNCHANGED vars

(* The goroutine of a heartbeat's createStream hands over its error, goes  *)
(* on and closes the corrupted connection.                                 *)
HeartbeatErrorRead ==
  /\ Running
  /\ beatError
  /\ beatError' = FALSE
  /\ connUp' = FALSE
  /\ UNCHANGED <<corrupt, loop, handler, local, copies, streams, heart, main>>

-----------------------------------------------------------------------------
(* The command returns when CloseChan is closed: the process ends. *)
MainReturns ==
  /\ Running
  /\ ~connUp
  /\ main' = "exited"
  /\ UNCHANGED <<conn, loop, handler, local, copies, streams, beats>>

-----------------------------------------------------------------------------
(* The environment                                                         *)

ClientCloses(s) ==
  /\ Running
  /\ handler[s] # "idle"
  /\ local[s] = "open"
  /\ local' = [local EXCEPT ![s] = "fin"]
  /\ UNCHANGED <<conn, loop, handler, copies, streams, beats, main>>

ClientResets(s) ==
  /\ Running
  /\ handler[s] # "idle"
  /\ local[s] # "reset"
  /\ local' = [local EXCEPT ![s] = "reset"]
  /\ UNCHANGED <<conn, loop, handler, copies, streams, beats, main>>

(* The destination closes, or the server ends the session; the port        *)
(* forwarder may report an error.                                          *)
ServerEnds(s) ==
  /\ Running
  /\ errRead[s] # "off"
  /\ ~ended[s]
  /\ ended' = [ended EXCEPT ![s] = TRUE]
  /\ message' = [message EXCEPT ![s] = "none"]
  /\ UNCHANGED <<conn, loop, handler, local, copies, errRead, beats, main>>

ServerEndsWithError(s) ==
  /\ Running
  /\ errRead[s] # "off"
  /\ ~ended[s]
  /\ ended' = [ended EXCEPT ![s] = TRUE]
  /\ message' = [message EXCEPT ![s] = "other"]
  /\ UNCHANGED <<conn, loop, handler, local, copies, errRead, beats, main>>

(* The sandbox is closed.  The open streams end with it. *)
SandboxCloses ==
  /\ Running
  /\ "corrupt" \in Faults
  /\ ~corrupt
  /\ corrupt' = TRUE
  /\ ended' = [s \in Sessions |-> errRead[s] # "off"]
  /\ UNCHANGED <<connUp, loop, handler, local, copies, message, errRead, beats, main>>

ConnLost ==
  /\ Running
  /\ "lost" \in Faults
  /\ connUp
  /\ connUp' = FALSE
  /\ UNCHANGED <<corrupt, loop, handler, local, copies, streams, beats, main>>

-----------------------------------------------------------------------------
Handle(s) ==
  \/ CreateStream(s) \/ CreateStreamFails(s) \/ WriteHeader(s) \/ ReadAck(s)
  \/ HandlerFails(s) \/ HandlerSelect(s) \/ HandlerReturns(s)

ErrorGoroutine(s) == ErrorStreamEnds(s) \/ ErrorChanClosed(s)

Flow(s) == FromRemoteBlocks(s) \/ ClientReceives(s) \/ ToRemoteBlocks(s) \/ ServerReceives(s)

Heartbeat == HeartbeatTick \/ HeartbeatCreates \/ HeartbeatFails \/ HeartbeatWrites

Next ==
  \/ LoopSelect \/ (\E s \in Sessions : LoopAccept(s))
  \/ \E s \in Sessions : \/ Handle(s) \/ FromRemoteEnds(s) \/ ToRemoteEnds(s)
                         \/ ErrorGoroutine(s) \/ Flow(s)
                         \/ ClientCloses(s) \/ ClientResets(s)
                         \/ ServerEnds(s) \/ ServerEndsWithError(s)
  \/ Heartbeat \/ HeartbeatErrorRead
  \/ SandboxCloses \/ ConnLost
  \/ MainReturns

(* The goroutines are scheduled, the ticker ticks, and the server answers  *)
(* a header and ends a session whose client has closed its stream.  What a *)
(* stream that is over still holds comes to an end, if the local client    *)
(* receives.  Neither side need receive, and a copy is not sure to learn   *)
(* that the stream is over.                                                *)
Fairness ==
  /\ WF_vars(LoopSelect)
  /\ \A s \in Sessions :
       /\ WF_vars(Handle(s))
       /\ SF_vars(fromRemote[s] = "copy" /\ Over(s) /\ FromRemoteEnds(s))
       /\ WF_vars(fromRemote[s] = "write" /\ FromRemoteEnds(s))
       /\ SF_vars(LocalReadEnds(s) /\ ToRemoteEnds(s))
       /\ WF_vars(~connUp /\ toRemote[s] = "write" /\ ToRemoteEnds(s))
       /\ WF_vars(ErrorGoroutine(s))
       /\ WF_vars(toRemote[s] = "done" /\ ServerEnds(s))
  /\ WF_vars(Heartbeat)
  /\ WF_vars(HeartbeatErrorRead)
  /\ WF_vars(MainReturns)

Spec == Init /\ [][Next]_vars /\ Fairness

-----------------------------------------------------------------------------
(* Properties *)

(* Every goroutine of the session of s, but for the reader of its error    *)
(* stream, has ended.                                                      *)
SessionDone(s) ==
  /\ handler[s] = "done"
  /\ fromRemote[s] \in {"off", "done"} /\ toRemote[s] \in {"off", "done"}

(* A copy of the session is in a write that does not return.               *)
Stuck(s) == fromRemote[s] = "write" \/ toRemote[s] = "write"

(* Whichever side ends or resets a session first, and while copies in both *)
(* directions are under way, all its goroutines end, unless one of them is *)
(* left in a write that the other side never takes: no deadline ends it.   *)
SessionsEnd ==
  \A s \in Sessions :
    \/ (local[s] # "open" \/ ended[s]) ~> (SessionDone(s) \/ ~Running)
    \/ <>[]Stuck(s)

(* createStream's "check if the spdy connection is corrupted": once the    *)
(* sandbox is closed, so is the connection, and the command ends, as long  *)
(* as there are heartbeats.  The check of a local connection's stream does *)
(* not suffice, because handleTCPConn returns without receiving from errCh *)
(* when no ack arrives.                                                    *)
CorruptedConnClosed == corrupt ~> (~connUp \/ heart = "returned")

(* docs/ARCHITECTURE.md: "The client sends a ProtocolKeepalive heartbeat   *)
(* every 5 seconds over the port-forward stream."  As long as the          *)
(* connection is up, there is another heartbeat.                           *)
HeartbeatsGoOn == []<>(heart = "write" \/ ~connUp)

=============================================================================
