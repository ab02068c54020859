--------------------------- MODULE UDPForwarder ---------------------------
(***************************************************************************)
(* UDP forwarding in the krelay client: the read loop of portForwarder.run *)
(* (cmd/client/forwarder.go), its conntrack table (conntrack.go) and the   *)
(* goroutines of handleUDPConn (udp.go).                                   *)
(*                                                                         *)
(* One loop reads the datagrams of all local clients and hands each one    *)
(* over an unbuffered channel to the session of its client.  A session is  *)
(* a handler (create the stream, send the header, read the ack, wait for   *)
(* the error stream), and from the ack on a writer and a reader.  When the *)
(* handler returns, a finisher goroutine removes the session's key from    *)
(* the table.  A session is named <<c, k>>: the k-th one of client c; its  *)
(* channel is the value Get(c) returns.                                    *)
(***************************************************************************)
EXTENDS Naturals, Sequences

CONSTANTS
  Clients,    (* local addresses datagrams come from                       *)
  Sends,      (* how many datagrams each client sends                      *)
  MaxSend,    (* bound on the datagrams of a client                        *)
  None,       (* the finisher holds no key                                 *)
  Faults      (* what may go wrong: see FaultKinds                         *)

(* Where the environment may fail: CreateStream, the header's write, the   *)
(* ack, a datagram's write, a write that the server's side does not take,  *)
(* ReadUDPFromStream or WriteTo, the error stream alone, a session closed  *)
(* by the server, the loss of the connection, the socket.                  *)
FaultKinds == {"create", "header", "ack", "write", "stall", "reply", "error",
               "close", "conn", "socket"}

ASSUME ConstantsAssumption ==
  /\ MaxSend \in Nat
  /\ Sends \in [Clients -> 0..MaxSend]
  /\ None \notin Clients
  /\ Faults \subseteq FaultKinds

VARIABLES
  arrived,   (* datagrams of each client the socket has received           *)
  taken,     (* how many of them ReadFrom has returned                     *)
  loop,      (* where the read loop is                                     *)
  pkt,       (* the datagram the loop holds: its client and its number     *)
  ch,        (* the session whose channel the loop sends on                *)
  track,     (* the conntrack table: the session of each key, 0 for none   *)
  opened,    (* sessions opened so far for each client                     *)
  handler,   (* where each session's handleUDPConn is                      *)
  writer,    (* where its writer goroutine is                              *)
  data,      (* the datagram the writer has received                       *)
  reader,    (* where its reader is; it closes upClosed when it is done    *)
  closed,    (* the server has closed the session's streams                *)
  connUp,    (* the connection to the server has not been closed           *)
  finisher,  (* the key the finisher is about to delete                    *)
  up         (* the datagrams each session has written to its stream       *)

loopVars    == <<loop, pkt, ch>>
sessionVars == <<handler, writer, data, reader, closed, up>>
vars == <<arrived, taken, loopVars, track, opened, sessionVars, connUp, finisher>>

Gens     == 1..MaxSend
Sessions == Clients \X Gens
Packets  == [from : Clients, n : Gens]

LoopPhases    == {"select", "read", "open", "send", "returned"}
HandlerPhases == {"none", "create", "header", "ack", "wait", "finish", "done"}
WriterPhases  == {"none", "recv", "write", "done"}
ReaderPhases  == {"none", "read", "done"}

TypeOK ==
  /\ arrived \in [Clients -> 0..MaxSend]
  /\ taken \in [Clients -> 0..MaxSend]
  /\ loop \in LoopPhases
  /\ loop \in {"open", "send"} => pkt \in Packets
  /\ loop = "send" => ch \in Sessions
  /\ track \in [Clients -> 0..MaxSend]
  /\ opened \in [Clients -> 0..MaxSend]
  /\ handler \in [Sessions -> HandlerPhases]
  /\ writer \in [Sessions -> WriterPhases]
  /\ data \in [Sessions -> 0..MaxSend]
  /\ \A s \in Sessions : writer[s] = "write" => data[s] \in Gens
  /\ reader \in [Sessions -> ReaderPhases]
  /\ closed \in [Sessions -> BOOLEAN]
  /\ connUp \in BOOLEAN
  /\ finisher \in Clients \union {None}
  /\ up \in [Sessions -> Seq(Gens)]

Init ==
  /\ arrived = [c \in Clients |-> 0]
  /\ taken = [c \in Clients |-> 0]
  /\ loop = "select"
  /\ pkt = None
  /\ ch = None
  /\ track = [c \in Clients |-> 0]
  /\ opened = [c \in Clients |-> 0]
  /\ handler = [s \in Sessions |-> "none"]
  /\ writer = [s \in Sessions |-> "none"]
  /\ data = [s \in Sessions |-> 0]
  /\ reader = [s \in Sessions |-> "none"]
  /\ closed = [s \in Sessions |-> FALSE]
  /\ connUp = TRUE
  /\ finisher = None
  /\ up = [s \in Sessions |-> <<>>]

(* connTrack.  Each method holds the table's mutex from its beginning to   *)
(* its end.                                                                *)
Get(key)       == track[key]
Set(key, item) == track' = [track EXCEPT ![key] = item]
Delete(key)    == track' = [track EXCEPT ![key] = 0]

(* Nothing more passes over the streams of s. *)
Dead(s) == closed[s] \/ ~connUp

-----------------------------------------------------------------------------
(* The read loop of portForwarder.run                                      *)

(* The non-blocking select on CloseChan.  It is the only place where the   *)
(* loop looks at the connection.                                           *)
LoopSelect ==
  /\ loop = "select"
  /\ loop' = IF connUp THEN "read" ELSE "returned"
  /\ UNCHANGED <<arrived, taken, pkt, ch, track, opened, sessionVars, connUp, finisher>>

(* Mutant: the error of ReadFrom is not checked, and what the buffer holds *)
(* is taken for a datagram.                                                *)
LoopReadUnchecked(c) ==
  /\ loop = "read"
  /\ taken' = [taken EXCEPT ![c] = @ + 1]
  /\ pkt' = [from |-> c, n |-> taken[c] + 1]
  /\ loop' = IF track[c] = 0 THEN "open" ELSE "send"
  /\ ch' = <<c, track[c]>>
  /\ UNCHANGED <<arrived, track, opened, sessionVars, connUp, finisher>>

(* Mutant: the datagram is not copied out of the loop's buffer, and the    *)
(* next ReadFrom overwrites what a writer is about to write.               *)
LoopReadSharesBuffer(c) ==
  /\ loop = "read"
  /\ taken[c] < arrived[c]
  /\ taken' = [taken EXCEPT ![c] = @ + 1]
  /\ pkt' = [from |-> c, n |-> taken[c] + 1]
  /\ loop' = IF track[c] = 0 THEN "open" ELSE "send"
  /\ ch' = <<c, track[c]>>
  /\ data' = [s \in Sessions |-> IF writer[s] = "write" THEN taken[c] + 1 ELSE data[s]]
  /\ UNCHANGED <<arrived, track, opened, handler, writer, reader, closed, up, connUp, finisher>>

(* ReadFrom returns a datagram of c, and track.Get(key) follows. *)
LoopRead(c) ==
  /\ loop = "read"
  /\ taken[c] < arrived[c]
  /\ taken' = [taken EXCEPT ![c] = @ + 1]
  /\ pkt' = [from |-> c, n |-> taken[c] + 1]
  /\ \/ /\ Get(c) = 0
        /\ loop' = "open"
        /\ UNCHANGED ch
     \/ /\ Get(c) # 0
        /\ loop' = "send"
        /\ ch' = <<c, Get(c)>>
  /\ UNCHANGED <<arrived, track, opened, sessionVars, connUp, finisher>>

LoopReadFails ==
  /\ "socket" \in Faults
  /\ loop = "read"
  /\ loop' = "returned"
  /\ UNCHANGED <<arrived, taken, pkt, ch, track, opened, sessionVars, connUp, finisher>>

(* A new channel: track.Set(key, dataCh) and go handleUDPConn(...).  Both  *)
(* implementations of addrGetter.Get return a nil error.                   *)
LoopOpen ==
  LET c == pkt.from
      s == <<c, opened[c] + 1>>
  IN  /\ loop = "open"
      /\ opened' = [opened EXCEPT ![c] = @ + 1]
      /\ Set(c, opened[c] + 1)
      /\ handler' = [handler EXCEPT ![s] = "create"]
      /\ ch' = s
      /\ loop' = "send"
      /\ UNCHANGED <<arrived, taken, pkt, writer, data, reader, closed, up, connUp, finisher>>

(* dataCh <- data meets the receive in the writer's select. *)
LoopSend ==
  /\ loop = "send"
  /\ writer[ch] = "recv"
  /\ writer' = [writer EXCEPT ![ch] = "write"]
  /\ data' = [data EXCEPT ![ch] = pkt.n]
  /\ loop' = "select"
  /\ pkt' = None
  /\ ch' = None
  /\ UNCHANGED <<arrived, taken, track, opened, handler, reader, closed, up, connUp, finisher>>

-----------------------------------------------------------------------------
(* handleUDPConn                                                           *)

CreateStream(s) ==
  /\ handler[s] = "create"
  /\ connUp
  /\ handler' = [handler EXCEPT ![s] = "header"]
  /\ UNCHANGED <<arrived, taken, loopVars, track, opened, writer, data, reader, closed, up, connUp, finisher>>

WriteHeader(s) ==
  /\ handler[s] = "header"
  /\ ~Dead(s)
  /\ handler' = [handler EXCEPT ![s] = "ack"]
  /\ UNCHANGED <<arrived, taken, loopVars, track, opened, writer, data, reader, closed, up, connUp, finisher>>

(* An OK ack: the writer and the reader are started, and the handler waits *)
(* on errorChan.                                                           *)
ReadAck(s) ==
  /\ handler[s] = "ack"
  /\ ~Dead(s)
  /\ handler' = [handler EXCEPT ![s] = "wait"]
  /\ writer' = [writer EXCEPT ![s] = "recv"]
  /\ reader' = [reader EXCEPT ![s] = "read"]
  /\ UNCHANGED <<arrived, taken, loopVars, track, opened, data, closed, up, connUp, finisher>>

(* One of the early returns: createStream, the write of the header or the  *)
(* read of the ack fails, or the ack's code is not OK.                     *)
HandlerFails(s) ==
  /\ handler[s] \in {"create", "header", "ack"}
  /\ handler[s] \in Faults \/ Dead(s)
  /\ handler' = [handler EXCEPT ![s] = "finish"]
  /\ UNCHANGED <<arrived, taken, loopVars, track, opened, writer, data, reader, closed, up, connUp, finisher>>

(* Mutant: the handler returns when its reader has ended, although the     *)
(* writer still holds a datagram and the streams are open.                 *)
HandlerReturnsWithReader(s) ==
  /\ handler[s] = "wait"
  /\ Dead(s) \/ reader[s] = "done"
  /\ handler' = [handler EXCEPT ![s] = "finish"]
  /\ UNCHANGED <<arrived, taken, loopVars, track, opened, writer, data, reader, closed, up, connUp, finisher>>

(* Something arrives on errorChan: the error stream has ended, with the    *)
(* data stream or on its own.  The handler leaves the data stream open.    *)
HandlerReturns(s) ==
  /\ handler[s] = "wait"
  /\ "error" \in Faults \/ Dead(s)
  /\ handler' = [handler EXCEPT ![s] = "finish"]
  /\ UNCHANGED <<arrived, taken, loopVars, track, opened, writer, data, reader, closed, up, connUp, finisher>>

(* Mutant: the key is sent once more, by an early return and by the defer. *)
FinishTwice(s) ==
  /\ handler[s] = "finish"
  /\ finisher = None
  /\ \E x \in {"finish", "done"} : handler' = [handler EXCEPT ![s] = x]
  /\ finisher' = s[1]
  /\ UNCHANGED <<arrived, taken, loopVars, track, opened, writer, data, reader, closed, up, connUp>>

(* The deferred finish <- key meets the finisher's range over the channel. *)
Finish(s) ==
  /\ handler[s] = "finish"
  /\ finisher = None
  /\ handler' = [handler EXCEPT ![s] = "done"]
  /\ finisher' = s[1]
  /\ UNCHANGED <<arrived, taken, loopVars, track, opened, writer, data, reader, closed, up, connUp>>

(* Mutant: the finisher receives one key only.                             *)
FinisherDeletesOne ==
  /\ finisher # None
  /\ Delete(finisher)
  /\ UNCHANGED <<arrived, taken, loopVars, opened, sessionVars, connUp, finisher>>

FinisherDelete ==
  /\ finisher # None
  /\ Delete(finisher)
  /\ finisher' = None
  /\ UNCHANGED <<arrived, taken, loopVars, opened, sessionVars, connUp>>

(* The writer's select takes <-upClosed. *)
WriterStops(s) ==
  /\ writer[s] = "recv"
  /\ reader[s] = "done"
  /\ writer' = [writer EXCEPT ![s] = "done"]
  /\ UNCHANGED <<arrived, taken, loopVars, track, opened, handler, data, reader, closed, up, connUp, finisher>>

(* Mutant: the writer passes one datagram on and ends.                     *)
WriterWritesOnce(s) ==
  /\ writer[s] = "write"
  /\ up' = IF Dead(s) THEN up ELSE [up EXCEPT ![s] = Append(@, data[s])]
  /\ writer' = [writer EXCEPT ![s] = "done"]
  /\ data' = [data EXCEPT ![s] = 0]
  /\ UNCHANGED <<arrived, taken, loopVars, track, opened, handler, reader, closed, connUp, finisher>>

(* WriteFull(dataStream, data) succeeds; on a dead stream what it wrote is *)
(* lost.  It has no deadline: see Fairness for a stream that takes nothing *)
(* more.                                                                   *)
WriterWrites(s) ==
  /\ writer[s] = "write"
  /\ up' = IF Dead(s) THEN up ELSE [up EXCEPT ![s] = Append(@, data[s])]
  /\ writer' = [writer EXCEPT ![s] = "recv"]
  /\ data' = [data EXCEPT ![s] = 0]
  /\ UNCHANGED <<arrived, taken, loopVars, track, opened, handler, reader, closed, connUp, finisher>>

WriterFails(s) ==
  /\ writer[s] = "write"
  /\ "write" \in Faults \/ Dead(s)
  /\ writer' = [writer EXCEPT ![s] = "done"]
  /\ data' = [data EXCEPT ![s] = 0]
  /\ UNCHANGED <<arrived, taken, loopVars, track, opened, handler, reader, closed, up, connUp, finisher>>

(* ReadUDPFromStream or WriteTo fails: close(upClosed).  The replies the   *)
(* reader passes on before that change nothing here.                       *)
ReaderStops(s) ==
  /\ reader[s] = "read"
  /\ "reply" \in Faults \/ Dead(s)
  /\ reader' = [reader EXCEPT ![s] = "done"]
  /\ UNCHANGED <<arrived, taken, loopVars, track, opened, handler, writer, data, closed, up, connUp, finisher>>

-----------------------------------------------------------------------------
(* The environment                                                         *)

Arrive(c) ==
  /\ arrived[c] < Sends[c]
  /\ arrived' = [arrived EXCEPT ![c] = @ + 1]
  /\ UNCHANGED <<taken, loopVars, track, opened, sessionVars, connUp, finisher>>

(* The server ends a session it has acknowledged, after its idle timeout. *)
ServerCloses(s) ==
  /\ "close" \in Faults
  /\ handler[s] = "wait"
  /\ ~closed[s]
  /\ closed' = [closed EXCEPT ![s] = TRUE]
  /\ UNCHANGED <<arrived, taken, loopVars, track, opened, handler, writer, data, reader, up, connUp, finisher>>

ConnCloses ==
  /\ "conn" \in Faults
  /\ connUp
  /\ connUp' = FALSE
  /\ UNCHANGED <<arrived, taken, loopVars, track, opened, sessionVars, finisher>>

-----------------------------------------------------------------------------
Loop == LoopSelect \/ (\E c \in Clients : LoopRead(c)) \/ LoopOpen \/ LoopSend

Handle(s) ==
  \/ CreateStream(s) \/ WriteHeader(s) \/ ReadAck(s)
  \/ HandlerFails(s) \/ HandlerReturns(s)
  \/ Finish(s)

Write(s) == WriterStops(s) \/ WriterWrites(s) \/ WriterFails(s)

(* The writer is in a write that nothing but the other side can end.       *)
Blocked(s) == writer[s] = "write" /\ ~Dead(s)

Next ==
  \/ Loop \/ LoopReadFails
  \/ FinisherDelete
  \/ \E s \in Sessions : Handle(s) \/ Write(s) \/ ReaderStops(s) \/ ServerCloses(s)
  \/ \E c \in Clients : Arrive(c)
  \/ ConnCloses

(* Every goroutine that can take a step takes one: the Go scheduler is     *)
(* fair, and the server answers every header within its connect timeout.   *)
(* The environment owes nothing else; in particular a reader that could    *)
(* fail for a fault of its own need not, and with the fault "stall" a      *)
(* WriteFull may stay blocked for as long as its stream lives.             *)
Fairness ==
  /\ WF_vars(Loop)
  /\ WF_vars(FinisherDelete)
  /\ \A s \in Sessions : /\ WF_vars(Handle(s))
                         /\ SF_vars(Finish(s))
                         /\ WF_vars(Write(s) /\ ~("stall" \in Faults /\ Blocked(s)))
                         /\ WF_vars(Dead(s) /\ ReaderStops(s))

Spec == Init /\ [][Next]_vars /\ Fairness

-----------------------------------------------------------------------------
(* Properties *)

(* Session s has been opened and its key has not been deleted since.       *)
Live(s) ==
  \/ handler[s] \notin {"none", "done"}
  \/ handler[s] = "done" /\ finisher = s[1] /\ s[2] = opened[s[1]]

(* The conntrack table maps a client to its one live session: although a   *)
(* key is deleted by name, after its handler has returned and by another   *)
(* goroutine than the one that sets it, a Delete never removes a newer     *)
(* session of the same client, and no client has two live sessions.        *)
TrackExact ==
  \A s \in Sessions : Live(s) <=> (track[s[1]] = s[2])

(* Each datagram is written to at most one stream and in the order it was  *)
(* read, even while the writer of a finished session and the one of its    *)
(* successor run side by side.                                             *)
WrittenInOrder ==
  /\ \A s \in Sessions : \A i, j \in DOMAIN up[s] : i < j => up[s][i] < up[s][j]
  /\ \A s, t \in Sessions :
       (s[1] = t[1] /\ s[2] < t[2]) =>
          \A i \in DOMAIN up[s], j \in DOMAIN up[t] : up[s][i] < up[t][j]

(* A client sees its sessions as a FIFO that may lose datagrams: every     *)
(* step of the loop, the handlers, the writers and the finisher is a step  *)
(* of UDPSessions or leaves its state alone.  Beyond WrittenInOrder this   *)
(* says when datagrams are written: a writer that is left over from an     *)
(* earlier session writes nothing once its client has a new one.  (It may  *)
(* if only the error stream has ended, the fault "error".)                 *)
Service == INSTANCE UDPSessions WITH session <- opened, out <- up

ImplementsSessions == Service!Spec

(* A session whose streams have ended is removed from the table: the next  *)
(* datagram of its client can open a new one.                              *)
DeadSessionsForgotten ==
  \A s \in Sessions : (handler[s] # "none" /\ Dead(s)) ~> ~Live(s)

(* If error streams end, but no other fault of a session occurs, no write  *)
(* stays blocked and the connection lasts, every datagram that reaches the *)
(* socket is written: one that opens a session, one that finds a session   *)
(* whose writer is busy with the one before, and one that the loop hands   *)
(* over while the handler of its session returns.  (After other faults the *)
(* loop may stay blocked: see EachLocalConnGetsStream.)                    *)
EveryDatagramWritten ==
  \/ \A c \in Clients : \A n \in Gens :
       (arrived[c] >= n) ~>
          \/ \E k \in Gens : \E i \in DOMAIN up[<<c, k>>] : up[<<c, k>>][i] = n
          \/ ~connUp
  \/ \E s \in Sessions : <>[]Blocked(s)

(* docs/ARCHITECTURE.md: "Each local connection becomes a new multiplexed  *)
(* stream on that connection".  A client that sends a datagram gets a      *)
(* session, unless the connection is lost.                                 *)
EachLocalConnGetsStream ==
  \A c \in Clients : (arrived[c] > 0) ~> (opened[c] > 0 \/ ~connUp)

=============================================================================
