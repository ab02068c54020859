------------------------------ MODULE ProxyUDP ------------------------------
(***************************************************************************)
(* A UDP session in krelay-server: xnet.ProxyUDP, the framing read by      *)
(* ReadUDPFromStream (pkg/xnet/udp.go, utils.go) and the idle alarm        *)
(* (pkg/alarm/alarm.go).                                                   *)
(*                                                                         *)
(* Two goroutines copy datagrams, "down" from the client's stream to the   *)
(* upstream and "up" the other way; each read has a deadline, and a read   *)
(* that times out is simply started again until the alarm is done.  The    *)
(* alarm is a third goroutine that every copied datagram resets.           *)
(*                                                                         *)
(* The client's stream is a stream of bytes, known by their offsets: the   *)
(* n-th frame, a length of two bytes and then that many bytes, begins at   *)
(* Start[n].  The bytes arrive in pieces of any size, and io.ReadFull puts *)
(* together what a length or a body needs, all under one deadline.         *)
(*                                                                         *)
(* Time is counted down in the timers, and code takes no time: the clock   *)
(* advances when no goroutine can take a step.                             *)
(***************************************************************************)
EXTENDS Naturals, Sequences

CONSTANTS
  MaxFrames,    (* bound on the datagrams the client sends                 *)
  MaxReplies,   (* bound on the datagrams the upstream sends               *)
  Start,        (* where each frame begins; the last entry ends the last   *)
  MaxLength,    (* the largest number two bytes can hold (65535)           *)
  SplitLengths, (* the two bytes of a length may arrive apart              *)
  MaxSpan,      (* longest time from a frame's first byte to its last      *)
  SendBuffer,   (* datagrams that downConn holds for a client that does    *)
                (* not receive them                                        *)
  IdleTimeout,  (* the alarm's duration (110 s)                            *)
  ReadTimeout,  (* the deadline of a read (5 s)                            *)
  Garbage       (* a datagram made of bytes that are no datagram's body    *)

Frames == 1..MaxFrames

(* The length of the n-th datagram. *)
Size(n) == Start[n + 1] - (Start[n] + 2)

ASSUME ConstantsAssumption ==
  /\ MaxFrames \in Nat
  /\ MaxReplies \in Nat
  /\ MaxLength \in Nat
  /\ SplitLengths \in BOOLEAN
  /\ MaxSpan \in Nat
  /\ SendBuffer \in Nat \ {0}
  /\ IdleTimeout \in Nat \ {0}
  /\ ReadTimeout \in Nat \ {0}
  /\ Garbage \notin Nat

ASSUME StartAssumption ==
  /\ Start \in [1..(MaxFrames + 1) -> Nat]
  /\ Start[1] = 0
  /\ \A m, n \in 1..(MaxFrames + 1) : m < n => Start[m] + 2 <= Start[n]
  /\ \A n \in Frames : Size(n) <= MaxLength

VARIABLES
  wr,        (* how many bytes of the stream have arrived                  *)
  span,      (* for how long the client has owed the rest of a frame       *)
  client,    (* its end of downConn: "eof" once it sends no more, "gone"   *)
             (* once the connection is lost                                *)
  buffered,  (* datagrams in downConn that the client has not received     *)
  shut,      (* downConn.CloseRead() was called                            *)
  down,      (* where the goroutine that reads downConn is                 *)
  at,        (* where the bytes of its io.ReadFull begin                   *)
  rd,        (* where those it has not read begin                          *)
  len,       (* the length it has read                                     *)
  body,      (* what it will write as a datagram                           *)
  downTimer, (* what is left of downConn's read deadline                   *)
  out,       (* the datagrams written to the upstream                      *)
  up,        (* where the goroutine that reads upConn is                   *)
  upTimer,   (* what is left of upConn's read deadline                     *)
  replies,   (* datagrams the upstream has sent                            *)
  pending,   (* how many of them upConn holds                              *)
  upOpen,    (* upConn has not been closed                                 *)
  alarm,     (* the alarm's goroutine; "stuck" after it closed a.done      *)
  timer,     (* what is left of its timer                                  *)
  main,      (* where ProxyUDP itself is                                   *)
  quiet,     (* history: time since the last datagram was copied           *)
  longest    (* history: the longest such time                             *)

stream    == <<wr, span, client>>
downVars  == <<down, at, rd, len, body, downTimer, out>>
upVars    == <<up, upTimer, replies, pending, buffered>>
conns     == <<shut, upOpen>>
alarmVars == <<alarm, timer>>
history   == <<quiet, longest>>
vars == <<stream, downVars, upVars, conns, alarmVars, main, history>>

Offsets == 0..Start[MaxFrames + 1]
Bodies  == {<<>>} \union {<<n>> : n \in Frames \union {Garbage}}

Done == alarm = "stuck"

TypeOK ==
  /\ wr \in Offsets
  /\ span \in 0..MaxSpan
  /\ client \in {"open", "eof", "gone"}
  /\ buffered \in 0..SendBuffer
  /\ shut \in BOOLEAN
  /\ down \in {"length", "body", "write", "reset", "closed"}
  /\ at \in Offsets
  /\ rd \in at..wr
  /\ len \in 0..MaxLength
  /\ body \in Bodies \union {Garbage}
  /\ downTimer \in 0..ReadTimeout
  /\ out \in Seq(Frames \union {Garbage})
  /\ up \in {"read", "write", "reset", "closed"}
  /\ upTimer \in 0..ReadTimeout
  /\ replies \in 0..MaxReplies
  /\ pending \in 0..MaxReplies
  /\ upOpen \in BOOLEAN
  /\ alarm \in {"select", "stuck"}
  /\ timer \in 0..IdleTimeout
  /\ main \in {"select", "waitUp", "waitDown", "returned"}
  /\ quiet \in 0..IdleTimeout
  /\ longest \in 0..IdleTimeout

Init ==
  /\ wr = 0
  /\ span = 0
  /\ client = "open"
  /\ buffered = 0
  /\ shut = FALSE
  /\ down = "length"
  /\ at = 0
  /\ rd = 0
  /\ len = 0
  /\ body = Garbage
  /\ downTimer = ReadTimeout
  /\ out = <<>>
  /\ up = "read"
  /\ upTimer = ReadTimeout
  /\ replies = 0
  /\ pending = 0
  /\ upOpen = TRUE
  /\ alarm = "select"
  /\ timer = IdleTimeout
  /\ main = "select"
  /\ quiet = 0
  /\ longest = 0

-----------------------------------------------------------------------------
(* The goroutine that reads downConn                                       *)

(* What two bytes from offset p on say: the length of the frame that       *)
(* begins there, or else any number.                                       *)
Lengths(p) ==
  LET begun == {n \in Frames : Start[n] = p}
  IN  IF begun = {} THEN 0..MaxLength ELSE {Size(n) : n \in begun}

(* What l bytes from offset p on are: a datagram if they are the whole of  *)
(* its body.                                                               *)
Datagram(p, l) ==
  LET whole == {n \in Frames : p = Start[n] + 2 /\ l = Size(n)}
  IN  IF whole = {} THEN Garbage ELSE CHOOSE n \in whole : TRUE

(* Where the bytes that io.ReadFull is to read end. *)
ReadEnd == at + (IF down = "length" THEN 2 ELSE len)

Reading == down \in {"length", "body"}

(* Some of them have arrived. *)
DownReadsPart ==
  /\ Reading
  /\ rd < wr /\ wr < ReadEnd
  /\ rd' = wr
  /\ UNCHANGED <<stream, down, at, len, body, downTimer, out, upVars, conns, alarmVars, main, history>>

(* Mutant: the read of the body shares the deadline of the length.         *)
DownReadsLengthOneDeadline ==
  /\ down = "length"
  /\ ReadEnd <= wr
  /\ rd' = ReadEnd
  /\ at' = ReadEnd
  /\ \E l \in Lengths(at) :
       /\ len' = l
       /\ down' = IF l = 0 THEN "write" ELSE "body"
       /\ body' = IF l = 0 THEN <<>> ELSE body
  /\ UNCHANGED <<stream, downTimer, out, upVars, conns, alarmVars, main, history>>

(* The two bytes of the length are there.  The read of the body gets a     *)
(* deadline of its own; a length of 0 leaves nothing to read.              *)
DownReadsLength ==
  /\ down = "length"
  /\ ReadEnd <= wr
  /\ rd' = ReadEnd
  /\ at' = ReadEnd
  /\ \E l \in Lengths(at) :
       /\ len' = l
       /\ down' = IF l = 0 THEN "write" ELSE "body"
       /\ body' = IF l = 0 THEN <<>> ELSE body
  /\ downTimer' = ReadTimeout
  /\ UNCHANGED <<stream, out, upVars, conns, alarmVars, main, history>>

DownReadsBody ==
  /\ down = "body"
  /\ ReadEnd <= wr
  /\ rd' = ReadEnd
  /\ at' = ReadEnd
  /\ down' = "write"
  /\ body' = <<Datagram(at, len)>>
  /\ len' = 0
  /\ UNCHANGED <<stream, downTimer, out, upVars, conns, alarmVars, main, history>>

(* The deadline passes, also with bytes at hand.  What ReadUDPFromStream   *)
(* has read is forgotten, and the loop starts over with a length, unless   *)
(* the alarm is done.                                                      *)
DownTimesOut ==
  /\ Reading
  /\ downTimer = 0
  /\ down' = IF Done THEN "closed" ELSE "length"
  /\ at' = rd
  /\ len' = 0
  /\ downTimer' = ReadTimeout
  /\ UNCHANGED <<stream, rd, body, out, upVars, conns, alarmVars, main, history>>

(* Any other error, such as the end of the stream. *)
DownEnds ==
  /\ Reading
  /\ \/ client = "gone"
     \/ rd = wr /\ (client = "eof" \/ shut)
  /\ down' = "closed"
  /\ len' = 0
  /\ UNCHANGED <<stream, at, rd, body, downTimer, out, upVars, conns, alarmVars, main, history>>

(* WriteFull(upConn, buf[:n]); it calls Write only if there is a byte left *)
(* to write, so that an empty datagram is not sent.                        *)
DownWrites ==
  /\ down = "write"
  /\ upOpen \/ body = <<>>
  /\ out' = out \o body
  /\ body' = Garbage
  /\ down' = "reset"
  /\ quiet' = 0
  /\ UNCHANGED <<stream, at, rd, len, downTimer, upVars, conns, alarmVars, main, longest>>

DownWriteFails ==
  /\ down = "write"
  /\ body # <<>>
  /\ body' = Garbage
  /\ down' = "closed"
  /\ UNCHANGED <<stream, at, rd, len, downTimer, out, upVars, conns, alarmVars, main, history>>

(* a.Reset(): the alarm's goroutine takes the reset, or a.done is closed.  *)
(* Taking it, the goroutine stops the timer, which has not delivered, and  *)
(* starts it again.                                                        *)
ResetAlarm == timer' = IF Done THEN timer ELSE IdleTimeout

DownResets ==
  /\ down = "reset"
  /\ ResetAlarm
  /\ down' = "length"
  /\ downTimer' = ReadTimeout
  /\ UNCHANGED <<stream, at, rd, len, body, out, upVars, conns, alarm, main, history>>

-----------------------------------------------------------------------------
(* The goroutine that reads upConn                                         *)

(* Mutant: a read that timed out is taken for a datagram.                  *)
UpReadsUnchecked ==
  /\ up = "read"
  /\ upOpen
  /\ upTimer = 0
  /\ pending' = pending - 1
  /\ up' = "write"
  /\ UNCHANGED <<stream, downVars, upTimer, replies, buffered, conns, alarmVars, main, history>>

UpReads ==
  /\ up = "read"
  /\ upOpen
  /\ pending > 0
  /\ pending' = pending - 1
  /\ up' = "write"
  /\ UNCHANGED <<stream, downVars, upTimer, replies, buffered, conns, alarmVars, main, history>>

UpTimesOut ==
  /\ up = "read"
  /\ upOpen
  /\ pending = 0
  /\ upTimer = 0
  /\ up' = IF Done THEN "closed" ELSE "read"
  /\ upTimer' = ReadTimeout
  /\ UNCHANGED <<stream, downVars, replies, pending, buffered, conns, alarmVars, main, history>>

(* The read fails because upConn was closed, or because a datagram sent to *)
(* the upstream was refused.                                               *)
UpEnds ==
  /\ up = "read"
  /\ ~upOpen \/ out # <<>>
  /\ up' = "closed"
  /\ UNCHANGED <<stream, downVars, upTimer, replies, pending, buffered, conns, alarmVars, main, history>>

(* WriteFull(downConn, buf[:n]): the datagram with its length.  It has no  *)
(* deadline: while the send buffer of downConn is full, it blocks.         *)
UpWrites ==
  /\ up = "write"
  /\ client # "gone"
  /\ buffered < SendBuffer
  /\ buffered' = buffered + 1
  /\ up' = "reset"
  /\ quiet' = 0
  /\ UNCHANGED <<stream, downVars, upTimer, replies, pending, conns, alarmVars, main, longest>>

UpWriteFails ==
  /\ up = "write"
  /\ client = "gone"
  /\ up' = "closed"
  /\ UNCHANGED <<stream, downVars, upTimer, replies, pending, buffered, conns, alarmVars, main, history>>

(* Mutant: the datagrams of the upstream do not reset the alarm.           *)
UpSkipsReset ==
  /\ up = "reset"
  /\ up' = "read"
  /\ upTimer' = ReadTimeout
  /\ UNCHANGED <<stream, downVars, replies, pending, buffered, conns, alarmVars, main, history>>

UpResets ==
  /\ up = "reset"
  /\ ResetAlarm
  /\ up' = "read"
  /\ upTimer' = ReadTimeout
  /\ UNCHANGED <<stream, downVars, replies, pending, buffered, conns, alarm, main, history>>

-----------------------------------------------------------------------------
(* Mutant: the alarm starts its timer again instead of closing a.done.     *)
AlarmRestarts ==
  /\ alarm = "select"
  /\ timer = 0
  /\ timer' = IdleTimeout
  /\ UNCHANGED <<stream, downVars, upVars, conns, alarm, main, history>>

(* The alarm's goroutine receives from the timer: close(a.done).  Then     *)
(* stopTimer waits for a second value, which the timer never sends.        *)
AlarmFires ==
  /\ alarm = "select"
  /\ timer = 0
  /\ alarm' = "stuck"
  /\ UNCHANGED <<stream, downVars, upVars, conns, timer, main, history>>

(* ProxyUDP's select, and <-waitFor *)
MainDownClosed ==
  /\ main = "select"
  /\ down = "closed"
  /\ upOpen' = FALSE
  /\ main' = "waitUp"
  /\ UNCHANGED <<stream, downVars, upVars, shut, alarmVars, history>>

MainUpClosed ==
  /\ main = "select"
  /\ up = "closed"
  /\ shut' = TRUE
  /\ main' = "waitDown"
  /\ UNCHANGED <<stream, downVars, upVars, upOpen, alarmVars, history>>

MainReturns ==
  /\ \/ main = "waitUp" /\ up = "closed"
     \/ main = "waitDown" /\ down = "closed"
  /\ main' = "returned"
  /\ UNCHANGED <<stream, downVars, upVars, conns, alarmVars, history>>

-----------------------------------------------------------------------------
(* The environment                                                         *)

(* The client is in the middle of a frame. *)
Owing == \E n \in Frames : Start[n] < wr /\ wr < Start[n + 1]

(* Bytes of the frame that is next, or of the one it is in, arrive. *)
ClientSends ==
  /\ client = "open"
  /\ \E n \in Frames :
       /\ Start[n] <= wr /\ wr < Start[n + 1]
       /\ \E p \in (wr + 1)..Start[n + 1] :
            /\ SplitLengths \/ p # Start[n] + 1
            /\ wr' = p
            /\ span' = IF p = Start[n + 1] THEN 0 ELSE span
  /\ UNCHANGED <<client, downVars, upVars, conns, alarmVars, main, history>>

ClientCloses ==
  /\ client = "open"
  /\ client' = "eof"
  /\ span' = 0
  /\ UNCHANGED <<wr, downVars, upVars, conns, alarmVars, main, history>>

ClientLost ==
  /\ client # "gone"
  /\ client' = "gone"
  /\ span' = 0
  /\ UNCHANGED <<wr, downVars, upVars, conns, alarmVars, main, history>>

ClientReceives ==
  /\ buffered > 0
  /\ client # "gone"
  /\ buffered' = buffered - 1
  /\ UNCHANGED <<stream, downVars, up, upTimer, replies, pending, conns, alarmVars, main, history>>

UpstreamReplies ==
  /\ replies < MaxReplies
  /\ replies' = replies + 1
  /\ pending' = pending + 1
  /\ UNCHANGED <<stream, downVars, up, upTimer, buffered, conns, alarmVars, main, history>>

(* The up goroutine is in a write that nothing but the client can end.     *)
Blocked == up = "write" /\ client # "gone" /\ buffered = SendBuffer

(* What the code can do at this instant. *)
DownSteps == \/ DownReadsPart \/ DownReadsLength \/ DownReadsBody \/ DownTimesOut \/ DownEnds
             \/ DownWrites \/ DownWriteFails \/ DownResets
UpSteps   == UpReads \/ UpTimesOut \/ UpEnds \/ UpWrites \/ UpWriteFails \/ UpResets
MainSteps == MainDownClosed \/ MainUpClosed \/ MainReturns

CanStep ==
  \/ down \in {"write", "reset"}
  \/ up = "reset"
  \/ up = "write" /\ ~Blocked
  \/ Reading /\ (rd < wr \/ client # "open" \/ shut \/ downTimer = 0)
  \/ up = "read" /\ (pending > 0 \/ ~upOpen \/ upTimer = 0)
  \/ ~Done /\ timer = 0
  \/ main = "select" /\ "closed" \in {down, up}
  \/ main = "waitUp" /\ up = "closed"
  \/ main = "waitDown" /\ down = "closed"

AtMost(n, bound) == IF n <= bound THEN n ELSE bound
Less(n) == IF n > 0 THEN n - 1 ELSE 0

Tick ==
  /\ main # "returned"
  /\ ~CanStep
  /\ IF client = "open" /\ Owing THEN span < MaxSpan /\ span' = span + 1
                                 ELSE span' = 0
  /\ downTimer' = Less(downTimer)
  /\ upTimer' = Less(upTimer)
  /\ timer' = Less(timer)
  /\ quiet' = AtMost(quiet + 1, IdleTimeout)
  /\ longest' = IF quiet' > longest THEN quiet' ELSE longest
  /\ UNCHANGED <<wr, client, buffered, down, at, rd, len, body, out, up, replies, pending,
                 conns, alarm, main>>

Next ==
  \/ DownSteps \/ UpSteps \/ AlarmFires \/ MainSteps
  \/ ClientSends \/ ClientCloses \/ ClientLost \/ ClientReceives \/ UpstreamReplies
  \/ Tick

(* The goroutines are scheduled, time passes, and the client finishes what *)
(* it has begun to send.  It need not receive.                             *)
Fairness ==
  /\ WF_vars(DownSteps) /\ WF_vars(UpSteps) /\ WF_vars(AlarmFires) /\ WF_vars(MainSteps)
  /\ WF_vars(Owing /\ ClientSends)
  /\ WF_vars(Tick)

Spec == Init /\ [][Next]_vars /\ Fairness

-----------------------------------------------------------------------------
(* Properties *)

(* The datagrams of length 0: WriteFull sends none of them on. *)
Empty == {n \in Frames : Size(n) = 0}

(* s is the client's first k datagrams, but for those of length 0, in      *)
(* their order.                                                            *)
Delivered(s, k) ==
  /\ \A i \in DOMAIN s : s[i] \in (1..k) \ Empty
  /\ \A i, j \in DOMAIN s : i < j => s[i] < s[j]
  /\ \A n \in (1..k) \ Empty : \E i \in DOMAIN s : s[i] = n

(* What reaches the upstream is what the client sent, in order, without    *)
(* loss, duplicate or garbage, but for the datagrams of length 0: the      *)
(* reader never loses its place in the stream, as long as the two bytes of *)
(* a length arrive together and its body within ReadTimeout.               *)
UpstreamIntact == \E k \in 0..MaxFrames : Start[k + 1] <= wr /\ Delivered(out, k)

(* The alarm is done only after an IdleTimeout during which no datagram    *)
(* was copied in either direction: both goroutines keep it from firing,    *)
(* whichever of them the alarm's goroutine meets first.                    *)
IdleOnly == Done => longest = IdleTimeout

(* A session never outlives the traffic: ProxyUDP returns, so no goroutine *)
(* waits forever on a read, on a.Reset() or on the other one, unless a     *)
(* client that keeps its connection leaves the datagrams it is sent in     *)
(* there: the write to downConn has no deadline, and closing upConn does   *)
(* not end it.                                                             *)
SessionEnds == <>(main = "returned") \/ <>[]Blocked

(* The comment on UDPConn and docs/ARCHITECTURE.md: "UDP packets are       *)
(* length-prefixed over the same TCP-backed stream".  Here the stream may  *)
(* cut a frame anywhere, as a TCP stream may, and pause there for less     *)
(* than ReadTimeout: the upstream still receives only datagrams the client *)
(* sent.                                                                   *)
OnlyDatagramsSent == \A i \in DOMAIN out : out[i] # Garbage

=============================================================================
