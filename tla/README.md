# A TLA+ model of krelay

krelay forwards local TCP and UDP ports to addresses inside a Kubernetes
cluster. Its client creates a Job whose only pod runs `krelay-server`, opens one
port-forward connection to that pod, and carries every local connection over a
pair of streams of it; the server dials the destination and copies. This
directory models both programs, from the command line and the bytes of the
handshake to the goroutines that copy, checks them with TLC on small instances,
and proves their safety properties and one refinement with TLAPS for all instances.

All paths below are relative to the repository.

## The system

### Components

| Component | Source | State | Operations |
|---|---|---|---|
| Idle tracker and accept loop | `cmd/server/main.go` | listener; two atomics, `activeConns` and `lastActivity`; monitor's ticker | accept, `onConnect`, `onDisconnect`, `monitor`, exit |
| Connection handler of the server | `cmd/server/main.go` `handleConn` | its connection and the upstream connection | read header, dial, ack, dispatch to `ProxyTCP` or `ProxyUDP` |
| TCP proxying | `pkg/xnet/tcp.go` | two connections, two brokers, two channels | copy, close, `SetLinger`, `CloseRead` |
| UDP proxying | `pkg/xnet/udp.go`, `utils.go`, `pkg/alarm`, `pkg/xio` | two connections with read deadlines, two copiers, an alarm | framed read, write, reset the alarm, fire, close |
| UDP forwarding in the client | `cmd/client/forwarder.go`, `conntrack.go`, `udp.go` | the conntrack table; a channel and three goroutines per session; the finisher | read a datagram, open a session, hand over, write, reply, finish, delete |
| TCP forwarding and heartbeats | `cmd/client/forwarder.go`, `tcp.go`, `utils.go`, `main.go` | the multiplexed connection; four goroutines per session; the heartbeat goroutine | accept, `createStream`, header, ack, copies, error stream, heartbeat, exit |
| Dynamic remote address | `pkg/remoteaddr/dynamic.go` | pod name and address; a watch | receive an event, filter it, poll for a Running pod, give up |
| Life of the server Job | `pkg/kube/flags.go`, `utils.go`, `cmd/client/main.go` | the Job and its pod; a watch; the port-forward connection | create, wait, dial, run, remove; idle exit, TTL |
| Wire protocol | `pkg/xnet/header.go`, `ack.go`, `addr.go`, `proto.go` | none | marshal, read |
| Port parser | `pkg/ports` | none | parse `[local:]remote[@proto]` |
| SOCKS5 command | `cmd/client/command_proxy.go`, `utils.go` | one buffer per handshake | listen, negotiate, read the request, then as TCP forwarding |
| Command line, targets, service resolution | `cmd/client/main.go`, `utils.go`, `forwarder.go`, `template.go` | the targets, the forwarders and their listeners; one flag set for all lines of a file | parse, look up, listen |
| Logging, constants | `pkg/slog`, `pkg/constants` | none | |

### How they interact

The client's heartbeats (one short connection every 5 s) and its sessions are
connections to the server's accept loop; the idle tracker counts them, and the
end of the server's process is what lets the Job controller and
`ttlSecondsAfterFinished` collect the Job of a client that crashed. The client's
UDP session writes length-prefixed datagrams that `ProxyUDP` reads; its TCP
session is the peer "down" of `ProxyTCP`. Before that, each session writes a
header that `handleConn` reads, and waits for its ack. The loss of the multiplexed connection
ends the client's command, whose deferred `Close` removes the Job. A forwarder
asks the dynamic address at each new session. A command creates its Job only
after it has resolved its targets and listens.

### What is hard

Nothing of this is protected by one lock. The hard behaviours are: unlocked
atomics and clocks (idle tracker), unbuffered channels between goroutines with
different lifetimes (UDP forwarding, error streams), read deadlines that pass in
the middle of a frame (UDP proxying), writes without a deadline to a peer that does
not receive (everywhere), closing sockets that another goroutine uses (TCP
proxying), a handshake in which each side waits for what the other one says it
will send (connection handler, wire protocol), state that is shared between what
should be independent (the buffer of the SOCKS5 handshake, the flag set of a
targets file), events that lag behind lists (dynamic address), and partial failure
and crashes between the client and the cluster (the Job). `PROJECT.json` lists
the hazards at their lines with the properties that cover them, or why none does. Two
more are in the models without a property, as no document says what should happen:
`handleConn` leaves the upstream connection to its finalizer when it cannot write the ack
(`main.go:166`), and the SOCKS5 success reply is written before the server has dialled
(`command_proxy.go:99`), so that an application may be told of a connection that is then
refused.

## The modules

An `MC...` module gives the constants of the small instances of a specification.
Operators whose comment begins with "Mutant:" are wrong variants of
the definition that follows them; they are used by no specification, and serve to
show that each property can fail.

| Module | Models | Proofs |
|---|---|---|
| `IdleTracker` | `options.run`, `idleTracker` | `IdleTrackerProofs` |
| `UDPForwarder` | the UDP half of `portForwarder.run`, `connTrack`, `handleUDPConn` | `UDPForwarderProofs` |
| `UDPSessions` | what `UDPForwarder` promises its clients (abstract) | `UDPForwarderProofs` |
| `ProxyUDP` | `ProxyUDP`, `ReadUDPFromStream`, `Alarm`, `WriteFull` | `ProxyUDPProofs` |
| `ProxyTCP` | `ProxyTCP`, `tcpBroker` | `ServerConnProofs` |
| `Wire` | `Header`, `Acknowledgement`, `Addr` and their codecs | `WireProofs` |
| `BytesReader` (extends `Wire`) | `bytesReader` | `WireProofs` |
| `Socks5` (extends `BytesReader`) | `socks5Handshake` | `ServerConnProofs` |
| `ServerConn` (extends `ProxyTCP`, `Socks5`) | `handleConn`, and the client's handshake with it | `ServerConnProofs` |
| `StreamConn` | the TCP half of `portForwarder.run`, `handleTCPConn`, `createStream`, `sendHeartbeats` | `StreamConnProofs` |
| `DynamicAddr` | `dynamicAddr` | `DynamicAddrProofs` |
| `ServerJob` | `RunServerJob`, `ServerJob.Close`, `waitForServerJobPod`, `removeServerJob` | `CommandProofs` |
| `Ports` | `ports.Parser` | |
| `Command` (extends `ServerJob`, `Ports`) | `Options.Run`, `proxyOptions.Run`, `parseTargetsFile`, `addrGetterForObject`, `listen` | `CommandProofs` |

### IdleTracker

The three kinds of threads share `active` and `last`. Every atomic access is a
step, and `lastActivity.Store(time.Now().UnixNano())` is two: the clock is read
(`OnConnectNow`, `OnDisconnectNow`), then stored. `acc`, `conn[c]` and `mon` say
where the accept loop, each connection's goroutine and monitor are. The slots
`Conns` are reused, so their number bounds the connections open at once, not
their total. Time is explicit, in units of a second: `Tick` advances it unless a
piece of straight-line code would take longer than `Delay`, or a client that is
up would be without a completed `onConnect` for longer than `Heartbeat`. These
are the only assumptions on the environment, and the last one is more than the client's
code keeps: the run `stream_conn_heartbeat` shows heartbeats that end on a connection that
stays up. `SafeShutdown` says what the server does with the heartbeats it gets.
`served` and `ended` are history.

### UDPForwarder

`loop`, `pkt` and `ch` are the read loop; `track` is the conntrack table (`Get`,
`Set`, `Delete` are its methods, each atomic under its mutex); a session `<<c,
k>>` is the k-th of client c, with its `handler`, `writer` and `reader`. The
unbuffered channels are rendezvous: `LoopSend` joins `dataCh <- data` with the
writer's receive, `Finish` joins `finish <- key` with the finisher's.
`CONSTANT Faults` says which failures the environment may cause; among them "stall",
a `WriteFull` on a stream that stays blocked, and "error", an error stream that ends
without its data stream, after which the handler returns and its writer goes on. `Get` and
`ReadFrom` are one step: nothing but the arrival of datagrams can change what
`ReadFrom` returns. Both implementations of `addrGetter.Get` return a nil error,
so the `continue` after it (which would leave a channel without a receiver in the
table) cannot be reached.

`UDPSessions` is the abstract specification: each client has a current session, a
new one may be opened for a datagram that has arrived, and a datagram newer than
all that were passed on may be passed on over the current session. The mapping
takes `opened[c]` for the current session and `up` for what was passed on.
`ImplementsSessions` says more than `WrittenInOrder`: also *when* a datagram may
be written, namely never by the writer that an earlier session has left over. That is
true unless an error stream ends alone; its run and its theorem exclude "error".
`EveryDatagramWritten` is about the hand-over: the loop may find a session that is open, one
whose writer is busy, or one whose handler has returned and whose channel only the writer
that is left still receives from, and every datagram is written all the same, unless a
write stays blocked. After any other fault the loop may be blocked for good, which is
the finding of `udp_forwarder_blocked`.

### ProxyUDP

The client's stream is a stream of bytes, known by their offsets: frame n begins at
`Start[n]`, and `Size(n)` is what its two bytes of length say. Bytes arrive in pieces of
any size (`ClientSends`, up to `wr`), and `io.ReadFull` collects what a length or a body
needs (`at`, `rd`, `DownReadsPart`) under one deadline, which may pass with a part of them
read (`DownTimesOut`). The reader then starts over with a length from where it is: if that
is not the beginning of a frame, what it takes for a length is any number (`Lengths`), and
what it takes for a body is `Garbage` unless it is exactly that of a datagram
(`Datagram`). Datagrams of length 0 have no body, and `WriteFull` does not call `Write`
for them. `MaxSpan` is how long the client may take from the first byte of a frame to its
last, and `SplitLengths` says whether the two bytes of a length may come apart.

`UpWrites` has no deadline: `SendBuffer` datagrams fit into the connection of a client
that does not receive (`buffered`, `ClientReceives`), the next one blocks (`Blocked`), and
closing upConn does not change that. `SessionEnds` says that there is no other way for
a session to last.

Deadlines and the alarm are counted down by `Tick`, which is enabled only when no goroutine
can take a step: code takes no time compared to 5 s and 110 s. After the alarm has fired its
goroutine is stuck in `stopTimer` (the timer's channel was already received from); `Done` is
that state. The branch `upClosed` of `ProxyUDP` does not close `upConn`, as in the code.
Writes to the upstream do not block: they are sends of single datagrams.

### ProxyTCP

Each side, "down" (client) and "up" (destination), has a connection, a broker
that reads it, and a send buffer of `BufCap` chunks. The sockets behave as on
Linux: closing with `SO_LINGER` 0 or with unread data resets the connection and
drops its send buffer; `CloseRead` wakes a blocked read. `Closers` and `Resetters`
are the peers that may close and that may abort. `ResponseDelivered` has no
counterpart for what the client sent: the code gives it up, with `SetLinger(0)`
on upConn, when the client closes first.

### Wire, BytesReader, Socks5 and ServerConn

`Wire` has the header byte by byte, since its length field is the hazard: a byte
is a number below `Base` (256 in the code), so that with a small `Base` the largest
total length, `Base * Base - 1`, is within reach, and `PutUint16` wraps around as
`uint16(totalLen)` does. Only the request id, which is logged, is left blank.
`Socks5` reads every field of the handshake into the front of one buffer, as
`bytesReader` does (`ReadBytes`): what a field held is gone once the next one is read,
unless it was copied. `RequestsAssumption` says what a request is: the bytes of an
application that asks for `dst`, which may be cut off anywhere, so that there is
something the server's dial can be compared with.

`ServerConn` follows one connection. The client (`client`, `want`) makes a SOCKS5
request, forwards a port, or sends a heartbeat; what it has written and the server
has not read is `wire`. `handleConn` (`handler`, `hdr`, `failure`) reads the
header, dials, writes the ack and calls `ProxyTCP`, whose module's steps are those
of this one from then on (`Proxy(Next)`), over the same sockets: `conn["down"]` is
the connection `handleConn` has accepted and `conn["up"]` the one it has dialled.
After `WriteOK` the model forgets the destination, which no property needs any
more. `ProxyUDP` is a module of its own; here it has one step, its return. The
client may be lost at any byte of the handshake (`ClientLost`), and an application may not
take a reply of it (`ClientSocksFails`). An upstream
connection nobody refers to any more, which two of the returns of the code leave
behind, is closed by its finalizer (`Finalize`).

### StreamConn

One multiplexed connection (`connUp`), whose sandbox may be closed (`corrupt`).
A session has the handler, the two copies, and createStream's goroutine
(`errRead`), which hands its error over an unbuffered channel that the early
returns of `handleTCPConn` leave unread. A heartbeat's createStream has the same
goroutine, whose error `sendHeartbeats` does receive (`beatError`). A heartbeat may fail in
its createStream or in its write, also on a connection that stays up.

Either copy may block in a write (`FromRemoteBlocks`, `ToRemoteBlocks`): a local client
need not receive, nor does the server. A copy that is blocked does not notice that the
other side has ended the session. `toRemote` learns of a stream that is over only when it has something to
write; that is never sure to happen, so what ends a session for certain is the end of
`fromRemote`, or of the local connection. `localError` is closed by a reset of the local
connection or by a failed write to the stream, but not by the end of the local data.

### DynamicAddr

The cluster's pods have a phase, a deletion mark and an incarnation, which is
also their creation time and their address. Each change appends an event; the
watch delivers them in order and late. `Relevant` is the filter of the loop,
`Newest` the pod `updatePodIP` chooses from a fresh list.

### ServerJob

`client` is the place of the command in `RunServerJob`, its run and its cleanup;
`job`, `pod` and `events` are the cluster. `Faults`: the removal of the Job may
fail, Create may fail after it has created the Job, the client may be killed. A pod
starts or fails in the end; without that a client killed while the pod is pending
would leave a Job nothing collects, since it has no deadline. That the Job is finished with its only pod (`backoffLimit` 0) and expires
after that (`ttlSecondsAfterFinished`) is the configuration `buildServerJob` sets;
the rest of the controllers is external.

### Ports and Command

`Ports` translates the parser over tokens ("@", ":" and what stands between
them), and next to it says what an argument means, from its parts instead of its
text: `Meanings` is the set of all pairs of ports and protocols the argument may
stand for, given the ports an object declares. `ParseExact` compares the two.
`Arguments` are those that can be taken apart in one way only. Two containers of a pod
may give the same name to different ports; the parser then takes the last one, which
`ParseExact` allows for names only: a number with two protocols has to be refused.

`Command` runs from the arguments to the Job: the targets of the command line or
of a file (`ReadTargets`, with `ParseLine` as the loop's body and the variables
`ns` and `listenAddr` that all lines share), one object and its ports after the
other (`Resolve`), the listeners (`Listen`), then the steps of `ServerJob`
(`Job(Next)`). `ForwardersOf` is what the lines of a file give, each by itself.
The scanner may stop early without an error, within a line too, of which the loop then
sees the front (`ReadLines`, with the `cuts` of a line for what can remain of it). `ip`
or `host` without a name panics, in `validateFields` or in the loop. `Opens` is what
`listen()` says of a forwarder by itself: it fails for a protocol it does not know, as the
sctp port of an object, for an address that is taken (`Busy`), and for one that the system
refuses in any case, also with port 0 (`Refused`); `Listening` adds what the forwarders
take from each other.

## Runs

Runs that pass:

| Run | Checks | Shows |
|---|---|---|
| `idle_tracker` | `LastActivityFresh`, `SafeShutdown`, `IdleShutdownInTime` | with `Timeout > Heartbeat + 3 Delay` the server shuts down only when its client is gone and no connection is open, and not later than one ticker period after the timeout |
| `udp_forwarder` | `TrackExact`, `WrittenInOrder`, `ImplementsSessions` | under every fault of a session the conntrack table holds exactly the live sessions, each datagram is written at most once and in order, and every step is one of `UDPSessions` or a stutter |
| `udp_forwarder_live` | `EveryDatagramWritten`, `DeadSessionsForgotten`, `WrittenInOrder` | with a second datagram for an open session, busy and blocked writers, and sessions whose error stream ends alone: every datagram is written, in order, unless a write stays blocked or the connection is lost; sessions that end with the connection leave the table, although all handlers wait for one finisher |
| `proxy_udp` | `UpstreamIntact`, `IdleOnly`, `SessionEnds` | with whole lengths and frames that take less than the read timeout, datagrams arrive intact in whatever pieces, only idleness sets the alarm off, and every session ends unless its client leaves what it is sent |
| `server_conn` | `DialsRequested`, `SidesAgree`, `ClientAnswered`, `ConnsClosed`, `AllCopiesTerminate`, `ResponseDelivered` | the server dials what was asked for, up to the longest address a uint16 length describes; client and server agree on the outcome and never wait for each other; whatever the peers do, the end of one broker ends the other and no connection stays open; what the destination sent before it closed reaches the client |
| `dynamic_addr` | `NoMissedUpdate`, `StaleAddrReplaced` | the filters never drop the event that tells of the end of the pod in use, and the address is replaced while a pod runs, unless a poll gives up or the watch ends |
| `stream_conn` | `SessionsEnd`, `CorruptedConnClosed` | all goroutines of a session end once either side has ended or reset it, unless a copy stays blocked in a write; the heartbeats close a connection to a closed sandbox |
| `command` | `ParseExact`, `ForwardersExact`, `JobNeedsListener`, `ExitCleansUp`, `JobCollected` | the parser returns what an argument means, and refuses it if it is ambiguous, except for a name that several containers use; each line of a targets file gives the forwarders it would give by itself; no Job is created for a command that cannot forward, for the arguments, the protocol or the address; a command that returns leaves no Job unless the API server did not answer; if pods start, the Job goes away after every end of the client |

The first run of each module also checks its type invariant (`TypeOK`, `ConnTypeOK`,
`CommandTypeOK`). Deadlock is not checked: every
system here stops by design (the process exits, the session returns, the bounds
are reached), and what must not block is stated as a liveness property.

Runs that end in a violation, each a statement of the repository's documents
that the code does not meet (quoted in `PROJECT.json`, "findings"):

| Run | Property | What happens |
|---|---|---|
| `udp_forwarder_blocked` | `EachLocalConnGetsStream` | a refused session leaves the loop blocked in `dataCh <- data`, and with it all clients of the port |
| `proxy_udp_stall` | `OnlyDatagramsSent` | a deadline that passes after one byte of a length, with a pause shorter than the read timeout, makes the reader lose its place |
| `dynamic_addr_slow` | `AddressRecovers` | after a minute without a Running pod the address is never updated again |
| `stream_conn_heartbeat` | `HeartbeatsGoOn` | one timed-out CreateStream ends the heartbeats of a connection that stays up |

### Bounds

* `IdleTracker`: two connections (one that ends while another is registered),
  timeout 5 with heartbeat and delay 1, the smallest values with `TimingOK` and a
  ticker period below the timeout; the clock runs to 9, past the first shutdown
  that is possible (5) and the last one allowed for a server never used (8). The
  proofs lift these bounds for the safety properties.
* `UDPForwarder`: two clients (one that fails, one that suffers), two datagrams
  each (`Sends`), hence two sessions of the same client. `udp_forwarder` has all faults of
  a session but "error", and the socket's. `udp_forwarder_live` has "stall", "error" and the
  loss of the connection, with two datagrams of one client, for the hand-over to a session
  that is open, and one of the other, so that two sessions end at once. The
  proofs lift all bounds for the safety properties and the refinement.
* `ProxyUDP`: three datagrams, of two, no and one byte, so that a body may arrive in
  pieces; two replies and room for one, so that a write blocks; timeouts 2 and 4, so that
  one idle period spans several read timeouts; `MaxSpan` 1, below the read timeout. A
  number of two bytes is at most 2: what is read in the wrong place may be any of them.
* `ServerConn`: `Base` is 6 and the buffer has 16 bytes, the least that hold the
  codes of the protocol and an IPv6 address. Requests have each address type with
  the shortest and the longest addresses, commands and types that are not
  supported, and are cut off after every byte; targets have the longest address
  that fits and two that do not, one whose length wraps around to less than a
  header, one to the length of a shorter header. In `ProxyTCP` there are more
  chunks than a send buffer holds, so that a broker blocks.
* `DynamicAddr`: two names and three incarnations, so that a pod may return under
  the name in use, and up to five undelivered events, the whole life of a pod.
* `StreamConn`: one session; sessions interact only through the connection.
* `Command`: one command, one Job. Arguments combine every form of a local part, a
  remote part and a protocol, for objects with a port of two protocols, a port
  declared twice, ports without a name, and two ports with the same name. Files have
  all pairs of seven kinds of lines, and longer ones with an sctp port, some of whose
  lines may be cut. One local port is taken, and one address is refused.

### Fairness

Weak fairness of each goroutine: the Go scheduler runs every runnable goroutine.
Strong fairness of `Finish(s)`: several handlers wait to send on one channel, and
a Go channel serves its waiters in order. A peer, a local client or the cluster
owes nothing, and in particular need not receive, except what the specification's
`Fairness` names and the code relies on: the server answers a header within its connect
timeout and ends a session whose client has closed its stream (`UDPForwarder`,
`StreamConn`), the client finishes a frame it has begun (`ProxyUDP`), the watch delivers events and a List
succeeds from time to time (`DynamicAddr`), pods start or fail and the controllers
act (`ServerJob`), a dial ends with its timeout and an unreferenced connection is
collected, at the latest in the garbage collection the runtime forces every two
minutes (`ServerConn`). Actions that stand for a fault are never fair, and a write that may
block is not fair while it is blocked: `WriterWrites` with the fault "stall", `UpWrites`
with a full buffer, and in `StreamConn` the return of a copy from "write" to "copy", so that the
liveness properties name the blocked write as the exception. The copies of `StreamConn`
have strong fairness where they end: what a stream still holds when it is over comes to
an end, however often the copy blocks in between.

## Proofs

TLAPS checks every theorem for all values of the constants, from the assumptions
that the modules name: `ConstantsAssumption` (types and bounds), `BaseAssumption` and
`BufferAssumption` (a byte can hold the codes of the protocol, the SOCKS5 buffer an
address), `RequestsAssumption` (what a request is, below), `NumberAssumption` ("0"
is the number 0), `InputsAssumption` and `ObjectsAssumption` (the types of command
lines and of declared ports), `StartAssumption` (where the frames of a stream begin).
TLC evaluates them in the runs. Four theorems have a hypothesis about timing or
faults besides, which their runs satisfy.

The safety properties of all runs that pass are proved, as is the refinement:

| Theorem | States | Hypothesis |
|---|---|---|
| `UDPForwarderProofs!TypeCorrect`, `TrackIsExact`, `DatagramsInOrder` | `TypeOK`, `TrackExact`, `WrittenInOrder` | |
| `UDPForwarderProofs!ForwarderImplements` | `ImplementsSessions` | `"error" \notin Faults` |
| `IdleTrackerProofs!TypeCorrect`, `ActivityIsFresh` | `TypeOK`, `LastActivityFresh` | |
| `IdleTrackerProofs!ShutdownIsSafe` | `SafeShutdown` | `Timeout > Heartbeat + 3 Delay` |
| `IdleTrackerProofs!ShutdownInTime` | `IdleShutdownInTime` | `Timeout > 2 Delay` |
| `ProxyUDPProofs!TypeCorrect`, `AlarmMeansIdle` | `TypeOK`, `IdleOnly` | |
| `ProxyUDPProofs!UpstreamGetsDatagrams` | `UpstreamIntact` | `~SplitLengths`, `MaxSpan < ReadTimeout` |
| `DynamicAddrProofs!TypeCorrect`, `NoUpdateMissed` | `TypeOK`, `NoMissedUpdate` | |
| `ServerConnProofs!TypeCorrect`, `OutcomeAgreed` | `ConnTypeOK`, `SidesAgree` | |
| `ServerConnProofs!AllOfTheResponse` | `ResponseDelivered` | |
| `ServerConnProofs!DialsWhatWasAsked` | `DialsRequested` | |
| `CommandProofs!TypeCorrect`, `CommandCleansUp`, `JobsHaveListeners` | `CommandTypeOK`, `ExitCleansUp`, `JobNeedsListener` | |
| `CommandProofs!FileForwarders`, `ArgumentsParsed` | `ForwardersExact`, `ParseExact` | |
| `StreamConnProofs!TypeCorrect` | `TypeOK` | |

The hypotheses are the ones the code relies on: a server with a shorter timeout may
shut down between two heartbeats; a handler whose error stream has ended alone leaves a
writer that still writes; and the run `proxy_udp_stall` shows what happens if only
`~SplitLengths` is dropped. `ShutdownIsSafe` rests besides on the model's client, which
sends its heartbeats as long as it is up; `stream_conn_heartbeat` is the case in which the
code's does not. `JobCollected`, which is only model-checked, rests on pods that start.

### UDPForwarder

The inductive invariant `IInv` adds to the types `Opening` (a session is opened
by a datagram, so that there are no more sessions of a client than datagrams
read: needed for the types) and `TrackInv`: all sessions of a client but its last
are done, the last is in the table until the finisher deletes it, and when the
loop is about to open one the client has none. `TrackExact` alone is not
inductive because it does not say that the finisher holds the key of the *last*
session. `OrderInv` is inductive relative to `IInv`: `NextIsNewer` (what a writer
holds is newer than what its session has written), `SessionsInOrder` (a later
session has newer datagrams only) and `LoopHoldsNewest` (the loop's datagram is
newer than all of its client's, and goes to its last session). Most steps hand no
datagram to a writer; the lemmas `Quiet...` deal with them at once. The
refinement needs two facts more: no datagram is read before it arrives
(`ReadsArrived`), and a writer without its handler has dead streams
(`LeftOverIsDead`), so that what is written is written by the current session; the second
is where the hypothesis about "error" is needed.

### IdleTracker

`BaseInv` says that `activeConns` is the number of connections between the two
`Add`s (`Counting`), that no running piece of code is older than `Delay`
(`Clocks`), that `lastActivity` lags behind by at most `Delay` (`Fresh`), and that
the last `onConnect` of a client that is up is at most `Heartbeat` ago
(`Beating`). `Checking` follows monitor's check: if the server is in use although
monitor has seen `activeConns = 0`, the tick of that check came within `Heartbeat +
Delay` of the last `onConnect`; with the timestamp loaded, within `Heartbeat + 2
Delay` of it; so that the comparison, at most `Delay` after the tick, cannot reach
a timeout above `Heartbeat + 3 Delay`. `InUseStep` shows that a server that is not
in use never is again, which makes the non-atomic close safe.

`Watching`, for the opposite bound, follows monitor's ticks: while the server has no
connection, the next one comes before `lastActivity + Timeout` plus one interval. The
step that could break it is a check whose loaded timestamp is stale: then
`lastActivity` was stored during this check, hence at most `Delay` before its tick.

### ProxyUDP

`Holding` completes the types. `IdleInv`: unless a copier is between its copy and
its `Reset`, the time since the last datagram and what is left of the timer are
together at least `IdleTimeout`, so that the timer reaches 0 only after that time.
For `UpstreamIntact`, `Place` says that the reader knows its place in the stream: it reads
a length at the beginning of a frame and a body two bytes behind it, and has passed on the
datagrams before this frame. A deadline that passes with a part of a length or of a body
read would break it. `Whole` says that no length is there by half, so that the first cannot
happen; `BodyInTime` that the second cannot, since what is left of the deadline of a
body and the time its frame has taken so far add up to at least `ReadTimeout`. `StartFacts`
and `OneFrame` are the arithmetic of the frames.

### DynamicAddr

`NoMissedUpdate` is inductive together with the types. `ClusterStep` reduces what
the cluster does to one fact: it appends one event about the pod it changes, and one
that passes the filter if a running pod stops running. `ToldStays`: an event behind
others stays relevant as long as the pod's name is the same.

### Wire and ServerConn

`SidesAgree` speaks of the client and the handler, which are linked by the ack
only; `AgreeInv` says what the ack means while it is on its way (`Acking`), what
`handleConn` knows when it chooses it (`Dialling`), and that the client follows it.

`ResponseDelivered` is about the end of a session; `CopyInv` is about its course.
Unless the client has closed or a peer has aborted, the destination's broker is
either at work, and then both connections are open, and what it has read is with the
client, in the send buffer or in its hands (`Relaying`), or it has ended, and then
everything has been read and is in the send buffer or with the client, or unread
data of the client's has reset the connection (`Relayed`). `NotCopying` provides
the start: until `handleConn` calls `ProxyTCP`, nothing has happened to it.

`DialsRequested` follows from the codecs. `WireProofs` shows that the header is read
back as it was marshalled if its length fits (`HeaderRead`, from `MarshalShape` and
`Uint16RoundTrip`), and what a `ReadBytes` leaves in the buffer (`ReadAt`).
`HandshakeExact` takes a request apart, field by field, for any cut of it: it would
fail without the copy of the address, which the read of the port overwrites. `Handing`
then carries the header from the client to `handleConn`: what is on its way is a
prefix of it.

### Command

`CommandInv` adds to `ExitCleansUp` that there is no Job before `RunServerJob` creates
it and that it is not called without a listener that `Opens`.

`ForwardersExact` compares two computations over the lines of a file. The invariant
`FileInv` says that the forwarders so far, continued with those of the targets that
are left, lead to what the lines give, each by itself (`Ahead`). It holds after the
file was read because after each line the loop's targets are such a continuation
of nothing (`FileRead`). This is an induction over the lines; `Induction` derives
it from the well-foundedness of the natural numbers, for a set in place of a
predicate, and `LoopRuns` and `Upwards` show with it that the recursive functions of
`parseTargetsFile` and `ForwardersOf` exist.

`ParseExact` is about the arguments alone (`ParsedRight`). `TakenApart` shows that the
parser finds the parts an argument was written down with: the first "@" ends the text
before the protocol (`ProtocolCut`), which has one ":" if there is a local part
without one (`LocalCut`). `RemoteNumber` and `RemoteName` compare the ports the
object declares with the two maps the parser builds.

### StreamConn

Type correctness only: its other properties are liveness properties.

### What is only model-checked

The liveness properties (`DeadSessionsForgotten`, `EveryDatagramWritten`,
`SessionEnds`, `AllCopiesTerminate`, `ConnsClosed`, `ClientAnswered`,
`StaleAddrReplaced`, `SessionsEnd`, `CorruptedConnClosed`, `JobCollected`) rest on
fairness and `ENABLED`, which are out of the prover's reach.

## Not modelled

* The declaration of the flags, the help text, the version output, and the data
  that `buildServerJob`, `patchPod`, `createDialer` and `setKubernetesDefaults`
  produce: values for libraries and the API server, without state. That they may
  fail is in the model.
* The text form of addresses (`Addr.String`, `JoinHostPort`) and `net.ParseIP`.
* `ProxyUDP` inside `ServerConn`: its module stands alone, since the product of the
  two has too many states and they share nothing but the two connections.
* In `ProxyUDP` and `handleUDPConn`, the sends of single datagrams (to the upstream, of a reply
  to a local client): they are taken not to block. A stall of the whole multiplexed connection
  at once is modelled session by session: in `UDPForwarder` and `StreamConn` each write may
  block by itself.
* Logging, constants and request ids.
* The data race on `err` in `handleUDPConn`: only a log line depends on it.
* The goroutine the alarm leaks in `stopTimer` is in the model as the state
  "stuck", but nothing promises that it ends.
* An application that leaves the SOCKS5 handshake unfinished holds its goroutine
  and its connection for as long as it likes, as there is no deadline; the model
  takes the handshake of an application that has sent all it will send.

## Plan

Done: all modules above, the refinement of `UDPSessions`, and the proofs of all
safety properties the runs check.

Next, in this order:

1. An abstract specification of the frames of `ProxyUDP`, as `UDPSessions` is one
   of the client's side, and the proof that `ProxyUDP` implements it.
2. The safety part of the liveness properties of `ServerConn` and `StreamConn`:
   that a goroutine that waits is one whose partner is still to come.
