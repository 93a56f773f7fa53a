# A verification project for h2c

`h2c` is a command line HTTP/2 client. A background process keeps one connection to a server
open; each invocation of `h2c` on the command line sends one command to that process over a
unix socket and prints the result. This directory holds TLA+ specifications of the parts of
`h2c` in which orderings matter, TLC configurations that check them on small instances, and
proofs that TLAPS checks for every value of the constants.

## The system

| part | code (under `src/`) | state | operations |
|---|---|---|---|
| stream state machine | `http2client/internal/streamstate` | the RFC 7540 state of a stream | `HandleIncomingFrame`, `HandleOutgoingFrame`, `In`, `MustBeIn` |
| stream | `http2client/internal/stream` | state, request headers, response, error, command, send and receive window, postponed DATA frames | `SendFrame`, `ReceiveFrame`, `CloseWithError`, `ProcessPendingDataFrames`, `AssociateWithCommand` |
| connection | `http2client/internal/connection` | streams by id, cache of promised streams, both connection windows, settings, pending pings, shutdown flag | execute a command, handle a frame, shut down, read and write frames |
| event loop | `http2client/internal/eventloop/loop.go` | five unbuffered channels, `terminated`, `stopFrameReader` | the loop and the frame reader, two goroutines per connection |
| asynchronous commands | `internal/util/asyncTask.go`, `internal/eventloop/commands` | a callback of two one-place channels per command | complete, wait with a timeout |
| client API | `http2client/http2client.go` | the current loop, the task of a repeated ping, custom headers | connect, disconnect, get/put/post, ping, push-list, stream-info, set, unset |
| repeated task | `internal/util/repeatedTask.go` | a ticker and a channel | start, stop |
| frame codec | `http2client/frames` | HPACK contexts | encode and decode each frame type |
| daemon | `cli/daemon` | the listening socket | one goroutine per command, stop, SIGINT |
| command line client | `cli/cli.go`, `cli/shellrunner.go` | none | parse, start the daemon if need be, send one command |
| ipc | `cli/rpc` | the socket file | is listening, listen, dial, marshal |
| command line parser | `cli/cmdline` | the tables of commands and options | `Parse` |
| wiretap | `cli/wiretap` | one pair of connections per client | forward and dump frames |

How they interact: the daemon calls the client API in a new goroutine for every command, without
a lock. A call sends its command on a channel of the current event loop and waits on the
command's callback, with a timer in a third goroutine. The event loop owns the connection and
its streams: it takes one event at a time (a command, a frame from the frame reader, a shutdown)
and handles it to the end. The connection writes frames synchronously; the streams call back into
it for writing and for the connection window; a stream that closes completes its command.

What makes this hard, and what the parts have to guarantee:

* **Stream and connection.** Any frame may arrive between any two commands. DATA that does not
  fit the windows is postponed and sent when a WINDOW_UPDATE arrives, for the stream or for the
  connection, by when the response may have ended or the stream may have been reset. Commands are
  completed from three places. Correct means: bodies go out whole and in order, windows are
  respected, nothing that fits is held back, each command is answered exactly once and not before
  its stream is closed, success means a complete exchange, stream states agree with the frames
  exchanged, a promise serves one command, new streams get fresh odd ids.
* **Event loop and API.** Three kinds of goroutine share callbacks of bounded capacity, and the
  calls share an unsynchronised pointer to a loop that may end at any moment. Correct means: the
  loop never blocks on a callback nobody reads, a call always returns, no call uses a loop that
  is gone, no connection is lost. How far the code keeps to that, and where it does not, is what the runs of `Http2Client` say.
* **Connection and server.** Both sides count the same windows, each from the frames it has seen so
  far. Correct means: the counters differ by what is on its way and by nothing else, an upload never
  waits for window the server sees no reason to give, a download never stalls.
* **Repeated task, daemon, ipc.** Tasks that stop themselves while they are being replaced; a
  socket file that outlives a crash; two clients that start the daemon at once; stop while
  commands run.
* **Wiretap.** Two goroutines forward a connection and share a third that dumps. Correct means: each
  side reads what the other sent, the dump shows causes before effects, both sides end together.
* **Codec, parser.** Pure functions with numeric edges (31-bit ids, padding, payloads that are too short)
  and with options that take parameters.

`PROJECT.json` lists the hazards line by line, with the properties that cover them.

## The modules

| module | models | kind |
|---|---|---|
| `StreamState` | `streamstate.go` | constant: states, and the transitions as operators |
| `Stream` | `stream.go`, and the chunking of `connection.go` | constant: the record of a stream and what each method makes of it |
| `Connection` | `connection.go` with its streams | state machine, one action per command or frame |
| `Command` | | abstract: what a connection promises its commands; `Connection` implements it |
| `MCConnection` | | what the server sends in each run, symmetry |
| `Session` | the windows of `connection.go` and `stream.go` against those of a server | composition: `Connection`, a server, a queue in each direction |
| `MCSession` | | the frames of `Session` |
| `ConnectionProofs` | | inductive invariant and theorems of `Connection` with any server |
| `CommandProofs` | | what a connection does for its commands, with a server that respects the life cycle of streams; the refinement of `Command` |
| `SessionProofs` | | inductive invariant and theorems of `Session` |
| `MCConnectionProofs` | | the inductive invariant for TLC |
| `AsyncTask` | `asyncTask.go` | constant: the two channels of a callback |
| `Http2Client` | `http2client.go`, `loop.go` | state machine: calls, timers, event loops, frame readers |
| `MCHttp2Client` | | symmetry for instances |
| `Http2ClientProofs` | | inductive invariant and theorems of `Http2Client` |
| `RepeatedPing` | `PingRepeatedly` and `StopPingRepeatedly` of `http2client.go`, `repeatedTask.go` | state machine: calls, tickers, the goroutine of each task |
| `RepeatedPingProofs` | | inductive invariant and theorems of `RepeatedPing` |
| `FrameCodec` | `http2client/frames` | constant: decoders and encoders, octet by octet |
| `FrameCodecProofs` | | what is decoded is a frame, what is encoded is read as that frame |
| `Wiretap` | `cli/wiretap`, with `FrameCodec` | state machine: the set-up of a connection, two forwarding goroutines, the dump, two peers |
| `MCWiretap` | | the frames that the peers send |
| `WiretapProofs` | | inductive invariant and theorems of `Wiretap` |
| `Daemon` | `cli.go`, `shellrunner.go`, `ipc_default.go`, `daemon.go` | state machine: processes, socket file, listeners, `stop()` |
| `DaemonProofs` | | inductive invariant and theorems of `Daemon` |
| `CmdlineParser` | `cli/cmdline` | constant: the tables, `Parse`, and a reference; a state machine that enumerates command lines |

### Connection

The event loop handles an event to its end before it takes the next, so one action of
`Connection` is one event with everything the handler does: `DoRequest` is `doRequest` with
the new stream, HEADERS, and as many DATA frames as the windows admit; `HandleHeaders` includes
the RST_STREAM that an incomplete header block provokes, and the completion of the command.
There is one exception. A WINDOW_UPDATE of the connection visits the streams in the random order of
a Go map, and each visit changes the window for the next: `HandleWindowUpdate` puts the streams
with postponed frames into `toFlush`, `FlushNext` visits one of them, and no other event is taken
(`Ready`) until all were visited.

| variable | code |
|---|---|
| `streams` | `connection.streams`; a record per stream with `state`, `request`, `cmd`, `err`, both windows and `pending` = `pendingDataFrameWrites` |
| `promisedStreamCache` | the keys of the map of that name |
| `sendWindow`, `recvWindow` | `remainingSendWindowSize`, `remainingReceiveWindowSize` |
| `settings` | `serverFrameSize`, `initialSendWindowSizeForNewStreams` |
| `fresh`, `result` | commands not handed over yet; the calls of `CompleteSuccessfully` and `CompleteWithError` on each command |
| `loop` | `isShutdown`, or the panic of `MustBeIn` |
| `wire`, `total` | history only: what crossed the wire. No guard for the client's own behaviour reads them; a conforming server's next frame depends on them |

A DATA frame is the slice of the body it carries (`from`, `to`, END_STREAM), so "in order and
complete" is a statement about numbers. GET and POST stand for the three methods: PUT is handled as
POST. Header lists are reduced to the method and the path, which is what the search for a push
promise compares. The cache holds ids and `streams` the objects; the two differ in the code only when
a new stream replaces a cached one under the same even id (`newStream` picks an even id when PRIORITY on one created the first stream).

The server sends any frame of `ServerSends`. With `Conforming` it respects the life cycle of
streams: frames only on streams that were opened, nothing but WINDOW_UPDATE, PRIORITY and RST_STREAM
after END_STREAM, promises on fresh even ids. Without `Conforming` any frame may come at any time.
It is never required to send anything, so these are safety specifications.

`Command` says what all this is for: every command gets a stream of its own, keeps it, is never dropped and is
answered at most once. `Connection` implements it (`CommandsAreServed`): `Carrier` maps a command to its stream, the
other two variables map to themselves. Being answered at least once is not part of it: that needs a server that
answers, and is `RequestsAnswered` of `Session`. An incomplete header block completes a command twice, so the
refinement is checked with servers that do not send one for the stream of a command (see the runs).

Left out because they leave this state alone: PING and its acknowledgement, the acknowledgement of
SETTINGS, monitoring commands, and frames that are connection errors, which the code only logs.

### Session

Each step of the client is an action of `Connection` joined with the frames it reads and writes; `up` and `down` are
the two directions of the TLS connection, which loses and reorders nothing. Consecutive DATA frames of one step are one
entry. The server is the counterpart the code is written for, not code of the repository: it announces its initial window once
(requests may be faster), keeps a window per stream and one for the connection, takes every DATA frame off them (with padding),
gives back what it has received in portions of at least `Quantum`, and adjusts the windows of existing streams when its
SETTINGS are acknowledged (RFC 7540, 6.9.2). `QuantumAssumption` says when it has to give window back: before less than a frame and
one byte is left. Two histories name what makes the two sides disagree: `early`, the streams opened before the SETTINGS were
handled, and `padding`.

**Fairness.** The event loop and the frame reader get through what arrives, TCP delivers, and the server goes on with its
SETTINGS, its WINDOW_UPDATEs and its responses (weak fairness). No command has to be handed over.

### Http2Client

A call is at one of the places of `pc`; `client` is `h2c.loop`; each event loop has a `status`
and a `reader`; `task` holds the channels of each callback and `timer` the timer goroutine. `isConnected`, its seven
callers and the copy of it in `Connect` read `h2c.loop` without a lock, first to compare it with nil and again for each field: `read` is
what a call reads next, each read is a step (`CheckLoop`, `CheckTerminated`, `ReadHost`, `ReadPort`, `Send`), the tables
`IfConnected`, `IfNotConnected`, `AfterHost` and `AfterPort` say where it goes from there, and `DereferenceNil` is the same read when `h2c.loop` is nil by then.
`Get`, `Put` and `Post` complete their URL first, connect if they find no connection, and compare the URL with the connection; which host the URL
names, and whether it names one, is left open.

An event is up to three kinds of step: taking it from a channel (`TakeCommand`, `TakeShutdown`,
`TakeFrame`, `TakeAnswer`), the writes of its handler, during which the loop is in status `writing` until `Written`, and the completions it has to
send (`SendCompletion`), each of which blocks while the channel is full. The check of `IsShutdown` is part of the last step of the event.
What `Connection` says in detail is here a choice: a frame completes one of the commands in flight,
or none, or ends the connection, and the handler writes or does not. `Completions` is how often a
frame may complete its command: twice is what HEADERS without END_HEADERS do (`HandleHeaders` in `Connection`).
`rivals` is history: who else was dialing, or was disconnecting, when a loop was stored.

The plain variables that goroutines share (`h2c.loop`, `terminated`, `stopFrameReader`,
`isShutdown`) are read and written without synchronisation, which Go leaves undefined. The model takes every
interleaving of single reads and writes of `h2c.loop`, each immediately visible; the flags of a loop are written in the same step as the end of
its event. Delayed visibility is not modelled.

**Fairness.** Goroutines are scheduled, so a step of a call, a timer and a pending completion each have
weak fairness. Sends on the loop's unbuffered channels have strong fairness: `select` chooses
uniformly among the channels that are ready, so a sender that is ready again and again is taken.
Nothing is assumed of the server, the frame reader, a dial or a write: `tls.Dial` is called without a timeout, `conn.Write` without a deadline, and the
server need not send or read anything. So `Written`, `DialSucceeds` and `DialFails` have no fairness, `EventsEnd` speaks of a loop that is not in a
write, and `CallsReturn` names the calls that a dial or a write keeps for ever.

### RepeatedPing

`pingTask` is `h2c.pingTask`; each call of `PingRepeatedly` names the task it starts. The steps of a call are the single
reads and writes of that variable: `old` holds what `PingRepeatedly` has read while it starts the new task, and a failed ping
stops and clears whatever task the variable names by then. `tick` is the one-place channel of Go's ticker, which `Stop` does not drain;
`done` is the closed channel; closing it again, or stopping nil, ends the process (`crashed`). One ping is a step that succeeds or fails
(`PingEnds`), or blocks for ever (`PingBlocks`): `PingOnce` sends its command before its timeout starts, and the loop it sends to may have returned or
may be blocked in a write. How a ping crosses the connection is in `Http2Client`. The first ping of a call may block too; the call then stays where it is, as calls need not move.

**Fairness.** The goroutine of each task is scheduled (weak fairness); a ping ends or blocks, whichever it likes. No call has to be made, or to go on.

### FrameCodec and Wiretap

`FrameCodec` reads and writes frames as sequences of octets, field by field as the code does, for all nine types. A decoder yields a frame,
`Error`, or `Panic` when it reads beyond its payload. HPACK is external: a header block is one octet per field. What the codec loses is
visible in it: padding and priority are not written again, the exclusive bit of PRIORITY is never read (`& 0x80 == 1`), debug data of GOAWAY
is dropped, and RST_STREAM, PRIORITY and GOAWAY are written without a frame header. When TLC runs it, error codes and settings stay
below 2^31, the largest integer of TLC; the proofs have all 32 bits.

`Wiretap` is one connection: `phase` is the place in `handleConnection`, `fwd` that of `forwardFrames` in each direction, which holds a
`header`, then a `frame`. `DumpFrame` is the hand-over on the unbuffered channel to the one dumping goroutine, which prints before it receives
again. `tapped` is the wiretap's side of each connection, `peer` the other; `arriving` and `leaving` are octets on the network. The peers send
frames laid out as RFC 7540 has it (`IsFrame`), each with what it says, and read what arrives one frame at a time. `SamplesSay` relates the two:
what the decoders make of the octets is what the sample says. The samples of `MCWiretap` are written by hand, octets and meaning, and TLC evaluates
`SamplesSay` for them: a decoder that reads a field at the wrong place would be refused there.

`WriteFrame` may take as long as the receiver neither reads nor closes (`MayBlock`): `conn.Write` has no deadline.

**Fairness.** The forwarding goroutines are scheduled, the dumping one prints what it receives, and the dial ends, because this dialer has a timeout (weak
fairness). A write that may block need not end, the TLS handshake and the preface may take the client for ever, and no peer has to
send, read or close. `BothSidesEnd` and `EverythingForwarded` say what holds if the writes return (`WritesReturn`).

### Daemon

Every invocation of `h2c` is a process. `pc` is the place of its main goroutine: a client looks for the
socket file (`IsListening`), starts a background process if there is none (`ForkDaemon`, then up to `Attempts`
rounds of `ForkPid` and `PidEnds`), dials and waits for the end of the stream; `start` binds, listens, installs
its signal handler and accepts. `conn` holds the connection of each client to a background process, and `stopper`
the goroutines that execute `stop()`, which the code runs in a handler or in the signal goroutine: `Unlink`,
`Close`, `Exit` are its three effects, between which anything may happen. `file` says whose socket the file is, `ending` what ended a background
process: `stop()` (or the end of `Run` that follows from it), or another cause.

A background process has four other ends, none of which removes the file: an unhandled signal (`Kill`), a panic in any of its goroutines or the
`os.Exit(-1)` of the connection's `Write` (`Dies`), and an error of `Accept` (`AcceptFails`), which may come at any time, with the listener open, and
after which `stop(sock)` is unreachable code.

External, and modelled from how this code uses it: the socket file appears at `bind`, before the socket
accepts; closing a listener removes the file at its path, whoever's it is, at every `Close`, and then closes the socket, which is what the releases of Go do
that `src/README.md` names (1.5 and 1.6); exiting closes sockets only.
So two `stop()` of one process, for two clients or for a client and SIGINT, may remove the file of a process that was started between them, and the
next `start` then finds no file: `OneDaemonListens` fails if its exception (`StoppedTwice`) is left out.
Process ids are given in a fixed order (`NextProcess`), which only names processes.

The commands a background process executes are the calls of `Http2Client`, some of which never return; the handler of a request may therefore stay
for ever. `stop` and `pid` touch no connection and are answered at once.
The check of `h2c pid` after the automatic start is a client like any other, so as long as no socket file
appears it starts a background process and another `h2c pid`; `Spares` bounds that chain as the system would.

**Fairness.** Processes and goroutines that have begun are scheduled (weak fairness), `Accept` of a closed listener fails. The handler of a request has no
fairness, and neither have the errors, panics and signals that end a process. The user need not run a command, send a signal or remove a file.

### CmdlineParser

An argument is a token. The regular expressions of `config.go` are sets of tokens, because the parser only
asks whether a parameter matches. `Options` keeps the order of the Go slice, on which both `findCommand` and
`parseOptions` depend. `ParseOption` is one round of the loop of `parseOptions`. The action `Type` only
enumerates command lines, so that the properties, which compare `Parse` with the reading from left to right that
the usage texts describe, are checked for each of them.

## The runs

| run | question |
|---|---|
| `conn_upload` | Do two uploads stay whole, in order and within what the client knows to be granted while SETTINGS change frame size and initial window, and is nothing held back that fits? Do streams only ever advance, each with its command? |
| `conn_reset` | When responses, resets, window updates and shutdown cross two uploads: does the connection implement `Command`, is success complete, no answer early, do states agree with the wire, and in which one way does a closed stream stay unanswered? |
| `conn_push` | Do GETs and push promises that race match one to one (`Command` again), is a promise used once, and is a command that claims a finished promise answered? |
| `conn_anyserver` | Does the invariant of the proofs hold in every reachable state with a server that sends anything? (Also the only run in which every kind of frame occurs.) |
| `session` | Do the windows of the two sides agree, is the server never overrun, does every upload arrive, is every request, GET or POST, answered, with SETTINGS that race requests and with padding? |
| `client_calls` | With a request, a ping and a disconnect at once, a server that may vanish or not read, and commands that may be completed twice: does each event end, does whoever blocks a loop get out of its way, and which calls do not return? |
| `client_loops` | A request and a connect that may both dial, a monitoring call, a disconnect, two event loops, every read of `h2c.loop` a step: what can make a call dereference nil, and what can lose a connection? |
| `ping` | Two calls that repeat a ping and two that stop it, with pings that fail or block: is stopping complete, what does a crash take, how often does a stopped task ping, does it end? |
| `wiretap` | Frames of all types, well-formed, padded, unknown and truncated, while either side may close or not read: does the receiver read what was sent, is the dump in order, do both sides end, and in which ways is a frame lost? |
| `daemon` | A `start`, a `stop`, a request that may start processes itself, SIGINT, fatal signals, panics and errors of `Accept`: does one process listen at a time, does stop ever leave a socket file behind, is it complete when it is reported, which commands do not end? |
| `cmdline` | For every line of up to five of 17 tokens: does taking options out in the order of the table read what is written from left to right, may an option precede its command? |
| `conn_panic` | (violation) After RST_STREAM, the DATA frames a stream has postponed are still sent on the next WINDOW_UPDATE, and `MustBeIn` panics, which its message says cannot be ("This is a bug"). |

Where the code falls short of a property and nothing in the repository promises otherwise, the property names the exception
and holds up to it:

| exception | property |
|---|---|
| The response is complete and the last DATA frame of the upload leaves after it, in the round of a WINDOW_UPDATE of the connection: the stream closes but `finalizeCommand` is not called, and the user sees a timeout although there is a response. An upload whose response ends last, or that a WINDOW_UPDATE of its own stream finishes, is answered. | `late` in `UnansweredOnlyAfterUpload`, and in `RequestsAnswered` (`ClosedInSilence`) |
| A stream opened before the server's SETTINGS keeps its window (a TODO of `handleSettingsFrame`): the client may overrun a server that announced a smaller one. `WindowsRespected`, which has no server, speaks only of what the client knows to be granted. | `Drift` in `UploadWindowsAgree`, `ServerNotOverrun` |
| Padding of DATA frames is not counted and never given back; enough of it stalls every download. | `padding` in `DownloadWindowsAgree`, `RequestsAnswered` |
| A command sent to a loop that has just returned, or that is blocked in a write, blocks as long: the timer starts after the send. | `NobodyReceives` in `CallsReturn` |
| `tls.Dial` has no timeout: a call may dial for ever. | the second disjunct of `CallsReturn` |
| The second completion of a command whose call has timed out blocks the event loop for ever. | `Sticks` |
| A disconnect between a check and a use of `h2c.loop` ends the process. | `OnlyDisconnectCrashes` |
| Of two connections made at once one is lost, and so is one made while a disconnect is on its way to clear `h2c.loop`. | `rivals` in `LostOnlyToRivals` |
| A failed ping that meets `ping --stop`, another failing ping or a replacement stops nil or a closed channel. | `CrashNeedsFailure` |
| A repeated ping that blocks in its send keeps the goroutine of its task for ever. | `"blocked"` in `StoppedTaskEnds` |
| After RST_STREAM, PRIORITY or GOAWAY, written without a header, the receiver is out of step, and may read more frames than were written. | `InStep` in `ForwardedIntact`, `DumpInOrder` |
| A truncated frame panics its decoder and ends the wiretap. | `crashed` in `EverythingForwarded`, `BothSidesEnd` |
| A write of the wiretap to a peer that neither reads nor closes blocks its goroutine, and with it the other one's end. | `WritesReturn` in `BothSidesEnd`, `EverythingForwarded` |
| A direction that ends closes both connections: frames of the other direction that have arrived but are not read yet are lost. | `ClosedByOther` in `EverythingForwarded` |
| Every `Close` of a listener removes the socket file: a second `stop()` of a process may remove that of a newer one. | `StoppedTwice` in `OneDaemonListens` |
| The handler of a request may never return, nor then its client. | `InHandler` in `CommandsReturn` |
| A wiretap connection whose set-up fails is left open. | `BothSidesEnd` starts at `phase = "forward"` |

Each exception was seen to be needed: without it TLC finds the behaviour. Other things the models show: a refused
or reset promise stays in the cache and answers the next GET for its path with its error; `newStream` starts from a
slice of zeros, so when the only known stream is even (PRIORITY on an even id) the client opens stream 2; an option
before the command whose name several commands use (`-i`, `-c`, `-d`, `--include`) is read as the first one of the table;
a fatal signal, a panic, `os.Exit(-1)` or an error of `Accept` leaves the socket file, and every command fails until the user removes it.

**Bounds.** Two commands are enough for one to take the other's window, promise, stream id or answer; stream ids go
up to 3 for two requests, 4 where promises need even ids. Windows are scaled down: with a default window of 3, frames of 2 and bodies of 5,
one frame fits, the next does not, and the last is short; a body of 1 with frames of 1 (after SETTINGS) ends on a
full frame; an initial window of 0 postpones everything. `MaxWindow` bounds what WINDOW_UPDATEs grant; past it
windows only get larger than all bodies. Receive windows of 3 with a threshold of 2 take two bytes until they are refilled. The callbacks have
their real capacity, one. `client_calls` has one event loop, and one call of each kind that waits for a loop in a different way: what a call waits for
is one loop, and loops share nothing but `h2c.loop`. `client_loops` has two loops and no liveness: a request and a `Connect` may both dial, or one replaces
the connection that the disconnect or the server has ended, while a monitoring call is between its check and its send. `session` has a default window of 5 with frames of 2, announced windows of 3 and 6 on either side of it,
bodies of 4 that do not fit the smaller one at once, and padding of 2, which with its threshold of 3 eats up the window in two frames.
`ping` has two calls of each kind: one to replace and one to stop what the other has just started. `wiretap` has two frames from
the client, so that the second meets whatever the first has left behind, and one from the server, of 13 samples in all.
`daemon` has three spare processes, enough for an automatic start whose `h2c pid` starts one of its own; together with
the user's `start` that is two more background processes than there should be, and `stop` with SIGINT makes two
`stop()` of one process, with a newer process between them. `Attempts` is 2 instead of 3: both outcomes of a round occur. In `cmdline` five tokens are a command, two
options with a parameter each, or an option twice; the tokens include names that two options share. Symmetry is used in the runs of `Connection`, whose commands and paths are interchangeable, and in `client_loops`, whose loops are; the runs with liveness have none. Deadlock is not an error in any specification: a connection whose
commands are all handed over and whose server has nothing more to send rests, and so does a process
whose calls have all returned, a machine on which every command has ended, and a command line of full length.

**Mutants.** Each property of a passing run comes with a fault of the code that breaks it: the operators commented as "Fault" in
the modules, which no action uses.

## What is proved

`ConnectionProofs` proves, for all commands, paths, window and frame sizes, stream ids and for every
server, conforming or not:

* `TypeCorrect`: `Spec => []TypeOK`;
* `BodiesInOrder`: `Spec => []BodyInOrder`;
* `WindowsAreRespected`: `Spec => []WindowsRespected`;
* `NothingIsStranded`: `Spec => []NothingStranded`.

All four follow from `Invariance`, `Spec => []IInv`. None of them is inductive. The body of an upload
is in order only if what the history says was sent ends where the first postponed frame begins, and the
window of a stream is respected only together with that; `Sound` says both of one stream. Sending a
run of n frames needs that the frames are ordered pairwise, not only neighbour by neighbour:
`InOrder` carries that consequence along, as deriving it needs an induction. `NothingStranded` speaks of the
moments between events only; inside a round over the streams `IInv` says that every stream which is not in
`toFlush` is blocked, which is kept because sending only shrinks the connection window.

The lemmas: `CeilingDivision` and `Multiples` are the arithmetic of chunking, `ChunksInOrder` shows that
cutting a body loses nothing, `SentInOrder` that sending a prefix keeps a stream sound and never
exceeds a window, the lemmas called `...Keeps` that receiving a frame leaves an upload alone.
`QuietStep`, `ReceivedStep` and `SendPendingStep` do the work common to several actions; each action has
one `...Step` lemma, and `NextIInv` puts them together. The assumptions are those of the modules: sizes
are natural numbers, frame sizes and bodies positive, `NoCmd` and `NoStream` are no command and no stream.

`CommandProofs` proves, for all commands, paths, sizes and stream ids and an `OrderlyServer`:

* `StatesMatchTheWire`: `Spec => []StateMatchesWire`;
* `NoAnswerIsEarly`: `Spec => []NoEarlyAnswer`;
* `SuccessesAreComplete`: `Spec => []SuccessIsComplete`;
* `UnansweredOnlyThen`: `Spec => []UnansweredOnlyAfterUpload`;
* `ClosedAreAnswered`, without request bodies: `Spec => []ClosedMeansAnswered`;
* `PromisesAreUsedOnce`: `Spec => []PromisesUsedOnce`;
* `StreamsAdvance`: `Spec => StreamsOnlyAdvance`;
* `ConnectionImplementsCommand`, if the server sends no incomplete header blocks: `Spec => CommandsAreServed`.

An orderly server is `Conforming` and sends no PRIORITY. PRIORITY on an unused id creates a stream, and when that is the only one and
its id is even, `newStream` gives the request id 2, which may be that of the stream in use. The hypothesis
of the refinement is the other known exception, an incomplete header block, which is answered twice; that of `ClosedAreAnswered` is what the
first row of the table of exceptions says. `conn_upload`, `conn_reset` and `conn_push` meet the hypotheses of what they check.

The invariant is `IInv /\ CInv`. `StateFits` derives the state of a stream from its history (who opened it, who ended it, who reset it);
`AnswersFit` ties the answers of its command to both. That an answer is given once needs that a command has one stream, that one not handed over
has none, and that nobody has claimed what is in the cache. Every step either leaves streams and commands alone
(`Quiet`) or takes one stream to a successor (`Moves`): the `...Progress` lemmas show for each action which it is, once, and the invariant,
`StreamsAdvance` and the step simulation of `Command` all follow from that.

`SessionProofs` proves, for any number of streams and commands and all sizes of windows, bodies, frames, portions and padding:

* `UploadWindowsStayInStep`: `SessionSpec => []UploadWindowsAgree`;
* `DownloadWindowsStayInStep`: `SessionSpec => []DownloadWindowsAgree`;
* `ServerIsNotOverrun`: `SessionSpec => []ServerNotOverrun`.

They follow from `SessionInvariance`, `SessionSpec => []SInv`. Only `DownloadWindowsAgree` is part of it as it stands. `UploadWindowsAgree` says
nothing of a stream whose HEADERS are still on their way, and would not be inductive: `Granted` is the window that the server sees or will see,
which depends on whether the HEADERS are before the acknowledgement of SETTINGS in the queue or behind it. So `SettingsFit` follows the one SETTINGS frame and its
acknowledgement through the two queues, `OpeningFits` keeps HEADERS before everything else on their stream, and before the acknowledgement exactly
when the stream is `early`, and `RequestsFit` keeps a stream that the server does not know out of every other frame. `ResponsesFit` is what lets the client
accept every frame of a response. That the server is not overrun follows from the agreement and from `IInv`: the client's own windows
never go below zero, so what the server has left is at least what is on its way.

The windows differ by sums over queues. `SumOf` is a recursive function of partial sums; its lemmas (`SumConcat`, `SumNatural`, and with
them `QueueJoined`, `QueueShortened`) are proved by induction in the form of `EveryNatural`, for a set instead of a predicate, from the well-foundedness of `<`.
Lemmas for the three kinds of steps (`UploadStep`, `HandledFrame`, `BooksKept` with `ServerSent`, `ReceiptKept`) do what all steps of the kind share. The
assumptions are those of `Connection` and `ResponseAssumption`; that the server gives window back in time is needed for liveness only. TLC found `SInv` true in the states of the run `session` before it was proved.

`Http2ClientProofs` proves, for any number of calls and event loops:

* `ClientTypeCorrect`: `Spec => []TypeOK`;
* `BlockedLoopsAreFreed`: `Spec => []BlockedLoopIsFreed`;
* `CrashesNeedDisconnect`: `Spec => []OnlyDisconnectCrashes`;
* `LossesNeedRivals`: `Spec => []LostOnlyToRivals`.

The first three follow from `ClientInvariance`, `Spec => []HInv`. Whether a loop blocks on a callback depends on what its timer and its caller have done:
`TasksFit` says that until the first completion of a command nobody but the timer has written to its callback, so that there is room or somebody who
reads; `OneOwner` that one loop owes this completion, once, and `SendsFit` that what follows it in a loop's hands is a second completion, which `BlockedLoopIsFreed`
excepts. `ClientFits` says who relies on `h2c.loop` (a call between two of its reads, or about to send) and that it is nil under such a call only
after a `Disconnect` has gone through. That connections are lost to rivals only needs `LostFits` besides: whoever may still overwrite or clear `h2c.loop`
while it names a connection that is up (`Threatens`) was under way when that connection was stored, because every call that checks later finds it.

`DaemonProofs` proves, for any number of processes and attempts and with or without signals:

* `DaemonTypeCorrect`: `Spec => []TypeOK`;
* `OneDaemon`: `Spec => []OneDaemonListens`;
* `StopRemovesItsFile`: `Spec => []StopLeavesNoFile`;
* `StopIsComplete`: `Spec => []StoppedMeansGone`.

They follow from `DaemonInvariance`, `Spec => []DInv`. That one process listens is not inductive: it needs that the
file is that of the listener (`FileAgrees`), as long as no process was stopped twice (`SomeTwice`), because the second `Unlink` may remove the file of another;
that the first one removes its own, and that none is left by stop, needs that a process that serves and no longer listens has a `stop()` past its first step (`StoppersAgree`,
`ClosersAgree`), and `ConnectionsAgree` that the client of a `stop()` is still waiting, so that its process is the one to stop. Each action
has one lemma with one step per conjunct. The assumptions: the kinds of processes are disjoint, at least one attempt.

`RepeatedPingProofs` proves, for any number of calls and tasks:

* `PingTypeCorrect`: `Spec => []TypeOK`;
* `OnlyOneLatePing`: `Spec => []OneLatePing`;
* `OrderlyCallsDoNotCrash`: `Spec => []CrashNeedsFailure`;
* `StoppingIsComplete`: `Spec => []StopMeansStopped`.

They follow from `PingInvariance`, `Spec => []PInv`. A task is unknown to everybody but its own call until `Assign`
(`TasksAgree`), so nobody can stop it before; whatever ticks is the task of `h2c.pingTask` or that of a call under way
(`TickersAgree`). A failed ping may change `h2c.pingTask` in the middle of a call that replaces it, which would lose the new
task; `FailuresAgree` says that the call is then `Doomed`: it is about to close a channel that is closed, and never returns. Each action
has one lemma with one step per conjunct. The assumption: the calls of the two kinds are disjoint and `NoTask` is none of them.

`FrameCodecProofs` proves, for every table of header fields and all numbers and lengths that the fields can hold:

* `DecodesToFrames`: of any header and payload, each decoder returns an error, panics or returns one of `Frames`;
* `RoundTrip`: whatever `Encode` may return for one of `Frames`, in any order of its settings, a receiver reads the same frame in it (HEADERS without
  priority) and stops at its last octet; of the three types without a header only that they are octets.

`Says(e, f)` is what a receiver does: read nine octets, take as many more as the header says, decode them. `HeaderIsWritten` reduces it, once for all types, to what
the decoder of the type finds in the payload. Below it are the numbers of 16, 24, 31 and 32 bits (`Numbers2` to `Numbers4`: each octet
is a quotient and a remainder), the flags (`FlagsRead`), the header block (`BlockEncoded`: the encoder may choose another octet for a field
than the one it was decoded from) and the settings (`SettingsEncoded`: the last entry of a setting is its only one). The assumption,
`TableAssumption`, says that a header table maps octets to fields.

`WiretapProofs` proves, for any samples of both directions, any number of frames and any authorities:

* `WiretapTypeCorrect`: `Spec => []TypeOK`, which includes that frames are sent, dumped and written in this order;
* `FramesAreForwardedIntact`: `Spec => []ForwardedIntact`, if `SamplesSay`;
* `TheDumpIsInOrder`: `Spec => []DumpInOrder`, if `SamplesSay`.

They follow from `WiretapInvariance`, `Spec => []WInv`. What a receiver reads depends on octets, so the invariant says where frames begin and end in them:
`Laid(q, pieces, k, n)` holds when `q` consists of pieces k + 1 to n. What is on its way to the wiretap is the frames sent and not
yet taken, together with a header just read (`ArrivingFits`); the frame in hand is the next of them (`FrameFits`); what is on its way to a receiver is
encodings of the frames written and not yet read (`Reading`). A reader takes the first piece (`LaidFirst`), a writer adds a last one (`LaidLast`),
and between them stand `PayloadTaken`, `FrameRead` and the two theorems about the codec. A receiver that takes the octets of a frame without a header for those of
a frame is `OutOfStep`: nothing is said of what it reads after that. Nor is anything said of what arrives when a direction has crashed or ended, since part of a frame may be gone
by then. That the dump is in order is a chain of counts: the server has read at most what was written to it, that is at most what was dumped, and
`CausesFit` compares each cause with what it had read.
The assumptions: `SamplesAssumption` (a sample is one frame, its length field is right), `AuthoritiesAssumption` (the header compression can write an
`:authority` with the other value) and that of the codec; TLC evaluates all of them. `SamplesSay` is a hypothesis of the theorems that
speak of what a sample says, and `MCWiretap` states it as an assumption of its samples. TLC found `WInv` true in the states of the run `wiretap` before it was proved.

Only model-checked: that the decoders read what RFC 7540 means, which the samples of `wiretap` check field by field
(but for the three types without a header, of which only the type is compared); the parser (`ReadsLeftToRight`,
`OptionMayComeFirst`), which reads a line and the tables by folds and recursion, so that what it computes for every line would need an induction over the line and depends
on the tables as much as on the algorithm; and liveness under fairness (`UploadsFinish`, `RequestsAnswered`,
`EventsEnd`, `CallsReturn`, `StoppedTaskEnds`, `BothSidesEnd`, `EverythingForwarded`, `CommandsReturn`), which is out of reach of the prover and stays with TLC.

## What is not modelled, and the plan

Not modelled: TLS, HPACK (vendored; a header block is one octet per field), the base64 JSON marshalling, help texts, the coloured
output of frames (`dumper.go`), the named pipes of the Windows build, the Java integration tests. Of the modelled parts: header
lists beyond method, path and authority, and with them the custom headers of `h2c set` and `unset`, which goroutines share without a lock; the frame
filters of `--dump`, which see a nil frame when decoding fails; the table of pending pings by payload; monitoring commands, which only read;
several wiretap connections at once, which share the dumping goroutine and nothing else; 32-bit chunk arithmetic, whose overflow takes a
body near 4 GiB. Goroutines see each other's writes at once; delayed visibility is not modelled.

Left to prove: `ReadsLeftToRight` of the parser for every line, by `EveryNatural` over the length of the line, once its reading of options is
a recursive function.
