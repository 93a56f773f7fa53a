------------------------------ MODULE Connection ------------------------------
(****************************************************************************)
(* An HTTP/2 connection of the client (http2client/internal/connection),    *)
(* with its streams.  Its state belongs to the event loop: every action     *)
(* below is one command executed or one frame handled by that loop, except  *)
(* FlushNext, a round of the loop over the streams that a WINDOW_UPDATE of  *)
(* the connection runs through in the arbitrary order of a Go map.          *)
(*                                                                          *)
(* The environment hands over each command once and sends any frame that    *)
(* ServerSends names; with Conforming it respects the life cycle of the     *)
(* streams as an RFC 7540 server has to.                                    *)
(****************************************************************************)
EXTENDS Stream, FiniteSets

CONSTANTS
  NoStream,           \* no entry in the map of streams
  DefaultFrameSize,   \* 2<<13, serverFrameSize until SETTINGS change it
  BodySizes,          \* sizes of request bodies
  FrameSizes,         \* values of SETTINGS_MAX_FRAME_SIZE
  WindowSizes,        \* values of SETTINGS_INITIAL_WINDOW_SIZE
  Increments,         \* values of WINDOW_UPDATE
  DataSizes,          \* payload sizes of incoming DATA frames
  MaxStreamId,        \* bound: largest stream identifier in use
  MaxWindow,          \* bound: largest send window a WINDOW_UPDATE leads to
  ServerSends,        \* the kinds of frame the server sends
  Conforming          \* does the server respect the life cycle of streams?

StreamIds == 1 .. MaxStreamId
Odd(id)   == id % 2 = 1

FrameKinds == {"DATA", "HEADERS", "PARTIAL_HEADERS", "RST_STREAM",
               "PUSH_PROMISE", "PARTIAL_PUSH_PROMISE", "PRIORITY",
               "WINDOW_UPDATE", "CONNECTION_WINDOW_UPDATE",
               "SETTINGS", "GOAWAY"}

ASSUME StreamAssumption == NoStream \notin Streams
ASSUME NumbersAssumption ==
  /\ DefaultFrameSize \in Nat \ {0}
  /\ FrameSizes \subseteq Nat \ {0}
  /\ BodySizes \subseteq Nat \ {0}
  /\ WindowSizes \subseteq Nat
  /\ Increments \subseteq Nat
  /\ DataSizes \subseteq Nat
  /\ MaxStreamId \in Nat
  /\ MaxWindow \in Nat
ASSUME ServerAssumption == ServerSends \subseteq FrameKinds /\ Conforming \in BOOLEAN

VARIABLES
  streams,             \* StreamID -> stream
  promisedStreamCache, \* ids of the streams in the cache
  sendWindow,          \* remainingSendWindowSize
  recvWindow,          \* remainingReceiveWindowSize
  settings,            \* what the server's SETTINGS said
  fresh,               \* commands not yet handed over
  result,              \* the completions of each command
  loop,                \* "running", "shutdown" or "panicked"
  toFlush,             \* streams the round of FlushNext has still to visit
  wire,                \* history: what the two sides sent on each stream
  total                \* history: window granted and DATA sent in total

vars == <<streams, promisedStreamCache, sendWindow, recvWindow, settings,
          fresh, result, loop, toFlush, wire, total>>

Settings == [serverFrameSize   : Nat \ {0},
             initialSendWindow : Nat]

(* History of a stream: who opened it, with HEADERS or PUSH_PROMISE, the    *)
(* body to upload and how much of it was sent, the window the server        *)
(* granted, and the END_STREAM and RST_STREAM that went out or came in.     *)
(* late: its END_STREAM went out on a DATA frame that had waited for the    *)
(* window of the connection until after the complete response.              *)
Wire == [opener : {"none", "client", "server"}, body : Nat, out : Nat,
         credit : Nat, outEnd : BOOLEAN, outRst : BOOLEAN,
         inEnd : BOOLEAN, inRst : BOOLEAN, late : BOOLEAN]

Untouched == [opener |-> "none", body |-> 0, out |-> 0, credit |-> 0,
              outEnd |-> FALSE, outRst |-> FALSE,
              inEnd |-> FALSE, inRst |-> FALSE, late |-> FALSE]

Answers == {"ok", "error"}

TypeOK ==
  /\ streams \in [StreamIds -> Streams \cup {NoStream}]
  /\ promisedStreamCache \subseteq StreamIds
  /\ sendWindow \in Int
  /\ recvWindow \in Int
  /\ settings \in Settings
  /\ fresh \subseteq Cmds
  /\ result \in [Cmds -> Seq(Answers)]
  /\ loop \in {"running", "shutdown", "panicked"}
  /\ toFlush \subseteq StreamIds
  /\ wire \in [StreamIds -> Wire]
  /\ total \in [credit : Nat, sent : Nat]

Init ==
  /\ streams = [id \in StreamIds |-> NoStream]
  /\ promisedStreamCache = {}
  /\ sendWindow = DefaultWindow
  /\ recvWindow = DefaultWindow
  /\ settings = [serverFrameSize   |-> DefaultFrameSize,
                 initialSendWindow |-> DefaultWindow]
  /\ fresh = Cmds
  /\ result = [c \in Cmds |-> << >>]
  /\ loop = "running"
  /\ toFlush = {}
  /\ wire = [id \in StreamIds |-> Untouched]
  /\ total = [credit |-> DefaultWindow, sent |-> 0]

--------------------------------------------------------------------------------
(* Helpers                                                                  *)

Ready == loop = "running" /\ toFlush = {}

Known == {id \in StreamIds : streams[id] # NoStream}

GetOrCreateStream(id) ==
  IF id \in Known THEN streams[id] ELSE New(NoCmd, settings.initialSendWindow)

Recorded(id) ==
  IF id \in Known THEN wire[id]
  ELSE [Untouched EXCEPT !.credit = settings.initialSendWindow]

Opened(id) == Recorded(id).opener # "none"

(* Fault: the largest odd id itself is taken.                               *)
IsLargestStreamId(id) ==
  IF Known = {} THEN id = 1
  ELSE id \in Known /\ Odd(id) /\ \A k \in Known : Odd(k) => k <= id

(* newStream looks for the largest odd id in a slice that make() has        *)
(* already filled with one zero per known stream.                           *)
IsNextStreamId(id) ==
  LET inUse == {0} \cup {k \in Known : Odd(k)}
  IN  IF Known = {} THEN id = 1
      ELSE \E k \in inUse : id = k + 2 /\ \A j \in inUse : j <= k

(* findStreamCreatedWithPushPromise: any of these, in map order.            *)
PushPromises(path) ==
  {id \in promisedStreamCache : streams[id].request = [method |-> "GET", path |-> path]}

(* The command of stream s is completed n times.                            *)
Completed(s, n) ==
  IF s.cmd = NoCmd THEN result
  ELSE [result EXCEPT ![s.cmd] = @ \o [k \in 1 .. n |-> Outcome(s)]]

(* Faults: the end of the response is enough, a stream that was closed      *)
(* before counts again, only END_STREAM from the server counts.             *)
ResponseEnded(s, t) == s.state # CLOSED /\ t.state \in {CLOSED, HALF_CLOSED_REMOTE}
IsClosed(s, t)      == t.state = CLOSED
EndedByServer(s, t) == s.state = HALF_CLOSED_LOCAL /\ t.state = CLOSED

NewlyClosed(s, t) == s.state # CLOSED /\ t.state = CLOSED

(* Stream s, stored under id with history h, sends its first n postponed    *)
(* frames.  SendFrame and ReceiveFrame complete the command of a stream this*)
(* closes; the round of a connection WINDOW_UPDATE does not.                *)
SendPending(id, s, h, n, completes) ==
  IF Panics(s, n)
  THEN /\ loop' = "panicked"
       /\ UNCHANGED <<streams, sendWindow, result, wire, total>>
  ELSE /\ streams' = [streams EXCEPT ![id] = Sent(s, n)]
       /\ sendWindow' = sendWindow - Bytes(s, n)
       /\ result' = IF completes /\ NewlyClosed(s, Sent(s, n))
                    THEN Completed(s, 1) ELSE result
       /\ wire' = [wire EXCEPT ![id] =
            [h EXCEPT !.out    = @ + Bytes(s, n),
                      !.outEnd = @ \/ (n > 0 /\ s.pending[n].end),
                      !.late   = @ \/ (h.inEnd /\ ~completes /\ n > 0 /\ s.pending[n].end)]]
       /\ total' = [total EXCEPT !.sent = @ + Bytes(s, n)]
       /\ UNCHANGED loop

--------------------------------------------------------------------------------
(* Commands                                                                 *)

(* Faults: the stream stays in the cache, and executeGetCommand goes on to  *)
(* doRequest after the promise.                                             *)
ClaimAndKeep(c, path, id) ==
  /\ Ready
  /\ c \in fresh
  /\ id \in PushPromises(path)
  /\ streams[id].cmd = NoCmd
  /\ fresh' = fresh \ {c}
  /\ streams' = [streams EXCEPT ![id].cmd = c]
  /\ UNCHANGED <<promisedStreamCache, sendWindow, recvWindow, settings, result,
                 loop, toFlush, wire, total>>

ClaimAndGoOn(c, path, id) ==
  /\ Ready
  /\ c \in fresh
  /\ id \in PushPromises(path)
  /\ streams[id].cmd = NoCmd
  /\ promisedStreamCache' = promisedStreamCache \ {id}
  /\ streams' = [streams EXCEPT ![id].cmd = c]
  /\ UNCHANGED <<sendWindow, recvWindow, settings, fresh, result, loop,
                 toFlush, wire, total>>

(* executeGetCommand with a cached push promise: AssociateWithCommand.      *)
ClaimPushPromise(c, path, id) ==
  /\ Ready
  /\ c \in fresh
  /\ id \in PushPromises(path)
  /\ fresh' = fresh \ {c}
  /\ promisedStreamCache' = promisedStreamCache \ {id}
  /\ LET s == [streams[id] EXCEPT !.cmd = c]
     IN  IF streams[id].cmd = NoCmd
         THEN /\ streams' = [streams EXCEPT ![id] = s]
              /\ result' = IF s.state = CLOSED THEN Completed(s, 1) ELSE result
         ELSE /\ result' = [result EXCEPT ![c] = Append(@, "error")]
              /\ UNCHANGED streams
  /\ UNCHANGED <<sendWindow, recvWindow, settings, loop, toFlush, wire, total>>

(* doRequest: HEADERS, then as many DATA frames as the windows take; the    *)
(* rest is postponed.                                                       *)
DoRequest(c, request, body, id) ==
  LET s == [SentHeaders(New(c, settings.initialSendWindow), request, body = 0)
              EXCEPT !.pending = Chunks(body, settings.serverFrameSize)]
      h == [Untouched EXCEPT !.opener = "client",
                             !.body   = body,
                             !.credit = settings.initialSendWindow,
                             !.outEnd = body = 0]
  IN  /\ Ready
      /\ c \in fresh
      /\ request.method = "GET" => body = 0 /\ PushPromises(request.path) = {}
      /\ IsNextStreamId(id)
      /\ fresh' = fresh \ {c}
      /\ \E n \in 0 .. Len(s.pending) :
           /\ Flushes(s, n, sendWindow)
           /\ SendPending(id, s, h, n, TRUE)
      /\ UNCHANGED <<promisedStreamCache, recvWindow, settings, toFlush>>

--------------------------------------------------------------------------------
(* Frames for the connection (stream identifier 0).  PING, which only       *)
(* answers or completes a ping, the SETTINGS acknowledgement and the frames *)
(* that are a PROTOCOL_ERROR, which the code only logs, leave this state    *)
(* as it is.                                                                *)

HandleSettings(frameSize, window) ==
  /\ Ready
  /\ "SETTINGS" \in ServerSends
  /\ settings' = [serverFrameSize |-> frameSize, initialSendWindow |-> window]
  /\ UNCHANGED <<streams, promisedStreamCache, sendWindow, recvWindow, fresh,
                 result, loop, toFlush, wire, total>>

(* Fault: only one stream's postponed frames are looked at.                 *)
UpdateWindowAndFlushOne(increment) ==
  /\ Ready
  /\ "CONNECTION_WINDOW_UPDATE" \in ServerSends
  /\ sendWindow + increment <= MaxWindow
  /\ sendWindow' = sendWindow + increment
  /\ total' = [total EXCEPT !.credit = @ + increment]
  /\ toFlush' = {id \in Known : /\ streams[id].pending # << >>
                                /\ \A k \in Known : streams[k].pending # << >> => k >= id}
  /\ UNCHANGED <<streams, promisedStreamCache, recvWindow, settings, fresh,
                 result, loop, wire>>

HandleWindowUpdate(increment) ==
  /\ Ready
  /\ "CONNECTION_WINDOW_UPDATE" \in ServerSends
  /\ sendWindow + increment <= MaxWindow
  /\ sendWindow' = sendWindow + increment
  /\ total' = [total EXCEPT !.credit = @ + increment]
  /\ toFlush' = {id \in Known : streams[id].pending # << >>}
  /\ UNCHANGED <<streams, promisedStreamCache, recvWindow, settings, fresh,
                 result, loop, wire>>

(* Shutdown, for GOAWAY and for a disconnect of the user.                   *)
Shutdown ==
  /\ Ready
  /\ "GOAWAY" \in ServerSends
  /\ loop' = "shutdown"
  /\ UNCHANGED <<streams, promisedStreamCache, sendWindow, recvWindow, settings,
                 fresh, result, toFlush, wire, total>>

--------------------------------------------------------------------------------
(* Postponed DATA frames                                                    *)

(* handleWindowUpdateFrame's loop calls ProcessPendingDataFrames on the     *)
(* streams one after the other.                                             *)
FlushNext(id) ==
  /\ loop = "running"
  /\ id \in toFlush
  /\ toFlush' = toFlush \ {id}
  /\ \E n \in 0 .. Len(streams[id].pending) :
       /\ Flushes(streams[id], n, sendWindow)
       /\ SendPending(id, streams[id], wire[id], n, FALSE)
  /\ UNCHANGED <<promisedStreamCache, recvWindow, settings, fresh>>

HandleStreamWindowUpdate(id, increment) ==
  LET s == ReceiveWindowUpdate(GetOrCreateStream(id), increment)
      h == [Recorded(id) EXCEPT !.credit = @ + increment]
  IN  /\ Ready
      /\ "WINDOW_UPDATE" \in ServerSends
      /\ Conforming => Opened(id) /\ ~Recorded(id).inRst
      /\ s.sendWindow <= MaxWindow
      /\ \E n \in 0 .. Len(s.pending) :
           /\ Flushes(s, n, sendWindow)
           /\ SendPending(id, s, h, n, TRUE)
      /\ UNCHANGED <<promisedStreamCache, recvWindow, settings, fresh, toFlush>>

--------------------------------------------------------------------------------
(* Frames for a stream                                                      *)

(* The server may still send on the stream.                                 *)
MaySend(kind, id) ==
  /\ kind \in ServerSends
  /\ Conforming =>
       Opened(id) /\ ~Recorded(id).inEnd /\ ~Recorded(id).inRst

(* Fault: a stream that the end of the response closes leaves its command   *)
(* waiting.                                                                 *)
ReceivedSilently(id, t, times) ==
  /\ streams' = [streams EXCEPT ![id] = t]
  /\ result' = IF NewlyClosed(GetOrCreateStream(id), t) /\ t.err
               THEN Completed(t, times) ELSE result

(* The end of ReceiveFrame: stream id is now t, and its command is          *)
(* completed, times over, if that closed it.                                *)
Received(id, t, times) ==
  LET s == GetOrCreateStream(id)
  IN  /\ streams' = [streams EXCEPT ![id] = t]
      /\ result' = IF NewlyClosed(s, t) THEN Completed(t, times) ELSE result

(* The history after a frame on stream id, RST_STREAM if rst, that may have *)
(* made the client answer with RST_STREAM.                                  *)
RecordedAfter(id, t, endStream, rst) ==
  [Recorded(id) EXCEPT
     !.inEnd  = @ \/ endStream,
     !.inRst  = @ \/ rst,
     !.outRst = @ \/ (~rst /\ t.err /\ ~GetOrCreateStream(id).err)]

HandleData(id, size, endStream) ==
  LET t == ReceiveData(GetOrCreateStream(id), size, endStream)
  IN  /\ Ready
      /\ MaySend("DATA", id)
      /\ recvWindow' = Replenish(recvWindow, size)
      /\ Received(id, t, 1)
      /\ wire' = [wire EXCEPT ![id] = RecordedAfter(id, t, endStream, FALSE)]
      /\ UNCHANGED <<promisedStreamCache, sendWindow, settings, fresh, loop,
                     toFlush, total>>

(* A header block that is not complete closes the stream inside             *)
(* ReceiveFrame, so both SendFrame and ReceiveFrame find it newly closed.   *)
HandleHeaders(id, endStream, endHeaders) ==
  LET s == GetOrCreateStream(id)
      t == ReceiveHeaders(s, endStream, endHeaders)
      refused == ~endHeaders /\ s.state \in AcceptedIn("HEADERS") /\ t.err
  IN  /\ Ready
      /\ MaySend(IF endHeaders THEN "HEADERS" ELSE "PARTIAL_HEADERS", id)
      /\ Received(id, t, IF refused THEN 2 ELSE 1)
      /\ wire' = [wire EXCEPT ![id] = RecordedAfter(id, t, endStream, FALSE)]
      /\ UNCHANGED <<promisedStreamCache, sendWindow, recvWindow, settings,
                     fresh, loop, toFlush, total>>

(* handleIncomingRstStreamFrame: on an idle stream only logged, but the     *)
(* stream has been created.                                                 *)
HandleRstStream(id) ==
  LET s == GetOrCreateStream(id)
      t == IF s.state = IDLE THEN s ELSE ReceiveRstStream(s)
  IN  /\ Ready
      /\ "RST_STREAM" \in ServerSends
      /\ Conforming => Opened(id) /\ ~Recorded(id).inRst
      /\ Received(id, t, 1)
      /\ wire' = [wire EXCEPT ![id] = RecordedAfter(id, t, FALSE, TRUE)]
      /\ UNCHANGED <<promisedStreamCache, sendWindow, recvWindow, settings,
                     fresh, loop, toFlush, total>>

(* PRIORITY is not implemented, but creates the stream; so does any frame   *)
(* of the connection that comes with a stream identifier.                   *)
HandlePriority(id) ==
  /\ Ready
  /\ "PRIORITY" \in ServerSends
  /\ streams' = [streams EXCEPT ![id] = GetOrCreateStream(id)]
  /\ wire' = [wire EXCEPT ![id] = Recorded(id)]
  /\ UNCHANGED <<promisedStreamCache, sendWindow, recvWindow, settings, fresh,
                 result, loop, toFlush, total>>

(* handleIncomingPushPromiseFrame.  On an unknown or unsuitable associated  *)
(* stream the frame is only logged.  A promise to be refused because of its *)
(* method is closed and not cached; one refused for any other reason is     *)
(* closed and cached.                                                       *)
HandlePushPromise(id, promised, request, endHeaders) ==
  LET s == GetOrCreateStream(promised)
      received == ReceivePushPromise(s, request, endHeaders)
      t == IF request.method = "GET" THEN received ELSE CloseWithError(received)
      refused == ~endHeaders /\ s.state \in AcceptedIn("PUSH_PROMISE")
  IN  /\ Ready
      /\ MaySend(IF endHeaders THEN "PUSH_PROMISE" ELSE "PARTIAL_PUSH_PROMISE", id)
      /\ Conforming => ~Odd(promised) /\ ~Opened(promised) /\ Odd(id)
      /\ id \in Known
      /\ streams[id].state \in {OPEN, HALF_CLOSED_LOCAL}
      /\ Received(promised, t, IF refused THEN 2 ELSE 1)
      /\ promisedStreamCache' =
           IF request.method = "GET" THEN promisedStreamCache \cup {promised}
           ELSE promisedStreamCache
      /\ wire' = [wire EXCEPT ![promised] =
           [RecordedAfter(promised, t, FALSE, FALSE) EXCEPT
              !.opener = IF @ = "none" THEN "server" ELSE @]]
      /\ UNCHANGED <<sendWindow, recvWindow, settings, fresh, loop, toFlush,
                     total>>

--------------------------------------------------------------------------------
Execute ==
  \E c \in Cmds, path \in Paths, id \in StreamIds :
     \/ ClaimPushPromise(c, path, id)
     \/ \E method \in Methods, body \in BodySizes \cup {0} :
          DoRequest(c, [method |-> method, path |-> path], body, id)

HandleFrameForConnection ==
  \/ \E frameSize \in FrameSizes \cup {settings.serverFrameSize},
        window \in WindowSizes \cup {settings.initialSendWindow} :
       HandleSettings(frameSize, window)
  \/ \E increment \in Increments : HandleWindowUpdate(increment)
  \/ Shutdown

HandleFrameForStream ==
  \E id \in StreamIds, flag \in BOOLEAN :
     \/ \E size \in DataSizes : HandleData(id, size, flag)
     \/ \E endHeaders \in BOOLEAN : HandleHeaders(id, flag, endHeaders)
     \/ HandleRstStream(id)
     \/ HandlePriority(id)
     \/ \E increment \in Increments : HandleStreamWindowUpdate(id, increment)
     \/ \E promised \in StreamIds, request \in Requests :
          HandlePushPromise(id, promised, request, flag)

Next ==
  \/ Execute
  \/ HandleFrameForConnection
  \/ HandleFrameForStream
  \/ \E id \in toFlush : FlushNext(id)

Spec == Init /\ [][Next]_vars

--------------------------------------------------------------------------------
(* Properties                                                               *)

(* The stream that carries a command, 0 before it is handed over.           *)
Carrier(c) ==
  IF \E id \in Known : streams[id].cmd = c
  THEN CHOOSE id \in Known : streams[id].cmd = c ELSE 0

Promise == INSTANCE Command WITH
  Commands  <- Cmds,
  Carriers  <- StreamIds,
  NoCarrier <- 0,
  carrier   <- [c \in Cmds |-> Carrier(c)],
  answer    <- result

(* The connection keeps its promise to its commands: each gets one stream   *)
(* that it shares with no other command and never loses, and at most one    *)
(* answer, whichever of SendFrame, ReceiveFrame and executeGetCommand gives *)
(* it (newStream, AssociateWithCommand, finalizeCommand).                   *)
CommandsAreServed == Promise!Spec

(* The request body goes out complete and in order: what is still postponed *)
(* starts where the bytes sent so far end, has no gaps, ends with the body, *)
(* and END_STREAM is on the last frame and nowhere else, however the windows*)
(* of stream and connection open (sendDataFrame, ProcessPendingDataFrames). *)
BodyInOrder ==
  \A id \in Known :
    LET p == streams[id].pending
        w == wire[id]
    IN  /\ p = << >> => w.out = w.body /\ (w.outEnd <=> w.opener = "client")
        /\ p # << >> => /\ w.out = p[1].from
                        /\ p[Len(p)].to = w.body
                        /\ ~w.outEnd
        /\ \A k \in 1 .. Len(p) : /\ p[k].from < p[k].to
                                  /\ p[k].end <=> k = Len(p)
                                  /\ k < Len(p) => p[k].to = p[k + 1].from

(* Every byte of DATA is counted once, when it is sent: the send windows    *)
(* are what the client was granted less what it has sent, on each stream    *)
(* and in total, and it never sends more (sendDataFrame, DecreaseSendFlow-  *)
(* ControlWindow of stream and connection).  Granted is what the client     *)
(* knows of: the initial window when it opened the stream and the           *)
(* WINDOW_UPDATEs.  SETTINGS that change the initial window leave open      *)
(* streams as they are (handleSettingsFrame, TODO), so that the server may  *)
(* see another window: UploadWindowsAgree and ServerNotOverrun of Session.  *)
WindowsRespected ==
  /\ sendWindow = total.credit - total.sent
  /\ total.sent <= total.credit
  /\ \A id \in Known : /\ streams[id].sendWindow = wire[id].credit - wire[id].out
                       /\ wire[id].out <= wire[id].credit

(* When the event loop waits for its next event, no stream holds back a     *)
(* DATA frame that both windows have room for: neither a WINDOW_UPDATE of   *)
(* the stream nor one of the connection leaves an upload behind             *)
(* (handleWindowUpdateFrame, ProcessPendingDataFrames).                     *)
NothingStranded ==
  Ready => \A id \in Known :
             LET s == streams[id]
             IN  s.pending # << >> => ~WindowIsEnough(s, 1, sendWindow)

(* A command succeeds only if the server ended the response and the whole   *)
(* request, with END_STREAM, was sent before (finalizeCommand).             *)
SuccessIsComplete ==
  \A id \in Known :
    LET s == streams[id]
        w == wire[id]
    IN  s.cmd # NoCmd /\ (\E k \in DOMAIN result[s.cmd] : result[s.cmd][k] = "ok") =>
          /\ w.inEnd /\ ~w.outRst
          /\ w.opener = "client" => w.outEnd /\ w.out = w.body

(* No answer comes before the stream is closed, and none for a command that *)
(* was not handed over yet.                                                 *)
NoEarlyAnswer ==
  /\ \A c \in fresh : result[c] = << >>
  /\ \A id \in Known :
       LET s == streams[id]
       IN  s.cmd # NoCmd /\ result[s.cmd] # << >> => s.state = CLOSED

(* A closed stream has answered its command, with one exception: the last   *)
(* DATA frame of an upload that left after the complete response, and not   *)
(* with a frame for its own stream but in the round of a WINDOW_UPDATE of   *)
(* the connection (handleWindowUpdateFrame calls ProcessPendingDataFrames   *)
(* outside of SendFrame and ReceiveFrame).  An upload whose response ends   *)
(* last is answered, as is one that a WINDOW_UPDATE of its stream finishes. *)
UnansweredOnlyAfterUpload ==
  \A id \in Known :
    LET s == streams[id]
    IN  s.cmd # NoCmd /\ s.state = CLOSED /\ result[s.cmd] = << >> => wire[id].late

(* A closed stream has answered its command.                                *)
ClosedMeansAnswered ==
  \A id \in Known :
    LET s == streams[id]
    IN  s.cmd # NoCmd /\ s.state = CLOSED => result[s.cmd] # << >>

(* The state of a stream is what END_STREAM and RST_STREAM of the two sides *)
(* make it (RFC 7540, 5.1), whichever frames crossed.                       *)
StateMatchesWire ==
  \A id \in Known :
    LET s == streams[id]
        w == wire[id]
        localEnd == w.outEnd \/ w.opener = "server"
    IN  /\ s.state = IDLE => w.opener = "none"
        /\ s.state = CLOSED <=> (localEnd /\ w.inEnd) \/ w.inRst \/ w.outRst
        /\ s.state = HALF_CLOSED_REMOTE => w.inEnd /\ ~localEnd
        /\ s.state \in {HALF_CLOSED_LOCAL, RESERVED_REMOTE} => localEnd /\ ~w.inEnd
        /\ s.state = OPEN => w.opener = "client" /\ ~localEnd /\ ~w.inEnd

(* A stream in the cache is one the server promised and nobody claimed: a   *)
(* promise is used only once (executeGetCommand).                           *)
PromisesUsedOnce ==
  \A id \in promisedStreamCache :
    id \in Known /\ streams[id].cmd = NoCmd /\ wire[id].opener = "server"

(* MustBeIn never panics: no frame is sent on a stream in the wrong state.  *)
NoPanic == loop # "panicked"

(* The position of a state in the life of a stream.                         *)
Rank(state) ==
  CASE state = IDLE -> 0
    [] state \in {RESERVED_LOCAL, RESERVED_REMOTE, OPEN} -> 1
    [] state \in {HALF_CLOSED_LOCAL, HALF_CLOSED_REMOTE} -> 2
    [] state = CLOSED -> 3

(* What a step may make of stream s.                                        *)
Advances(s, t) ==
  /\ t # NoStream
  /\ t.state # s.state => Rank(s.state) < Rank(t.state)
  /\ s.cmd # NoCmd => t.cmd = s.cmd
  /\ s.err => t.err

AllAdvance == \A id \in Known : Advances(streams[id], streams'[id])

(* A stream never leaves the connection, goes back in its life, changes its *)
(* command or loses its error; in particular no new request takes over an   *)
(* identifier that is in use.                                               *)
StreamsOnlyAdvance == [][AllAdvance]_vars
================================================================================
