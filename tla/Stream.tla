-------------------------------- MODULE Stream --------------------------------
(****************************************************************************)
(* One stream of a connection (http2client/internal/stream): the record it  *)
(* keeps and what its methods make of it.  The module is constant.  The     *)
(* connection's share of each method, the writes, the connection window and *)
(* the answer to the command, is in Connection.tla.                         *)
(*                                                                          *)
(* A DATA frame of a request is known by the slice of the request body it   *)
(* carries, a header block by the request it describes.                     *)
(****************************************************************************)
EXTENDS Integers, Sequences, StreamState

CONSTANTS
  Cmds,            \* HTTP commands handed to the connection
  NoCmd,           \* the nil command of a stream the client did not ask for
  Paths,           \* values of :path
  NoRequest,       \* request headers of a stream that has none
  DefaultWindow,   \* 2<<15 - 1, initial flow-control window in both directions
  Threshold        \* 2<<13, a receive window below it is filled up again

ASSUME CommandsAssumption == NoCmd \notin Cmds
ASSUME WindowsAssumption  == /\ DefaultWindow \in Nat
                             /\ Threshold \in 0 .. DefaultWindow

Methods  == {"GET", "POST"}
Requests == [method : Methods, path : Paths]
Chunk    == [from : Nat, to : Nat, end : BOOLEAN]

Streams ==
  [state      : StreamStates,
   request    : Requests \cup {NoRequest},
   cmd        : Cmds \cup {NoCmd},
   err        : BOOLEAN,       \* RST_STREAM was sent or received
   sendWindow : Int,
   recvWindow : Int,
   pending    : Seq(Chunk)]    \* pendingDataFrameWrites

New(cmd, initialSendWindow) ==
  [state |-> IDLE, request |-> NoRequest, cmd |-> cmd, err |-> FALSE,
   sendWindow |-> initialSendWindow, recvWindow |-> DefaultWindow,
   pending |-> << >>]

--------------------------------------------------------------------------------
(* Sending                                                                  *)

(* Fault: the last frame does not get END_STREAM when it is full.            *)
ChunksWithoutEnd(body, chunkSize) ==
  [k \in 1 .. (body + chunkSize - 1) \div chunkSize |->
     [from |-> (k - 1) * chunkSize,
      to   |-> IF k * chunkSize < body THEN k * chunkSize ELSE body,
      end  |-> k * chunkSize > body]]

(* The DATA frames of a request body, at most chunkSize bytes each.         *)
Chunks(body, chunkSize) ==
  [k \in 1 .. (body + chunkSize - 1) \div chunkSize |->
     [from |-> (k - 1) * chunkSize,
      to   |-> IF k * chunkSize < body THEN k * chunkSize ELSE body,
      end  |-> k * chunkSize >= body]]

(* Bytes in the first n postponed DATA frames.                              *)
Bytes(s, n) == IF n = 0 THEN 0 ELSE s.pending[n].to - s.pending[1].from

(* Faults: only the window of the stream counts; one byte more is kept.     *)
StreamWindowIsEnough(s, n, connWindow) == n > 0 => s.sendWindow > Bytes(s, n)

WindowIsMoreThanEnough(s, n, connWindow) ==
  n > 0 => s.sendWindow > Bytes(s, n) + 1 /\ connWindow > Bytes(s, n) + 1

(* RemainingSendFlowControlWindowIsEnough for the first n frames in a row:  *)
(* the comparison in the code is strict, on both windows.                   *)
WindowIsEnough(s, n, connWindow) ==
  n > 0 => s.sendWindow > Bytes(s, n) /\ connWindow > Bytes(s, n)

(* ProcessPendingDataFrames sends the first n frames and stops at the first *)
(* one that does not fit.                                                   *)
Flushes(s, n, connWindow) ==
  /\ n \in 0 .. Len(s.pending)
  /\ WindowIsEnough(s, n, connWindow)
  /\ n < Len(s.pending) => ~WindowIsEnough(s, n + 1, connWindow)

(* sendDataFrame, n times.                                                  *)
Sent(s, n) ==
  [s EXCEPT
     !.state      = IF n = 0 THEN @
                    ELSE AfterOutgoing("DATA", s.pending[n].end, @),
     !.sendWindow = @ - Bytes(s, n),
     !.pending    = SubSeq(@, n + 1, Len(@))]

(* MustBeIn panics when a DATA frame leaves a stream that may not send any. *)
Panics(s, n) == n > 0 /\ s.state \notin MustBeInFor("DATA")

SentHeaders(s, request, endStream) ==
  [s EXCEPT !.request = request,
            !.state   = AfterOutgoing("HEADERS", endStream, @)]

CloseWithError(s) ==
  IF s.state = CLOSED THEN s
  ELSE [s EXCEPT !.err = TRUE, !.state = AfterOutgoing("RST_STREAM", FALSE, @)]

--------------------------------------------------------------------------------
(* Receiving                                                                *)

(* Fault: the window is never filled up.                                    *)
Shrink(window, size) == window - size

(* flowControlForIncomingDataFrame: fill the window up when it runs low.    *)
Replenish(window, size) ==
  IF window - size < Threshold THEN DefaultWindow ELSE window - size

ReceiveData(s, size, endStream) ==
  IF s.state \in AcceptedIn("DATA")
  THEN [s EXCEPT !.state      = AfterIncoming("DATA", endStream, @),
                 !.recvWindow = Replenish(@, size)]
  ELSE CloseWithError(s)

(* Without END_HEADERS the stream is refused, unless END_STREAM closed it.  *)
ReceiveHeaders(s, endStream, endHeaders) ==
  IF s.state \in AcceptedIn("HEADERS")
  THEN LET t == [s EXCEPT !.state = AfterIncoming("HEADERS", endStream, @)]
       IN  IF endHeaders THEN t ELSE CloseWithError(t)
  ELSE CloseWithError(s)

ReceiveRstStream(s) ==
  [s EXCEPT !.state = AfterIncoming("RST_STREAM", FALSE, @), !.err = TRUE]

ReceivePushPromise(s, request, endHeaders) ==
  IF s.state \in AcceptedIn("PUSH_PROMISE")
  THEN LET t == [s EXCEPT !.state = AfterIncoming("PUSH_PROMISE", FALSE, @)]
       IN  IF endHeaders THEN [t EXCEPT !.request = request]
           ELSE CloseWithError(t)
  ELSE CloseWithError(s)

ReceiveWindowUpdate(s, increment) == [s EXCEPT !.sendWindow = @ + increment]

(* finalizeCommand: what the stream's command is answered.                  *)
Outcome(s) == IF s.err THEN "error" ELSE "ok"
================================================================================
