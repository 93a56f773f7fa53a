------------------------------ MODULE StreamState ------------------------------
(****************************************************************************)
(* The life cycle of one HTTP/2 stream as the client tracks it              *)
(* (http2client/internal/streamstate).  The module is constant: it has the  *)
(* states, the states each frame type is legal in, and the state a frame    *)
(* leads to.  Connection.tla applies it to the streams of a connection.     *)
(****************************************************************************)

IDLE               == "idle"
RESERVED_LOCAL     == "reserved (local)"
RESERVED_REMOTE    == "reserved (remote)"
OPEN               == "open"
HALF_CLOSED_REMOTE == "half closed (remote)"
HALF_CLOSED_LOCAL  == "half closed (local)"
CLOSED             == "closed"

StreamStates == {IDLE, RESERVED_LOCAL, RESERVED_REMOTE, OPEN,
                 HALF_CLOSED_REMOTE, HALF_CLOSED_LOCAL, CLOSED}

(* Fault: END_STREAM from the server closes the stream at once.             *)
RemoteEndCloses(state) ==
  IF state \in {OPEN, HALF_CLOSED_LOCAL} THEN CLOSED ELSE state

(* Fault: END_STREAM from the client never closes the stream.               *)
LocalEndHalfCloses(state) ==
  IF state = OPEN THEN HALF_CLOSED_LOCAL ELSE state

(* END_STREAM from the server, and from the client.                         *)
RemoteEnd(state) ==
  CASE state = OPEN              -> HALF_CLOSED_REMOTE
    [] state = HALF_CLOSED_LOCAL -> CLOSED
    [] OTHER                     -> state

LocalEnd(state) ==
  CASE state = OPEN               -> HALF_CLOSED_LOCAL
    [] state = HALF_CLOSED_REMOTE -> CLOSED
    [] OTHER                      -> state

--------------------------------------------------------------------------------
(* HandleIncomingFrame: outside these states the frame is a STREAM_CLOSED    *)
(* error and leaves the state alone; otherwise it leads to AfterIncoming.    *)
AcceptedIn(type) ==
  CASE type = "DATA"         -> {OPEN, HALF_CLOSED_LOCAL}
    [] type = "HEADERS"      -> {IDLE, OPEN, HALF_CLOSED_LOCAL, RESERVED_REMOTE}
    [] type = "PUSH_PROMISE" -> {IDLE}
    [] OTHER                 -> StreamStates

AfterIncoming(type, endStream, state) ==
  LET begun == IF type = "HEADERS" /\ state = RESERVED_REMOTE
               THEN HALF_CLOSED_LOCAL ELSE state
  IN  CASE type \in {"DATA", "HEADERS"} ->
             IF endStream THEN RemoteEnd(begun) ELSE begun
        [] type = "RST_STREAM"          -> CLOSED
        [] type = "PUSH_PROMISE"        -> RESERVED_REMOTE
        [] OTHER                        -> state

(* HandleOutgoingFrame: MustBeIn panics outside MustBeInFor(type).           *)
MustBeInFor(type) ==
  CASE type = "DATA"    -> {OPEN, HALF_CLOSED_REMOTE}
    [] type = "HEADERS" -> {IDLE, OPEN, HALF_CLOSED_REMOTE}
    [] OTHER            -> StreamStates

AfterOutgoing(type, endStream, state) ==
  LET begun == IF type = "HEADERS" /\ state = IDLE THEN OPEN ELSE state
  IN  CASE type \in {"DATA", "HEADERS"} ->
             IF endStream THEN LocalEnd(begun) ELSE begun
        [] type = "RST_STREAM"          -> CLOSED
        [] OTHER                        -> state
================================================================================
