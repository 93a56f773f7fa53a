----------------------------- MODULE CommandProofs -----------------------------
(****************************************************************************)
(* Proofs about what a connection does for its commands, for any number of  *)
(* commands and streams and any frames of a server that respects the life   *)
(* cycle of streams: the states of the streams, the answers to the commands,*)
(* and that Connection implements Command.                                  *)
(****************************************************************************)
EXTENDS ConnectionProofs

--------------------------------------------------------------------------------
(* The inductive invariant                                                  *)

(* The server respects the life cycle of streams and sends no PRIORITY,     *)
(* which creates streams: newStream gives the identifier 2 to a request if  *)
(* it is the only one in use.                                               *)
OrderlyServer == Conforming /\ "PRIORITY" \notin ServerSends

LocalEnded(w) == w.outEnd \/ w.opener = "server"
WasReset(w)   == w.inRst \/ w.outRst

(* The state of stream s is what its history w makes of it; s is in error   *)
(* if, and only if, one side has reset it.                                  *)
StateFits(s, w) ==
  /\ w.opener # "none"
  /\ s.state \in {RESERVED_REMOTE, OPEN, HALF_CLOSED_REMOTE, HALF_CLOSED_LOCAL, CLOSED}
  /\ s.err <=> WasReset(w)
  /\ s.state = CLOSED <=> (LocalEnded(w) /\ w.inEnd) \/ WasReset(w)
  /\ s.state = HALF_CLOSED_REMOTE => w.inEnd /\ ~LocalEnded(w)
  /\ s.state \in {HALF_CLOSED_LOCAL, RESERVED_REMOTE} => LocalEnded(w) /\ ~w.inEnd
  /\ s.state = RESERVED_REMOTE => w.opener = "server"
  /\ s.state = OPEN => w.opener = "client" /\ ~LocalEnded(w) /\ ~w.inEnd

(* The answers a to the command of stream s fit its state and history.      *)
AnswersFit(s, w, a) ==
  /\ a # << >> => s.state = CLOSED
  /\ s.state = CLOSED /\ a = << >> => w.late /\ w.body > 0
  /\ (\E k \in DOMAIN a : a[k] = "ok") =>
       w.inEnd /\ ~w.outRst /\ (w.opener = "client" => w.outEnd)

(* Every known stream is in order; a command has at most one stream, and    *)
(* none nor an answer while it is not handed over; what is in the cache     *)
(* nobody has claimed; and an odd identifier is in use if any is, so that   *)
(* newStream never returns one that is known.                               *)
CInv ==
  /\ \A id \in Known : StateFits(streams[id], wire[id])
  /\ \A id \in Known : streams[id].cmd # NoCmd =>
       AnswersFit(streams[id], wire[id], result[streams[id].cmd])
  /\ \A i, j \in Known : streams[i].cmd = streams[j].cmd /\ streams[i].cmd # NoCmd => i = j
  /\ \A id \in Known : streams[id].cmd \notin fresh
  /\ \A c \in fresh : result[c] = << >>
  /\ \A id \in promisedStreamCache : streams[id].cmd = NoCmd /\ wire[id].opener = "server"
  /\ \A id \in Known : wire[id].body \in BodySizes \cup {0}
  /\ Known # {} => \E id \in Known : Odd(id)

--------------------------------------------------------------------------------
(* What a step may do to a stream                                           *)

(* The history h of stream t is w and a frame from the server, with         *)
(* END_STREAM if end, RST_STREAM if rst, that found the stream as s.        *)
Heard(s, w, t, h, end, rst) ==
  /\ h.opener = w.opener /\ h.body = w.body /\ h.late = w.late
  /\ h.outEnd <=> w.outEnd
  /\ h.inEnd <=> w.inEnd \/ end
  /\ h.inRst <=> w.inRst \/ rst
  /\ h.outRst <=> w.outRst \/ (~rst /\ t.err /\ ~s.err)

(* Stream t with history h comes after s with w.                            *)
Succeeds(s, w, t, h) ==
  /\ StateFits(t, h)
  /\ Advances(s, t)
  /\ t.cmd = s.cmd
  /\ s.state = CLOSED => t.state = CLOSED /\ (h.outRst <=> w.outRst)

(* The answers to the command of a stream that is now t, with history h:    *)
(* none is given, or the first, twice only for incomplete HEADERS.          *)
AnswersStep(t, h) ==
  \/ /\ result' = result
     /\ t.cmd # NoCmd => AnswersFit(t, h, result[t.cmd])
  \/ /\ t.cmd # NoCmd
     /\ result[t.cmd] = << >>
     /\ \E n \in 1 .. 2 :
          /\ n = 2 => "PARTIAL_HEADERS" \in ServerSends
          /\ result' = [result EXCEPT ![t.cmd] = [k \in 1 .. n |-> Outcome(t)]]
          /\ AnswersFit(t, h, [k \in 1 .. n |-> Outcome(t)])

(* A step in which stream id becomes t, with history h: an odd identifier   *)
(* if it is the first, with the command it had or, if it had none, one that *)
(* is handed over.                                                          *)
Moves(id, t, h) ==
  /\ streams' = [streams EXCEPT ![id] = t]
  /\ wire' = [wire EXCEPT ![id] = h]
  /\ StateFits(t, h)
  /\ h.body \in BodySizes \cup {0}
  /\ id \in Known => Advances(streams[id], t)
  /\ Known = {} => Odd(id)
  /\ \/ fresh' = fresh /\ t.cmd = GetOrCreateStream(id).cmd
     \/ /\ t.cmd \in fresh
        /\ fresh' = fresh \ {t.cmd}
        /\ GetOrCreateStream(id).cmd = NoCmd
  /\ promisedStreamCache' \subseteq promisedStreamCache \cup {id}
  /\ id \in promisedStreamCache' => t.cmd = NoCmd /\ h.opener = "server"
  /\ AnswersStep(t, h)

(* A step that leaves the streams and the commands alone.                   *)
Quiet == UNCHANGED <<streams, wire, promisedStreamCache, fresh, result>>

Progress == Quiet \/ \E id \in StreamIds, t \in Streams, h \in Wire : Moves(id, t, h)

--------------------------------------------------------------------------------
(* Lemmas on the operators of Stream                                        *)

LEMMA CloseFits ==
  ASSUME NEW s \in Streams
  PROVE  LET t == CloseWithError(s)
         IN  /\ t \in Streams
             /\ t.cmd = s.cmd
             /\ s.state = CLOSED => t = s
             /\ s.state # CLOSED => t.state = CLOSED /\ t.err = TRUE
<1>1. CloseWithError(s) \in Streams
  BY CloseKeeps DEF Keeps
<1>2. AfterOutgoing("RST_STREAM", FALSE, s.state) = CLOSED
  BY DEF AfterOutgoing
<1> QED
  BY <1>1, <1>2 DEF CloseWithError, Streams

LEMMA Ranks ==
  /\ Rank(IDLE) = 0
  /\ Rank(RESERVED_REMOTE) = 1 /\ Rank(OPEN) = 1
  /\ Rank(HALF_CLOSED_LOCAL) = 2 /\ Rank(HALF_CLOSED_REMOTE) = 2
  /\ Rank(CLOSED) = 3
BY DEF Rank, IDLE, RESERVED_LOCAL, RESERVED_REMOTE, OPEN, HALF_CLOSED_LOCAL,
       HALF_CLOSED_REMOTE, CLOSED

(* A stream that a frame closed with an error.                              *)
LEMMA ClosingFits ==
  ASSUME NEW s \in Streams, NEW w \in Wire, NEW t \in Streams, NEW h \in Wire,
         NEW end \in BOOLEAN, NEW rst \in BOOLEAN,
         StateFits(s, w),
         Heard(s, w, t, h, end, rst),
         t.cmd = s.cmd,
         s.state # CLOSED => t.state = CLOSED /\ t.err,
         s.state = CLOSED => t.state = CLOSED /\ (t.err <=> s.err \/ rst)
  PROVE  Succeeds(s, w, t, h)
<1>1. t.state = CLOSED /\ (t.err <=> WasReset(h))
  BY DEF StateFits, Heard, WasReset
<1>2. h.opener # "none" /\ (WasReset(h) \/ s.state = CLOSED)
  BY DEF StateFits, Heard, WasReset
<1>3. StateFits(t, h)
  BY <1>1, <1>2 DEF StateFits, Heard, WasReset, LocalEnded, RESERVED_REMOTE, OPEN, HALF_CLOSED_LOCAL, HALF_CLOSED_REMOTE, CLOSED
<1>4. Advances(s, t)
  BY <1>1, Ranks, StreamAssumption DEF StateFits, Advances
<1>5. s.state = CLOSED => (h.outRst <=> w.outRst)
  BY <1>1 DEF Heard
<1> QED
  BY <1>1, <1>3, <1>4, <1>5 DEF Succeeds

(* A frame that is accepted, with or without END_STREAM.                    *)
LEMMA AcceptedFits ==
  ASSUME NEW s \in Streams, NEW w \in Wire, NEW t \in Streams, NEW h \in Wire,
         NEW end \in BOOLEAN,
         StateFits(s, w), ~w.inEnd, ~w.inRst,
         Heard(s, w, t, h, end, FALSE),
         s.state \in {OPEN, HALF_CLOSED_LOCAL, RESERVED_REMOTE},
         t.cmd = s.cmd,
         t.err = s.err,
         t.state = IF s.state = OPEN THEN (IF end THEN HALF_CLOSED_REMOTE ELSE OPEN)
                   ELSE IF end THEN CLOSED ELSE HALF_CLOSED_LOCAL
  PROVE  Succeeds(s, w, t, h)
<1>0. t # NoStream
  BY StreamAssumption
<1>1. ~s.err /\ ~WasReset(w)
  BY DEF StateFits, LocalEnded, RESERVED_REMOTE, OPEN, HALF_CLOSED_LOCAL,
         HALF_CLOSED_REMOTE, CLOSED
<1>2. ~t.err /\ ~WasReset(h) /\ (h.outRst <=> w.outRst)
  BY <1>1 DEF Heard, WasReset
<1>3. (LocalEnded(h) <=> LocalEnded(w)) /\ (h.inEnd <=> end) /\ h.opener = w.opener
  BY DEF Heard, LocalEnded
<1>4. CASE s.state = OPEN
  <2>1. ~LocalEnded(w) /\ w.opener = "client"
    BY <1>4 DEF StateFits
  <2>2. StateFits(t, h)
    BY <1>2, <1>3, <1>4, <2>1 DEF StateFits, RESERVED_REMOTE, OPEN, HALF_CLOSED_LOCAL,
                                  HALF_CLOSED_REMOTE, CLOSED
  <2>3. Advances(s, t)
    BY <1>0, <1>1, <1>4, Ranks DEF Advances
  <2>4. s.state # CLOSED
    BY <1>4 DEF OPEN, CLOSED
  <2> QED
    BY <1>2, <2>2, <2>3, <2>4 DEF Succeeds
<1>5. CASE s.state # OPEN
  <2>1. LocalEnded(w) /\ w.opener # "none"
    BY <1>5 DEF StateFits, RESERVED_REMOTE, OPEN, HALF_CLOSED_LOCAL,
                HALF_CLOSED_REMOTE, CLOSED
  <2>2. t.state = IF end THEN CLOSED ELSE HALF_CLOSED_LOCAL
    BY <1>5
  <2>3. StateFits(t, h)
    BY <1>2, <1>3, <2>1, <2>2 DEF StateFits, RESERVED_REMOTE, OPEN, HALF_CLOSED_LOCAL,
                                  HALF_CLOSED_REMOTE, CLOSED
  <2>4. Advances(s, t)
    BY <1>0, <1>1, <1>5, <2>2, Ranks DEF Advances
  <2>5. s.state # CLOSED
    BY DEF RESERVED_REMOTE, OPEN, HALF_CLOSED_LOCAL, CLOSED
  <2> QED
    BY <1>2, <2>3, <2>4, <2>5 DEF Succeeds
<1> QED
  BY <1>4, <1>5

LEMMA DataFits ==
  ASSUME NEW s \in Streams, NEW w \in Wire, NEW h \in Wire,
         NEW size \in Nat, NEW end \in BOOLEAN,
         StateFits(s, w), ~w.inEnd, ~w.inRst,
         Heard(s, w, ReceiveData(s, size, end), h, end, FALSE)
  PROVE  Succeeds(s, w, ReceiveData(s, size, end), h)
<1> DEFINE t == ReceiveData(s, size, end)
<1>1. t \in Streams
  BY ReceiveDataKeeps DEF Keeps
<1>2. CASE s.state \notin AcceptedIn("DATA")
  <2>1. t = CloseWithError(s)
    BY <1>2 DEF ReceiveData
  <2>2. /\ t.cmd = s.cmd
        /\ s.state # CLOSED => t.state = CLOSED /\ t.err
        /\ s.state = CLOSED => t.state = CLOSED /\ (t.err <=> s.err \/ FALSE)
    BY <2>1, CloseFits
  <2> HIDE DEF t
  <2> QED
    BY <1>1, <2>2, ClosingFits DEF t
<1>3. CASE s.state \in AcceptedIn("DATA")
  <2>1. s.state \in {OPEN, HALF_CLOSED_LOCAL}
    BY <1>3 DEF AcceptedIn
  <2>2. /\ t.state = IF end THEN RemoteEnd(s.state) ELSE s.state
        /\ t.err = s.err
        /\ t.cmd = s.cmd
    BY <1>3 DEF ReceiveData, AfterIncoming, Streams
  <2>3. t.state = IF s.state = OPEN THEN (IF end THEN HALF_CLOSED_REMOTE ELSE OPEN)
                  ELSE IF end THEN CLOSED ELSE HALF_CLOSED_LOCAL
    BY <2>1, <2>2 DEF RemoteEnd, OPEN, HALF_CLOSED_LOCAL
  <2> HIDE DEF t
  <2> QED
    BY <1>1, <2>1, <2>2, <2>3, AcceptedFits DEF t
<1> QED
  BY <1>2, <1>3

LEMMA HeadersFit ==
  ASSUME NEW s \in Streams, NEW w \in Wire, NEW h \in Wire,
         NEW end \in BOOLEAN, NEW endHeaders \in BOOLEAN,
         StateFits(s, w), ~w.inEnd, ~w.inRst,
         Heard(s, w, ReceiveHeaders(s, end, endHeaders), h, end, FALSE)
  PROVE  Succeeds(s, w, ReceiveHeaders(s, end, endHeaders), h)
<1> DEFINE t == ReceiveHeaders(s, end, endHeaders)
<1>1. t \in Streams
  BY ReceiveHeadersKeeps DEF Keeps
<1>2. CASE s.state \notin AcceptedIn("HEADERS")
  <2>1. t = CloseWithError(s)
    BY <1>2 DEF ReceiveHeaders
  <2>2. /\ t.cmd = s.cmd
        /\ s.state # CLOSED => t.state = CLOSED /\ t.err
        /\ s.state = CLOSED => t.state = CLOSED /\ (t.err <=> s.err \/ FALSE)
    BY <2>1, CloseFits
  <2> HIDE DEF t
  <2> QED
    BY <1>1, <2>2, ClosingFits DEF t
<1>3. CASE s.state \in AcceptedIn("HEADERS")
  <2> DEFINE u == [s EXCEPT !.state = AfterIncoming("HEADERS", end, @)]
  <2>1. s.state \in {OPEN, HALF_CLOSED_LOCAL, RESERVED_REMOTE}
    BY <1>3 DEF AcceptedIn, StateFits, IDLE, RESERVED_REMOTE, OPEN,
                HALF_CLOSED_LOCAL, HALF_CLOSED_REMOTE, CLOSED
  <2>2. /\ u \in Streams
        /\ u.state = AfterIncoming("HEADERS", end, s.state)
        /\ u.err = s.err
        /\ u.cmd = s.cmd
    BY StatesType DEF Streams
  <2>3. AfterIncoming("HEADERS", end, s.state) =
          IF s.state = OPEN THEN (IF end THEN HALF_CLOSED_REMOTE ELSE OPEN)
          ELSE IF end THEN CLOSED ELSE HALF_CLOSED_LOCAL
    BY <2>1 DEF AfterIncoming, RemoteEnd, RESERVED_REMOTE, OPEN, HALF_CLOSED_LOCAL
  <2>4. t = IF endHeaders THEN u ELSE CloseWithError(u)
    BY <1>3 DEF ReceiveHeaders
  <2> HIDE DEF t, u
  <2>5. CASE endHeaders \/ u.state = CLOSED
    <3>1. t = u
      BY <2>2, <2>4, <2>5, CloseFits
    <3> QED
      BY <1>1, <2>1, <2>2, <2>3, <3>1, AcceptedFits DEF t
  <2>6. CASE ~endHeaders /\ u.state # CLOSED
    <3>1. t.cmd = s.cmd /\ t.state = CLOSED /\ t.err
      BY <2>2, <2>4, <2>6, CloseFits
    <3>2. s.state # CLOSED
      BY <2>1 DEF RESERVED_REMOTE, OPEN, HALF_CLOSED_LOCAL, CLOSED
    <3> QED
      BY <1>1, <3>1, <3>2, ClosingFits DEF t
  <2> QED
    BY <2>5, <2>6
<1> QED
  BY <1>2, <1>3

LEMMA RstStreamFits ==
  ASSUME NEW s \in Streams, NEW w \in Wire, NEW h \in Wire,
         StateFits(s, w),
         Heard(s, w, ReceiveRstStream(s), h, FALSE, TRUE)
  PROVE  Succeeds(s, w, ReceiveRstStream(s), h)
<1> DEFINE t == ReceiveRstStream(s)
<1>1. t \in Streams
  BY ReceiveRstStreamKeeps DEF Keeps
<1>2. t.cmd = s.cmd /\ t.state = CLOSED /\ t.err
  BY DEF ReceiveRstStream, AfterIncoming, Streams
<1> HIDE DEF t
<1> QED
  BY <1>1, <1>2, ClosingFits DEF t

(* A promise is for a new stream, which is reserved or refused.             *)
LEMMA PromiseReceived ==
  ASSUME NEW window \in Nat, NEW request \in Requests, NEW endHeaders \in BOOLEAN
  PROVE  LET s == New(NoCmd, window)
             received == ReceivePushPromise(s, request, endHeaders)
             t == IF request.method = "GET" THEN received ELSE CloseWithError(received)
         IN  /\ t \in Streams
             /\ t.cmd = NoCmd
             /\ (t.state = RESERVED_REMOTE /\ ~t.err) \/ (t.state = CLOSED /\ t.err)
<1> DEFINE s == New(NoCmd, window)
           received == ReceivePushPromise(s, request, endHeaders)
           t == IF request.method = "GET" THEN received ELSE CloseWithError(received)
           u == [s EXCEPT !.state = RESERVED_REMOTE]
           v == [u EXCEPT !.request = request]
<1>1. s \in Streams /\ s.state = IDLE /\ s.err = FALSE /\ s.cmd = NoCmd
  BY NewType DEF New
<1> HIDE DEF s
<1>2. received = IF endHeaders THEN v ELSE CloseWithError(u)
  BY <1>1 DEF ReceivePushPromise, AcceptedIn, AfterIncoming
<1>3. /\ u \in Streams /\ u.state = RESERVED_REMOTE /\ u.err = FALSE /\ u.cmd = NoCmd
      /\ v \in Streams /\ v.state = RESERVED_REMOTE /\ v.err = FALSE /\ v.cmd = NoCmd
  BY <1>1 DEF Streams, StreamStates
<1> HIDE DEF u, v, received
<1>4. /\ received \in Streams
      /\ received.cmd = NoCmd
      /\ \/ received.state = RESERVED_REMOTE /\ ~received.err
         \/ received.state = CLOSED /\ received.err
  BY <1>2, <1>3, CloseFits DEF RESERVED_REMOTE, CLOSED
<1>5. /\ t \in Streams
      /\ t.cmd = NoCmd
      /\ (t.state = RESERVED_REMOTE /\ ~t.err) \/ (t.state = CLOSED /\ t.err)
  BY <1>4, CloseFits DEF RESERVED_REMOTE, CLOSED
<1> QED
  BY <1>5 DEF s, received

LEMMA PromiseFits ==
  ASSUME NEW t \in Streams, NEW h \in Wire,
         (t.state = RESERVED_REMOTE /\ ~t.err) \/ (t.state = CLOSED /\ t.err),
         h.opener = "server", ~h.inEnd, ~h.inRst, h.outRst <=> t.err
  PROVE  StateFits(t, h)
BY DEF StateFits, LocalEnded, WasReset, RESERVED_REMOTE, OPEN, HALF_CLOSED_LOCAL,
       HALF_CLOSED_REMOTE, CLOSED

LEMMA LocalEnds ==
  LocalEnd(OPEN) = HALF_CLOSED_LOCAL /\ LocalEnd(HALF_CLOSED_REMOTE) = CLOSED
BY DEF LocalEnd, OPEN, HALF_CLOSED_LOCAL, HALF_CLOSED_REMOTE, CLOSED

(* Postponed frames that go out; only the last one can close the stream.    *)
LEMMA SentFits ==
  ASSUME NEW s \in Streams, NEW w \in Wire, NEW h \in Wire,
         NEW n \in 0 .. Len(s.pending),
         Sound(s, w), StateFits(s, w), ~Panics(s, n),
         h.opener = w.opener, h.body = w.body,
         h.inEnd <=> w.inEnd, h.inRst <=> w.inRst, h.outRst <=> w.outRst,
         h.outEnd <=> w.outEnd \/ (n > 0 /\ s.pending[n].end)
  PROVE  /\ Succeeds(s, w, Sent(s, n), h)
         /\ NewlyClosed(s, Sent(s, n)) =>
              n > 0 /\ s.pending[n].end /\ w.inEnd /\ h.body > 0
<1> DEFINE t == Sent(s, n)
<1>1. t \in Streams /\ t # NoStream
  BY SentInOrder, StreamAssumption DEF Sound, Wire
<1>2. /\ t.cmd = s.cmd /\ t.err = s.err
      /\ t.state = IF n = 0 THEN s.state
                   ELSE AfterOutgoing("DATA", s.pending[n].end, s.state)
  BY DEF Sent, Streams
<1>3. CASE n = 0
  <2>1. t.state = s.state
    BY <1>2, <1>3
  <2>2. h.outEnd <=> w.outEnd
    BY <1>3
  <2> HIDE DEF t
  <2>3. StateFits(t, h)
    BY <1>2, <2>1, <2>2 DEF StateFits, LocalEnded, WasReset
  <2>4. Advances(s, t)
    BY <1>1, <1>2, <2>1 DEF Advances
  <2>5. Succeeds(s, w, t, h) /\ ~NewlyClosed(s, t)
    BY <1>2, <2>1, <2>3, <2>4 DEF Succeeds, NewlyClosed
  <2> QED
    BY <2>5 DEF t
<1>4. CASE n > 0
  <2> DEFINE end == s.pending[n].end
  <2>1. s.state \in {OPEN, HALF_CLOSED_REMOTE}
    BY <1>4 DEF Panics, MustBeInFor
  <2>2. s.pending \in Seq(Chunk) /\ n \in 1 .. Len(s.pending) /\ s.pending # << >>
    BY <1>4 DEF Streams
  <2>4. ~w.outEnd /\ w.opener = "client"
    BY <2>2 DEF Sound
  <2>5. h.outEnd <=> end
    BY <1>4, <2>4
  <2>6. w.body > 0
    <3> DEFINE last == Len(s.pending)
    <3>1. last \in 1 .. Len(s.pending)
      BY <2>2
    <3>2. s.pending[last] \in Chunk
      BY <2>2, <3>1
    <3>3. s.pending[last].from < s.pending[last].to /\ s.pending[last].to = w.body
      BY <2>2, <3>1 DEF Sound, InOrder
    <3> QED
      BY <3>2, <3>3 DEF Chunk
  <2>7. t.state = IF end THEN LocalEnd(s.state) ELSE s.state
    BY <1>2, <1>4 DEF AfterOutgoing
  <2>8. ~s.err /\ ~WasReset(w) /\ (WasReset(h) <=> WasReset(w)) /\ (h.outRst <=> w.outRst)
    BY <2>1 DEF StateFits, WasReset, OPEN, HALF_CLOSED_REMOTE, CLOSED
  <2>9. (LocalEnded(w) <=> FALSE) /\ (LocalEnded(h) <=> end) /\ h.opener = "client"
    BY <2>4, <2>5 DEF LocalEnded
  <2> HIDE DEF t
  <2>10. CASE s.state = OPEN
    <3>1. t.state = IF end THEN HALF_CLOSED_LOCAL ELSE OPEN
      BY <2>7, <2>10, LocalEnds
    <3>2. ~w.inEnd
      BY <2>10 DEF StateFits, OPEN, CLOSED
    <3>3. StateFits(t, h)
      BY <1>2, <2>8, <2>9, <3>1, <3>2 DEF StateFits, RESERVED_REMOTE, OPEN,
         HALF_CLOSED_LOCAL, HALF_CLOSED_REMOTE, CLOSED
    <3>4. Advances(s, t)
      BY <1>1, <1>2, <2>8, <2>10, <3>1, Ranks DEF Advances
    <3>5. s.state # CLOSED /\ t.state # CLOSED
      BY <2>10, <3>1 DEF OPEN, HALF_CLOSED_LOCAL, CLOSED
    <3> QED
      BY <1>2, <3>3, <3>4, <3>5 DEF Succeeds, NewlyClosed, t
  <2>11. CASE s.state = HALF_CLOSED_REMOTE
    <3>1. t.state = IF end THEN CLOSED ELSE HALF_CLOSED_REMOTE
      BY <2>7, <2>11, LocalEnds
    <3>2. w.inEnd
      BY <2>11 DEF StateFits, HALF_CLOSED_REMOTE, CLOSED
    <3>3. StateFits(t, h)
      BY <1>2, <2>8, <2>9, <3>1, <3>2 DEF StateFits, RESERVED_REMOTE, OPEN,
         HALF_CLOSED_LOCAL, HALF_CLOSED_REMOTE, CLOSED
    <3>4. Advances(s, t)
      BY <1>1, <1>2, <2>8, <2>11, <3>1, Ranks DEF Advances
    <3>5. s.state # CLOSED /\ (t.state = CLOSED => end)
      BY <2>11, <3>1 DEF HALF_CLOSED_REMOTE, CLOSED
    <3> QED
      BY <1>2, <1>4, <2>6, <3>2, <3>3, <3>4, <3>5 DEF Succeeds, NewlyClosed, t
  <2> QED
    BY <2>1, <2>10, <2>11
<1> QED
  BY <1>3, <1>4

--------------------------------------------------------------------------------
(* Lemmas on the answers                                                    *)

(* History h continues w.                                                   *)
Continues(w, h) ==
  /\ w.inEnd => h.inEnd
  /\ w.outEnd => h.outEnd
  /\ w.late => h.late
  /\ h.body = w.body
  /\ h.opener = w.opener

(* A stream that is not closed by the step, or in silence.                  *)
LEMMA SilentAnswers ==
  ASSUME NEW s, NEW w, NEW t, NEW h, NEW a,
         AnswersFit(s, w, a), Succeeds(s, w, t, h), Continues(w, h),
         ~NewlyClosed(s, t) \/ (h.late /\ h.body > 0)
  PROVE  AnswersFit(t, h, a)
<1>1. CASE s.state = CLOSED
  BY <1>1 DEF AnswersFit, Succeeds, Continues
<1>2. CASE s.state # CLOSED
  <2>1. a = << >>
    BY <1>2 DEF AnswersFit
  <2>2. t.state = CLOSED => h.late /\ h.body > 0
    BY <1>2 DEF NewlyClosed
  <2> QED
    BY <2>1, <2>2 DEF AnswersFit
<1> QED
  BY <1>1, <1>2

(* The answers a closed stream gives.                                       *)
LEMMA CompletedAnswers ==
  ASSUME NEW t, NEW h, NEW n \in 1 .. 2, StateFits(t, h), t.state = CLOSED
  PROVE  AnswersFit(t, h, [k \in 1 .. n |-> Outcome(t)])
<1> DEFINE a == [k \in 1 .. n |-> Outcome(t)]
<1>1. a # << >>
  <2>1. 1 \in DOMAIN a
    OBVIOUS
  <2> QED
    BY <2>1
<1>2. ASSUME NEW k \in DOMAIN a, a[k] = "ok"
      PROVE  h.inEnd /\ ~h.outRst /\ (h.opener = "client" => h.outEnd)
  <2>1. ~t.err
    BY <1>2 DEF Outcome
  <2> QED
    BY <2>1 DEF StateFits, WasReset, LocalEnded
<1> QED
  BY <1>1, <1>2 DEF AnswersFit

LEMMA AnswersGiven ==
  ASSUME IInv,
         NEW s \in Streams, NEW w \in Wire, NEW t \in Streams, NEW h \in Wire,
         NEW n \in 1 .. 2, NEW completes \in BOOLEAN,
         n = 2 => "PARTIAL_HEADERS" \in ServerSends,
         Succeeds(s, w, t, h), Continues(w, h),
         s.cmd # NoCmd => AnswersFit(s, w, result[s.cmd]),
         result' = IF completes /\ NewlyClosed(s, t) THEN Completed(t, n) ELSE result,
         completes \/ ~NewlyClosed(s, t) \/ (h.late /\ h.body > 0)
  PROVE  AnswersStep(t, h)
<1>1. t.cmd = s.cmd
  BY DEF Succeeds
<1>2. CASE t.cmd = NoCmd
  <2>1. result' = result
    BY <1>2 DEF Completed
  <2> QED
    BY <1>2, <2>1 DEF AnswersStep
<1>3. CASE t.cmd # NoCmd /\ ~(completes /\ NewlyClosed(s, t))
  <2>1. AnswersFit(t, h, result[t.cmd])
    BY <1>1, <1>3, SilentAnswers
  <2> QED
    BY <1>3, <2>1 DEF AnswersStep
<1>4. CASE t.cmd # NoCmd /\ completes /\ NewlyClosed(s, t)
  <2> DEFINE a == [k \in 1 .. n |-> Outcome(t)]
  <2>1. result[t.cmd] = << >>
    BY <1>1, <1>4 DEF AnswersFit, NewlyClosed
  <2>2. << >> \o a = a
    <3>1. Outcome(t) \in Answers
      BY DEF Outcome, Answers
    <3>2. a \in Seq(Answers)
      BY <3>1
    <3> HIDE DEF a
    <3> QED
      BY <3>2
  <2>3. result' = [result EXCEPT ![t.cmd] = a]
    BY <1>4, <2>1, <2>2 DEF Completed
  <2>4. AnswersFit(t, h, a)
    BY <1>4, CompletedAnswers DEF Succeeds, NewlyClosed
  <2> QED
    BY <1>4, <2>1, <2>3, <2>4 DEF AnswersStep
<1> QED
  BY <1>2, <1>3, <1>4

--------------------------------------------------------------------------------
(* Every step is progress                                                   *)

LEMMA OpenedIsKnown ==
  ASSUME NEW id \in StreamIds, Opened(id)
  PROVE  /\ id \in Known
         /\ GetOrCreateStream(id) = streams[id]
         /\ Recorded(id) = wire[id]
<1>1. id \in Known
  BY DEF Opened, Recorded, Untouched
<1> QED
  BY <1>1 DEF GetOrCreateStream, Recorded

LEMMA RecordedHeard ==
  ASSUME IInv, NEW id \in StreamIds, NEW t \in Streams,
         NEW end \in BOOLEAN, NEW rst \in BOOLEAN
  PROVE  Heard(GetOrCreateStream(id), Recorded(id), t,
               RecordedAfter(id, t, end, rst), end, rst)
<1> DEFINE w == Recorded(id)
           inEnd == w.inEnd \/ end
           inRst == w.inRst \/ rst
           outRst == w.outRst \/ (~rst /\ t.err /\ ~GetOrCreateStream(id).err)
           h == RecordedAfter(id, t, end, rst)
<1>1. w \in Wire
  BY LookedUp
<1>2. h = [w EXCEPT !.inEnd = inEnd, !.inRst = inRst, !.outRst = outRst]
  BY DEF RecordedAfter
<1>3. /\ h.opener = w.opener /\ h.body = w.body /\ h.outEnd = w.outEnd
      /\ h.late = w.late /\ h.inEnd = inEnd /\ h.inRst = inRst /\ h.outRst = outRst
  <2> HIDE DEF w, h, inEnd, inRst, outRst
  <2> QED
    BY <1>1, <1>2 DEF Wire
<1> HIDE DEF h
<1> QED
  BY <1>3 DEF Heard, h

(* A frame for a known stream.                                              *)
LEMMA ReceivedProgress ==
  ASSUME IInv, CInv,
         NEW id \in StreamIds, Opened(id),
         NEW t \in Streams, NEW h \in Wire, NEW times \in 1 .. 2,
         NEW end \in BOOLEAN, NEW rst \in BOOLEAN,
         times = 2 => "PARTIAL_HEADERS" \in ServerSends,
         Succeeds(GetOrCreateStream(id), Recorded(id), t, h),
         Heard(GetOrCreateStream(id), Recorded(id), t, h, end, rst),
         Received(id, t, times),
         wire' = [wire EXCEPT ![id] = h],
         UNCHANGED <<promisedStreamCache, fresh>>
  PROVE  Progress
<1> DEFINE s == streams[id]
           w == wire[id]
<1>1. /\ id \in Known
      /\ GetOrCreateStream(id) = s
      /\ Recorded(id) = w
  BY OpenedIsKnown
<1>2. s \in Streams /\ w \in Wire
  BY <1>1, KnownStreams DEF IInv
<1>3. s.cmd # NoCmd => AnswersFit(s, w, result[s.cmd])
  BY <1>1 DEF CInv
<1>4. Succeeds(s, w, t, h) /\ Continues(w, h)
  BY <1>1 DEF Heard, Continues
<1>5. /\ streams' = [streams EXCEPT ![id] = t]
      /\ result' = IF TRUE /\ NewlyClosed(s, t) THEN Completed(t, times) ELSE result
  BY <1>1 DEF Received
<1>6. AnswersStep(t, h)
  BY <1>2, <1>3, <1>4, <1>5, AnswersGiven
<1>7. id \in promisedStreamCache => t.cmd = NoCmd /\ h.opener = "server"
  BY <1>4 DEF CInv, Succeeds, Continues
<1>8. h.body \in BodySizes \cup {0}
  BY <1>1, <1>4 DEF CInv, Continues
<1>9. Moves(id, t, h)
  BY <1>1, <1>4, <1>5, <1>6, <1>7, <1>8 DEF Moves, Succeeds
<1> QED
  BY <1>9 DEF Progress

LEMMA HandleDataProgress ==
  ASSUME OrderlyServer, IInv, CInv,
         NEW id \in StreamIds, NEW size \in DataSizes, NEW end \in BOOLEAN,
         HandleData(id, size, end)
  PROVE  Progress
<1> DEFINE s == GetOrCreateStream(id)
           w == Recorded(id)
           t == ReceiveData(s, size, end)
           h == RecordedAfter(id, t, end, FALSE)
<1>1. size \in Nat
  BY NumbersAssumption
<1>2. Opened(id) /\ ~w.inEnd /\ ~w.inRst
  BY DEF OrderlyServer, HandleData, MaySend
<1>3. s \in Streams /\ w \in Wire
  BY LookedUp
<1>4. StateFits(s, w)
  BY <1>2, OpenedIsKnown DEF CInv
<1>5. t \in Streams
  BY <1>1, <1>3, ReceiveDataKeeps DEF Keeps
<1>6. /\ Received(id, t, 1)
      /\ wire' = [wire EXCEPT ![id] = h]
      /\ UNCHANGED <<promisedStreamCache, fresh>>
  BY DEF HandleData
<1>7. h \in Wire
  BY <1>5, RecordedAfterType
<1>8. Heard(s, w, t, h, end, FALSE)
  BY <1>5, RecordedHeard
<1>9. Succeeds(s, w, t, h)
  <2> HIDE DEF s, w, h
  <2> QED
    BY <1>1, <1>2, <1>3, <1>4, <1>7, <1>8, DataFits
<1>10. 1 \in 1 .. 2 /\ (1 = 2 => "PARTIAL_HEADERS" \in ServerSends) /\ FALSE \in BOOLEAN
  OBVIOUS
<1> HIDE DEF t, h, s, w
<1> QED
  BY <1>2, <1>5, <1>6, <1>7, <1>8, <1>9, <1>10, ReceivedProgress DEF s, w

LEMMA HandleHeadersProgress ==
  ASSUME OrderlyServer, IInv, CInv,
         NEW id \in StreamIds, NEW end \in BOOLEAN, NEW endHeaders \in BOOLEAN,
         HandleHeaders(id, end, endHeaders)
  PROVE  Progress
<1> DEFINE s == GetOrCreateStream(id)
           w == Recorded(id)
           t == ReceiveHeaders(s, end, endHeaders)
           h == RecordedAfter(id, t, end, FALSE)
           refused == ~endHeaders /\ s.state \in AcceptedIn("HEADERS") /\ t.err
           times == IF refused THEN 2 ELSE 1
<1>1. Opened(id) /\ ~w.inEnd /\ ~w.inRst
  BY DEF OrderlyServer, HandleHeaders, MaySend
<1>2. s \in Streams /\ w \in Wire
  BY LookedUp
<1>3. StateFits(s, w)
  BY <1>1, OpenedIsKnown DEF CInv
<1>4. t \in Streams
  BY <1>2, ReceiveHeadersKeeps DEF Keeps
<1>5. /\ Received(id, t, times)
      /\ wire' = [wire EXCEPT ![id] = h]
      /\ UNCHANGED <<promisedStreamCache, fresh>>
  BY DEF HandleHeaders
<1>6. times \in 1 .. 2 /\ (times = 2 => "PARTIAL_HEADERS" \in ServerSends)
  <2>1. ~endHeaders => "PARTIAL_HEADERS" \in ServerSends
    BY DEF HandleHeaders, MaySend
  <2>2. refused => ~endHeaders
    OBVIOUS
  <2> HIDE DEF refused
  <2> QED
    BY <2>1, <2>2
<1>7. h \in Wire
  BY <1>4, RecordedAfterType
<1>8. Heard(s, w, t, h, end, FALSE)
  BY <1>4, RecordedHeard
<1>9. Succeeds(s, w, t, h)
  <2> HIDE DEF s, w, h
  <2> QED
    BY <1>1, <1>2, <1>3, <1>7, <1>8, HeadersFit
<1> HIDE DEF t, h, times
<1> QED
  BY <1>1, <1>4, <1>5, <1>6, <1>7, <1>8, <1>9, ReceivedProgress

LEMMA HandleRstStreamProgress ==
  ASSUME OrderlyServer, IInv, CInv, NEW id \in StreamIds, HandleRstStream(id)
  PROVE  Progress
<1> DEFINE s == GetOrCreateStream(id)
           w == Recorded(id)
           t == ReceiveRstStream(s)
           h == RecordedAfter(id, t, FALSE, TRUE)
<1>1. Opened(id)
  BY DEF OrderlyServer, HandleRstStream
<1>2. s \in Streams /\ w \in Wire
  BY LookedUp
<1>3. StateFits(s, w)
  BY <1>1, OpenedIsKnown DEF CInv
<1>4. s.state # IDLE
  BY <1>3 DEF StateFits, IDLE, RESERVED_REMOTE, OPEN, HALF_CLOSED_LOCAL,
              HALF_CLOSED_REMOTE, CLOSED
<1>5. t \in Streams
  BY <1>2, ReceiveRstStreamKeeps DEF Keeps
<1>6. /\ Received(id, t, 1)
      /\ wire' = [wire EXCEPT ![id] = h]
      /\ UNCHANGED <<promisedStreamCache, fresh>>
  BY <1>4 DEF HandleRstStream
<1>7. h \in Wire
  BY <1>5, RecordedAfterType
<1>8. Heard(s, w, t, h, FALSE, TRUE)
  BY <1>5, RecordedHeard
<1>9. Succeeds(s, w, t, h)
  <2> HIDE DEF s, w, h
  <2> QED
    BY <1>2, <1>3, <1>7, <1>8, RstStreamFits
<1>10. 1 \in 1 .. 2 /\ (1 = 2 => "PARTIAL_HEADERS" \in ServerSends) /\ FALSE \in BOOLEAN /\ TRUE \in BOOLEAN
  OBVIOUS
<1> HIDE DEF t, h, s, w
<1> QED
  BY <1>1, <1>5, <1>6, <1>7, <1>8, <1>9, <1>10, ReceivedProgress DEF s, w

(* A stream that is promised is a new one.                                  *)
LEMMA HandlePushPromiseProgress ==
  ASSUME OrderlyServer, IInv, CInv, NEW id \in StreamIds, NEW promised \in StreamIds,
         NEW request \in Requests, NEW endHeaders \in BOOLEAN,
         HandlePushPromise(id, promised, request, endHeaders)
  PROVE  Progress
<1> DEFINE window == settings.initialSendWindow
           s == New(NoCmd, window)
           received == ReceivePushPromise(s, request, endHeaders)
           t == IF request.method = "GET" THEN received ELSE CloseWithError(received)
           refused == ~endHeaders /\ s.state \in AcceptedIn("PUSH_PROMISE")
           times == IF refused THEN 2 ELSE 1
           g == RecordedAfter(promised, t, FALSE, FALSE)
           h == [g EXCEPT !.opener = IF @ = "none" THEN "server" ELSE @]
<1>1. ~Opened(promised) /\ id \in Known
  BY DEF OrderlyServer, HandlePushPromise
<1>2. promised \notin Known
  BY <1>1 DEF CInv, StateFits, Opened, Recorded
<1>3. /\ GetOrCreateStream(promised) = s
      /\ Recorded(promised) = [Untouched EXCEPT !.credit = window]
  BY <1>2 DEF GetOrCreateStream, Recorded
<1>4. window \in Nat /\ s \in Streams
  BY NewType DEF IInv, TypeOK, Settings
<1>5. /\ t \in Streams
      /\ t.cmd = NoCmd
      /\ (t.state = RESERVED_REMOTE /\ ~t.err) \/ (t.state = CLOSED /\ t.err)
  BY <1>4, PromiseReceived
<1>6. s.cmd = NoCmd /\ s.err = FALSE
  BY DEF New
<1>7. /\ Received(promised, t, times)
      /\ wire' = [wire EXCEPT ![promised] = h]
      /\ UNCHANGED fresh
      /\ promisedStreamCache' \subseteq promisedStreamCache \cup {promised}
  BY <1>3 DEF HandlePushPromise
<1> HIDE DEF received, t
<1>8. g \in Wire /\ Heard(s, Recorded(promised), t, g, FALSE, FALSE)
  BY <1>3, <1>5, RecordedAfterType, RecordedHeard
<1> HIDE DEF g, times
<1>9. /\ g.opener = "none" /\ g.body = 0 /\ ~g.inEnd /\ ~g.inRst
      /\ g.outRst <=> t.err
  BY <1>3, <1>6, <1>8 DEF Heard, Untouched
<1>10. /\ h \in Wire
       /\ h.opener = "server" /\ h.body = 0 /\ ~h.inEnd /\ ~h.inRst
       /\ h.outRst <=> t.err
  BY <1>8, <1>9 DEF Wire
<1> HIDE DEF h
<1>11. StateFits(t, h)
  BY <1>5, <1>10, PromiseFits
<1>12. /\ streams' = [streams EXCEPT ![promised] = t]
       /\ result' = result
  BY <1>5, <1>7 DEF Received, Completed
<1>13. AnswersStep(t, h)
  BY <1>5, <1>12 DEF AnswersStep
<1>14. Moves(promised, t, h)
  BY <1>1, <1>2, <1>3, <1>5, <1>6, <1>7, <1>10, <1>11, <1>12, <1>13 DEF Moves
<1> QED
  BY <1>5, <1>10, <1>14 DEF Progress

(* A stream s with history w that sends what the windows take.              *)
LEMMA PendingSent ==
  ASSUME IInv, NEW id \in StreamIds, NEW s \in Streams, NEW w \in Wire,
         NEW n \in 0 .. Len(s.pending), NEW completes \in BOOLEAN,
         Sound(s, w), StateFits(s, w), ~Panics(s, n),
         s.cmd # NoCmd => AnswersFit(s, w, result[s.cmd]),
         SendPending(id, s, w, n, completes)
  PROVE  \E t \in Streams, h \in Wire :
           /\ streams' = [streams EXCEPT ![id] = t]
           /\ wire' = [wire EXCEPT ![id] = h]
           /\ Succeeds(s, w, t, h)
           /\ h.opener = w.opener /\ h.body = w.body
           /\ AnswersStep(t, h)
<1> DEFINE t == Sent(s, n)
           out == w.out + Bytes(s, n)
           outEnd == w.outEnd \/ (n > 0 /\ s.pending[n].end)
           late == w.late \/ (w.inEnd /\ ~completes /\ n > 0 /\ s.pending[n].end)
           h == [w EXCEPT !.out = out, !.outEnd = outEnd, !.late = late]
<1>1. /\ streams' = [streams EXCEPT ![id] = t]
      /\ wire' = [wire EXCEPT ![id] = h]
      /\ result' = IF completes /\ NewlyClosed(s, t) THEN Completed(t, 1) ELSE result
  <2>1. result' = IF completes /\ NewlyClosed(s, t) THEN Completed(s, 1) ELSE result
    BY DEF SendPending
  <2>2. t.cmd = s.cmd /\ t.err = s.err
    BY DEF Sent, Streams
  <2>3. Completed(s, 1) = Completed(t, 1)
    BY <2>2 DEF Completed, Outcome
  <2>4. /\ streams' = [streams EXCEPT ![id] = t]
        /\ wire' = [wire EXCEPT ![id] = h]
    BY DEF SendPending
  <2> QED
    BY <2>1, <2>3, <2>4
<1>2. w.out \in Nat /\ w.body \in Nat
  BY DEF Wire
<1>3. InOrder(s.pending, w.out, w.body)
  BY DEF Sound
<1>4. t \in Streams /\ Bytes(s, n) \in Nat
  BY <1>2, <1>3, SentInOrder, BytesType
<1>5. out \in Nat /\ outEnd \in BOOLEAN /\ late \in BOOLEAN
  <2>1. w.late \in BOOLEAN
    BY DEF Wire
  <2> QED
    BY <1>2, <1>4, <2>1
<1>6. /\ h \in Wire
      /\ h.opener = w.opener /\ h.body = w.body
      /\ h.inEnd = w.inEnd /\ h.inRst = w.inRst /\ h.outRst = w.outRst
      /\ h.outEnd = outEnd /\ h.late = late
  <2> HIDE DEF out, outEnd, late
  <2> QED
    BY <1>5 DEF Wire
<1> HIDE DEF h
<1>7. /\ Succeeds(s, w, t, h)
      /\ NewlyClosed(s, t) => n > 0 /\ s.pending[n].end /\ w.inEnd /\ h.body > 0
  BY <1>6, SentFits
<1>8. Continues(w, h)
  BY <1>6 DEF Continues
<1> HIDE DEF t, outEnd, out
<1>10. completes \/ ~NewlyClosed(s, t) \/ (h.late /\ h.body > 0)
  BY <1>6, <1>7
<1> HIDE DEF late
<1>9. AnswersStep(t, h)
  <2>1. 1 \in 1 .. 2 /\ (1 = 2 => "PARTIAL_HEADERS" \in ServerSends)
    OBVIOUS
  <2> QED
    BY <1>1, <1>4, <1>6, <1>7, <1>8, <1>10, <2>1, AnswersGiven
<1> QED
  BY <1>1, <1>4, <1>6, <1>7, <1>9

(* A known stream, perhaps with a larger window than before, that sends     *)
(* what the windows take.                                                   *)
LEMMA SendingProgress ==
  ASSUME IInv, CInv, NEW id \in Known, NEW s \in Streams, NEW w \in Wire,
         s.state = streams[id].state, s.cmd = streams[id].cmd, s.err = streams[id].err,
         w.opener = wire[id].opener, w.body = wire[id].body,
         w.outEnd = wire[id].outEnd, w.outRst = wire[id].outRst,
         w.inEnd = wire[id].inEnd, w.inRst = wire[id].inRst,
         w.late = wire[id].late,
         Sound(s, w),
         NEW n \in 0 .. Len(s.pending), NEW completes \in BOOLEAN,
         SendPending(id, s, w, n, completes),
         UNCHANGED <<promisedStreamCache, fresh>>
  PROVE  Progress
<1>1. id \in StreamIds
  BY DEF Known
<1>2. CASE Panics(s, n)
  <2>1. UNCHANGED <<streams, result, wire>>
    BY <1>2 DEF SendPending
  <2> QED
    BY <2>1 DEF Progress, Quiet
<1>3. CASE ~Panics(s, n)
  <2>1. StateFits(s, w)
    BY DEF CInv, StateFits, LocalEnded, WasReset
  <2>2. s.cmd # NoCmd => AnswersFit(s, w, result[s.cmd])
    BY DEF CInv, AnswersFit
  <2>3. PICK t \in Streams, h \in Wire :
          /\ streams' = [streams EXCEPT ![id] = t]
          /\ wire' = [wire EXCEPT ![id] = h]
          /\ Succeeds(s, w, t, h)
          /\ h.opener = w.opener /\ h.body = w.body
          /\ AnswersStep(t, h)
    BY <1>1, <1>3, <2>1, <2>2, PendingSent
  <2>4. Advances(streams[id], t) /\ t.cmd = streams[id].cmd /\ StateFits(t, h)
    BY <2>3 DEF Succeeds, Advances
  <2>5. id \in promisedStreamCache => t.cmd = NoCmd /\ h.opener = "server"
    BY <2>3, <2>4 DEF CInv
  <2>6. GetOrCreateStream(id) = streams[id]
    BY DEF GetOrCreateStream
  <2>7. h.body \in BodySizes \cup {0}
    BY <2>3 DEF CInv
  <2>8. Moves(id, t, h)
    BY <2>3, <2>4, <2>5, <2>6, <2>7 DEF Moves
  <2> QED
    BY <1>1, <2>8 DEF Progress
<1> QED
  BY <1>2, <1>3

LEMMA FlushNextProgress ==
  ASSUME IInv, CInv, NEW id \in toFlush, FlushNext(id)
  PROVE  Progress
<1>1. id \in Known
  BY DEF IInv
<1>2. streams[id] \in Streams /\ wire[id] \in Wire /\ Sound(streams[id], wire[id])
  BY <1>1, KnownStreams DEF IInv
<1>3. PICK n \in 0 .. Len(streams[id].pending) :
        SendPending(id, streams[id], wire[id], n, FALSE)
  BY DEF FlushNext
<1>4. UNCHANGED <<promisedStreamCache, fresh>>
  BY DEF FlushNext
<1>5. FALSE \in BOOLEAN
  OBVIOUS
<1> QED
  BY <1>1, <1>2, <1>3, <1>4, <1>5, SendingProgress

LEMMA HandleStreamWindowUpdateProgress ==
  ASSUME OrderlyServer, IInv, CInv, NEW id \in StreamIds, NEW increment \in Increments,
         HandleStreamWindowUpdate(id, increment)
  PROVE  Progress
<1> DEFINE s == ReceiveWindowUpdate(GetOrCreateStream(id), increment)
           h == [Recorded(id) EXCEPT !.credit = @ + increment]
<1>1. Opened(id)
  BY DEF OrderlyServer, HandleStreamWindowUpdate
<1>2. /\ id \in Known
      /\ GetOrCreateStream(id) = streams[id]
      /\ Recorded(id) = wire[id]
  BY <1>1, OpenedIsKnown
<1>3. PICK n \in 0 .. Len(s.pending) : SendPending(id, s, h, n, TRUE)
  BY DEF HandleStreamWindowUpdate
<1>4. UNCHANGED <<promisedStreamCache, fresh>>
  BY DEF HandleStreamWindowUpdate
<1>5. /\ s \in Streams
      /\ s.state = streams[id].state /\ s.cmd = streams[id].cmd /\ s.err = streams[id].err
      /\ h \in Wire
      /\ h.opener = wire[id].opener /\ h.body = wire[id].body
      /\ h.outEnd = wire[id].outEnd /\ h.outRst = wire[id].outRst
      /\ h.inEnd = wire[id].inEnd /\ h.inRst = wire[id].inRst
      /\ h.late = wire[id].late
      /\ Sound(s, h)
  <2>1. increment \in Nat
    BY NumbersAssumption
  <2> QED
    BY <1>2, <2>1, WindowOpens
<1>6. TRUE \in BOOLEAN
  OBVIOUS
<1> HIDE DEF s, h
<1> QED
  BY <1>2, <1>3, <1>4, <1>5, <1>6, SendingProgress

(* The identifier of a new request is not in use.                           *)
LEMMA NextStreamIdIsNew ==
  ASSUME CInv, NEW id \in StreamIds, IsNextStreamId(id)
  PROVE  id \notin Known /\ (Known = {} => Odd(id))
<1>1. CASE Known = {}
  BY <1>1 DEF IsNextStreamId, Odd
<1>2. CASE Known # {}
  <2> DEFINE inUse == {0} \cup {k \in Known : Odd(k)}
  <2>1. PICK k \in inUse : id = k + 2 /\ \A j \in inUse : j <= k
    BY <1>2 DEF IsNextStreamId
  <2>2. PICK i \in Known : Odd(i)
    BY <1>2 DEF CInv
  <2>3. Known \subseteq Nat
    BY DEF Known, StreamIds
  <2>4. i \in inUse /\ i > 0
    BY <2>2 DEF Known, StreamIds
  <2>5. k \in Nat /\ k # 0
    BY <2>1, <2>3, <2>4
  <2>6. k \in Known /\ Odd(k)
    BY <2>1, <2>5
  <2>7. Odd(id)
    BY <2>1, <2>5, <2>6 DEF Odd
  <2>8. ASSUME id \in Known PROVE FALSE
    <3>1. id <= k
      BY <2>1, <2>7, <2>8
    <3> QED
      BY <2>1, <2>5, <3>1
  <2> QED
    BY <1>2, <2>8
<1> QED
  BY <1>1, <1>2

LEMMA DoRequestProgress ==
  ASSUME IInv, CInv, NEW c \in Cmds, NEW request \in Requests,
         NEW body \in BodySizes \cup {0}, NEW id \in StreamIds,
         DoRequest(c, request, body, id)
  PROVE  Progress
<1> DEFINE s == [SentHeaders(New(c, settings.initialSendWindow), request, body = 0)
                   EXCEPT !.pending = Chunks(body, settings.serverFrameSize)]
           w == [Untouched EXCEPT !.opener = "client",
                                  !.body   = body,
                                  !.credit = settings.initialSendWindow,
                                  !.outEnd = body = 0]
<1>1. /\ s \in Streams
      /\ s.cmd = c /\ s.err = FALSE
      /\ s.state = IF body = 0 THEN HALF_CLOSED_LOCAL ELSE OPEN
      /\ s.pending = << >> <=> body = 0
      /\ w \in Wire
      /\ w.opener = "client" /\ w.body = body
      /\ w.outEnd <=> body = 0
      /\ ~w.outRst /\ ~w.inEnd /\ ~w.inRst
      /\ Sound(s, w)
  BY RequestOpens
<1>2. PICK n \in 0 .. Len(s.pending) : SendPending(id, s, w, n, TRUE)
  BY DEF DoRequest
<1>3. /\ c \in fresh
      /\ fresh' = fresh \ {c}
      /\ UNCHANGED promisedStreamCache
      /\ IsNextStreamId(id)
  BY DEF DoRequest
<1> HIDE DEF s, w
<1>4. id \notin Known /\ (Known = {} => Odd(id))
  BY <1>3, NextStreamIdIsNew
<1>5. StateFits(s, w)
  BY <1>1 DEF StateFits, LocalEnded, WasReset, RESERVED_REMOTE, OPEN,
              HALF_CLOSED_LOCAL, HALF_CLOSED_REMOTE, CLOSED
<1>6. ~Panics(s, n)
  <2>1. CASE body = 0
    <3>1. n = 0
      BY <1>1, <2>1
    <3> QED
      BY <3>1 DEF Panics
  <2>2. CASE body # 0
    BY <1>1, <2>2 DEF Panics, MustBeInFor
  <2> QED
    BY <2>1, <2>2
<1>7. AnswersFit(s, w, result[c])
  <2>1. result[c] = << >> /\ s.state # CLOSED
    BY <1>1, <1>3 DEF CInv, OPEN, HALF_CLOSED_LOCAL, CLOSED
  <2> HIDE DEF s, w
  <2> QED
    BY <2>1 DEF AnswersFit
<1>8. TRUE \in BOOLEAN
  OBVIOUS
<1>9. PICK t \in Streams, h \in Wire :
        /\ streams' = [streams EXCEPT ![id] = t]
        /\ wire' = [wire EXCEPT ![id] = h]
        /\ Succeeds(s, w, t, h)
        /\ h.opener = w.opener /\ h.body = w.body
        /\ AnswersStep(t, h)
  BY <1>1, <1>2, <1>5, <1>6, <1>7, <1>8, PendingSent
<1>10. t.cmd = c /\ StateFits(t, h) /\ h.body \in BodySizes \cup {0}
  BY <1>1, <1>9 DEF Succeeds
<1>11. GetOrCreateStream(id).cmd = NoCmd
  BY <1>4 DEF GetOrCreateStream, New
<1>12. id \notin promisedStreamCache
  BY <1>4 DEF IInv
<1>13. Moves(id, t, h)
  BY <1>3, <1>4, <1>9, <1>10, <1>11, <1>12 DEF Moves
<1> QED
  BY <1>13 DEF Progress

LEMMA ClaimPushPromiseProgress ==
  ASSUME IInv, CInv, NEW c \in Cmds, NEW path \in Paths, NEW id \in StreamIds,
         ClaimPushPromise(c, path, id)
  PROVE  Progress
<1> DEFINE r == streams[id]
           w == wire[id]
           s == [r EXCEPT !.cmd = c]
<1>1. id \in promisedStreamCache /\ c \in fresh
  BY DEF ClaimPushPromise, PushPromises
<1>2. id \in Known /\ r.cmd = NoCmd
  BY <1>1 DEF IInv, CInv
<1>3. r \in Streams /\ w \in Wire /\ GetOrCreateStream(id) = r
  BY <1>2, KnownStreams DEF IInv, GetOrCreateStream
<1>4. /\ fresh' = fresh \ {c}
      /\ promisedStreamCache' = promisedStreamCache \ {id}
      /\ streams' = [streams EXCEPT ![id] = s]
      /\ result' = IF s.state = CLOSED THEN Completed(s, 1) ELSE result
      /\ UNCHANGED wire
  BY <1>2 DEF ClaimPushPromise
<1>5. wire' = [wire EXCEPT ![id] = w]
  BY <1>4 DEF IInv, TypeOK
<1>6. /\ s \in Streams /\ s # NoStream
      /\ s.cmd = c /\ s.state = r.state /\ s.err = r.err
  BY <1>3, StreamAssumption DEF Streams
<1> HIDE DEF s, r, w
<1>7. StateFits(s, w) /\ w.body \in BodySizes \cup {0}
  BY <1>2, <1>6 DEF CInv, StateFits, r, w
<1>8. Advances(r, s)
  BY <1>2, <1>6 DEF Advances
<1>9. result[c] = << >> /\ c # NoCmd
  BY <1>1, CommandsAssumption DEF CInv
<1>10. AnswersStep(s, w)
  <2>1. CASE s.state # CLOSED
    <3>1. AnswersFit(s, w, result[s.cmd])
      BY <1>6, <1>9, <2>1 DEF AnswersFit
    <3> QED
      BY <1>4, <2>1, <3>1 DEF AnswersStep
  <2>2. CASE s.state = CLOSED
    <3> DEFINE a == [k \in 1 .. 1 |-> Outcome(s)]
    <3>1. << >> \o a = a
      <4>1. Outcome(s) \in Answers
        BY DEF Outcome, Answers
      <4>2. a \in Seq(Answers)
        BY <4>1
      <4> HIDE DEF a
      <4> QED
        BY <4>2
    <3>2. result' = [result EXCEPT ![s.cmd] = a]
      BY <1>4, <1>6, <1>9, <2>2, <3>1 DEF Completed
    <3>3. 1 \in 1 .. 2 /\ (1 = 2 => "PARTIAL_HEADERS" \in ServerSends)
      OBVIOUS
    <3>4. AnswersFit(s, w, a)
      BY <1>7, <2>2, <3>3, CompletedAnswers
    <3> QED
      BY <1>6, <1>9, <3>2, <3>3, <3>4 DEF AnswersStep
  <2> QED
    BY <2>1, <2>2
<1>11. Moves(id, s, w)
  BY <1>1, <1>2, <1>3, <1>4, <1>5, <1>6, <1>7, <1>8, <1>10 DEF Moves, r
<1> QED
  BY <1>3, <1>6, <1>11 DEF Progress

(* Every step of the connection is progress.                                *)
LEMMA NextProgress ==
  ASSUME OrderlyServer, IInv, CInv, [Next]_vars
  PROVE  Progress
<1>1. CASE Execute
  <2>1. ASSUME NEW c \in Cmds, NEW path \in Paths, NEW id \in StreamIds,
               NEW method \in Methods, NEW body \in BodySizes \cup {0},
               DoRequest(c, [method |-> method, path |-> path], body, id)
        PROVE  Progress
    <3>1. [method |-> method, path |-> path] \in Requests
      BY DEF Requests
    <3> QED
      BY <2>1, <3>1, DoRequestProgress
  <2> QED
    BY <1>1, <2>1, ClaimPushPromiseProgress DEF Execute
<1>2. CASE HandleFrameForConnection
  BY <1>2 DEF HandleFrameForConnection, HandleSettings, HandleWindowUpdate,
              Shutdown, Progress, Quiet
<1>3. CASE HandleFrameForStream
  <2> SUFFICES ASSUME NEW id \in StreamIds, NEW flag \in BOOLEAN,
                 \/ \E size \in DataSizes : HandleData(id, size, flag)
                 \/ \E endHeaders \in BOOLEAN : HandleHeaders(id, flag, endHeaders)
                 \/ HandleRstStream(id)
                 \/ HandlePriority(id)
                 \/ \E increment \in Increments : HandleStreamWindowUpdate(id, increment)
                 \/ \E promised \in StreamIds, request \in Requests :
                      HandlePushPromise(id, promised, request, flag)
               PROVE  Progress
    BY <1>3 DEF HandleFrameForStream
  <2>1. ~HandlePriority(id)
    BY DEF HandlePriority, OrderlyServer
  <2> QED
    BY <2>1, HandleDataProgress, HandleHeadersProgress, HandleRstStreamProgress,
       HandleStreamWindowUpdateProgress, HandlePushPromiseProgress
<1>4. CASE \E id \in toFlush : FlushNext(id)
  BY <1>4, FlushNextProgress
<1>5. CASE UNCHANGED vars
  BY <1>5 DEF vars, Progress, Quiet
<1> QED
  BY <1>1, <1>2, <1>3, <1>4, <1>5 DEF Next

--------------------------------------------------------------------------------
(* The invariant is inductive                                               *)

LEMMA InitCInv == Init => CInv
<1>1. Init => Known = {}
  BY DEF Init, Known
<1> QED
  BY <1>1 DEF Init, CInv

(* What a move leaves alone.                                                *)
LEMMA OthersStay ==
  ASSUME IInv, CInv, NEW id \in StreamIds, NEW t \in Streams, NEW h \in Wire,
         Moves(id, t, h)
  PROVE  /\ Known' = Known \cup {id}
         /\ streams'[id] = t /\ wire'[id] = h
         /\ \A k \in Known \ {id} :
              /\ streams'[k] = streams[k]
              /\ wire'[k] = wire[k]
              /\ streams[k].cmd # NoCmd => streams[k].cmd # t.cmd
         /\ \A c \in Cmds : c # t.cmd => result'[c] = result[c]
<1>1. streams \in [StreamIds -> Streams \cup {NoStream}] /\ wire \in [StreamIds -> Wire]
  BY DEF IInv, TypeOK
<1>2. streams' = [streams EXCEPT ![id] = t] /\ wire' = [wire EXCEPT ![id] = h]
  BY DEF Moves
<1>3. t # NoStream
  BY StreamAssumption
<1>4. Known' = Known \cup {id}
  BY <1>1, <1>2, <1>3 DEF Known
<1>5. /\ streams'[id] = t /\ wire'[id] = h
      /\ \A k \in Known \ {id} : streams'[k] = streams[k] /\ wire'[k] = wire[k]
  BY <1>1, <1>2 DEF Known
<1>6. ASSUME NEW k \in Known \ {id}, streams[k].cmd # NoCmd
      PROVE  streams[k].cmd # t.cmd
  <2>1. streams[k].cmd \notin fresh
    BY DEF CInv
  <2>2. CASE t.cmd \in fresh
    BY <2>1, <2>2
  <2>3. CASE t.cmd = GetOrCreateStream(id).cmd /\ id \in Known
    BY <1>6, <2>3 DEF CInv, GetOrCreateStream
  <2>4. CASE t.cmd = GetOrCreateStream(id).cmd /\ id \notin Known
    BY <1>6, <2>4 DEF GetOrCreateStream, New
  <2> QED
    BY <2>2, <2>3, <2>4 DEF Moves
<1>7. ASSUME NEW c \in Cmds, c # t.cmd PROVE result'[c] = result[c]
  <2>1. result \in [Cmds -> Seq(Answers)]
    BY DEF IInv, TypeOK
  <2> QED
    BY <1>7, <2>1 DEF Moves, AnswersStep
<1> QED
  BY <1>4, <1>5, <1>6, <1>7

LEMMA MovesCInv ==
  ASSUME IInv, CInv, NEW id \in StreamIds, NEW t \in Streams, NEW h \in Wire,
         Moves(id, t, h)
  PROVE  CInv'
<1>1. /\ Known' = Known \cup {id}
      /\ streams'[id] = t /\ wire'[id] = h
      /\ \A k \in Known \ {id} :
           /\ streams'[k] = streams[k]
           /\ wire'[k] = wire[k]
           /\ streams[k].cmd # NoCmd => streams[k].cmd # t.cmd
      /\ \A c \in Cmds : c # t.cmd => result'[c] = result[c]
  BY OthersStay
<1>2. \A k \in Known' : StateFits(streams'[k], wire'[k])
  BY <1>1 DEF CInv, Moves
<1>3. ASSUME NEW k \in Known', streams'[k].cmd # NoCmd
      PROVE  AnswersFit(streams'[k], wire'[k], result'[streams'[k].cmd])
  <2>1. CASE k = id
    <3>1. t.cmd \in Cmds /\ t.cmd # NoCmd
      BY <1>1, <1>3, <2>1 DEF Streams
    <3>2. result \in [Cmds -> Seq(Answers)]
      BY DEF IInv, TypeOK
    <3>3. AnswersFit(t, h, result'[t.cmd])
      BY <3>1, <3>2 DEF Moves, AnswersStep
    <3> QED
      BY <1>1, <2>1, <3>3
  <2>2. CASE k # id
    <3>1. k \in Known \ {id} /\ streams'[k] = streams[k] /\ wire'[k] = wire[k]
      BY <1>1, <2>2
    <3>2. streams[k].cmd \in Cmds
      BY <1>3, <3>1, KnownStreams DEF IInv, Streams
    <3>3. result'[streams[k].cmd] = result[streams[k].cmd]
      BY <1>1, <1>3, <3>1, <3>2
    <3> QED
      BY <1>3, <3>1, <3>3 DEF CInv
  <2> QED
    BY <2>1, <2>2
<1>4. ASSUME NEW i \in Known', NEW j \in Known',
             streams'[i].cmd = streams'[j].cmd, streams'[i].cmd # NoCmd
      PROVE  i = j
  BY <1>1, <1>4 DEF CInv
<1>5. ASSUME NEW k \in Known' PROVE streams'[k].cmd \notin fresh'
  <2>1. fresh \subseteq Cmds /\ NoCmd \notin fresh
    BY CommandsAssumption DEF IInv, TypeOK
  <2>2. fresh' \subseteq fresh
    BY DEF Moves
  <2>3. CASE k = id
    <3>1. CASE fresh' = fresh /\ t.cmd = GetOrCreateStream(id).cmd
      <4>1. t.cmd \notin fresh
        BY <2>1, <3>1 DEF CInv, GetOrCreateStream, New
      <4> QED
        BY <1>1, <2>2, <2>3, <4>1
    <3>2. CASE fresh' = fresh \ {t.cmd}
      BY <1>1, <2>3, <3>2
    <3> QED
      BY <3>1, <3>2 DEF Moves
  <2>4. CASE k # id
    BY <1>1, <2>2, <2>4 DEF CInv
  <2> QED
    BY <2>3, <2>4
<1>6. ASSUME NEW c \in fresh' PROVE result'[c] = << >>
  <2>1. c \in fresh /\ c \in Cmds
    BY DEF Moves, IInv, TypeOK
  <2>2. c # t.cmd
    BY <1>1, <1>5
  <2> QED
    BY <1>1, <2>1, <2>2 DEF CInv
<1>7. ASSUME NEW k \in promisedStreamCache'
      PROVE  streams'[k].cmd = NoCmd /\ wire'[k].opener = "server"
  <2>1. CASE k = id
    BY <1>1, <2>1 DEF Moves
  <2>2. CASE k # id
    <3>1. k \in promisedStreamCache /\ k \in Known \ {id}
      BY <2>2 DEF Moves, IInv
    <3> QED
      BY <1>1, <3>1 DEF CInv
  <2> QED
    BY <2>1, <2>2
<1>8. \A k \in Known' : wire'[k].body \in BodySizes \cup {0}
  BY <1>1 DEF CInv, Moves
<1>9. Known' # {} => \E k \in Known' : Odd(k)
  BY <1>1 DEF CInv, Moves
<1> QED
  BY <1>2, <1>3, <1>4, <1>5, <1>6, <1>7, <1>8, <1>9 DEF CInv

LEMMA ProgressCInv ==
  ASSUME IInv, CInv, Progress
  PROVE  CInv'
<1>1. CASE Quiet
  BY <1>1 DEF Quiet, CInv, Known
<1>2. ASSUME NEW id \in StreamIds, NEW t \in Streams, NEW h \in Wire, Moves(id, t, h)
      PROVE  CInv'
  BY <1>2, MovesCInv
<1> QED
  BY <1>1, <1>2 DEF Progress

--------------------------------------------------------------------------------
(* The theorems                                                             *)

(* The inductive invariant holds in every behaviour with an orderly server. *)
THEOREM CommandInvariance ==
  ASSUME OrderlyServer
  PROVE  Spec => [](IInv /\ CInv)
<1>1. Init => IInv /\ CInv
  BY InitIInv, InitCInv
<1>2. IInv /\ CInv /\ [Next]_vars => (IInv /\ CInv)'
  BY NextIInv, NextProgress, ProgressCInv
<1> QED
  BY <1>1, <1>2, PTL DEF Spec

(* The state a stream is in is the one that the frames of the two sides put *)
(* it in (streamstate.HandleIncomingFrame, HandleOutgoingFrame).            *)
THEOREM StatesMatchTheWire ==
  ASSUME OrderlyServer
  PROVE  Spec => []StateMatchesWire
<1>1. CInv => StateMatchesWire
  BY DEF CInv, StateFits, LocalEnded, WasReset, StateMatchesWire, IDLE,
         RESERVED_REMOTE, OPEN, HALF_CLOSED_LOCAL, HALF_CLOSED_REMOTE, CLOSED
<1> QED
  BY <1>1, CommandInvariance, PTL

(* No command is answered before its stream is closed (ReceiveFrame,        *)
(* SendFrame, executeGetCommand).                                           *)
THEOREM NoAnswerIsEarly ==
  ASSUME OrderlyServer
  PROVE  Spec => []NoEarlyAnswer
<1>1. CInv => NoEarlyAnswer
  BY DEF CInv, AnswersFit, NoEarlyAnswer
<1> QED
  BY <1>1, CommandInvariance, PTL

(* A command succeeds only with the whole response, and after the whole     *)
(* request was sent (finalizeCommand).                                      *)
THEOREM SuccessesAreComplete ==
  ASSUME OrderlyServer
  PROVE  Spec => []SuccessIsComplete
<1>1. IInv /\ CInv => SuccessIsComplete
  <2> SUFFICES ASSUME IInv, CInv, NEW id \in Known, streams[id].cmd # NoCmd,
                      \E k \in DOMAIN result[streams[id].cmd] :
                        result[streams[id].cmd][k] = "ok"
               PROVE  /\ wire[id].inEnd /\ ~wire[id].outRst
                      /\ wire[id].opener = "client" =>
                           wire[id].outEnd /\ wire[id].out = wire[id].body
    BY DEF SuccessIsComplete
  <2>1. /\ wire[id].inEnd /\ ~wire[id].outRst
        /\ wire[id].opener = "client" => wire[id].outEnd
    BY DEF CInv, AnswersFit
  <2>2. wire[id].outEnd => wire[id].out = wire[id].body
    BY DEF IInv, Sound, InOrder
  <2> QED
    BY <2>1, <2>2
<1> QED
  BY <1>1, CommandInvariance, PTL

(* A command goes unanswered on a closed stream in one case only: the last  *)
(* DATA frame of its upload left after the whole response had come, and in  *)
(* a round of a WINDOW_UPDATE of the connection (handleWindowUpdateFrame).  *)
THEOREM UnansweredOnlyThen ==
  ASSUME OrderlyServer
  PROVE  Spec => []UnansweredOnlyAfterUpload
<1>1. CInv => UnansweredOnlyAfterUpload
  BY DEF CInv, AnswersFit, UnansweredOnlyAfterUpload
<1> QED
  BY <1>1, CommandInvariance, PTL

(* Without request bodies every command is answered when its stream closes. *)
THEOREM ClosedAreAnswered ==
  ASSUME OrderlyServer, BodySizes = {}
  PROVE  Spec => []ClosedMeansAnswered
<1>1. CInv => ClosedMeansAnswered
  BY DEF CInv, AnswersFit, ClosedMeansAnswered
<1> QED
  BY <1>1, CommandInvariance, PTL

(* A promise is used once: a cached one is the server's, and nobody's yet   *)
(* (executeGetCommand).                                                     *)
THEOREM PromisesAreUsedOnce ==
  ASSUME OrderlyServer
  PROVE  Spec => []PromisesUsedOnce
<1>1. IInv /\ CInv => PromisesUsedOnce
  BY DEF IInv, CInv, PromisesUsedOnce
<1> QED
  BY <1>1, CommandInvariance, PTL

(* No step takes a stream away or back in its life, gives its identifier to *)
(* another request, or forgets its error (newStream, doRequest,             *)
(* streamstate).                                                            *)
THEOREM StreamsAdvance ==
  ASSUME OrderlyServer
  PROVE  Spec => StreamsOnlyAdvance
<1>1. ASSUME IInv, CInv, [Next]_vars, NEW k \in Known
      PROVE  Advances(streams[k], streams'[k])
  <2>1. streams[k] # NoStream /\ Advances(streams[k], streams[k])
    BY DEF Known, Advances
  <2>2. CASE Quiet
    BY <2>1, <2>2 DEF Quiet
  <2>3. ASSUME NEW id \in StreamIds, NEW t \in Streams, NEW h \in Wire, Moves(id, t, h)
        PROVE  Advances(streams[k], streams'[k])
    <3>1. streams'[id] = t /\ (k # id => streams'[k] = streams[k])
      BY <1>1, <2>3, OthersStay
    <3> QED
      BY <2>1, <2>3, <3>1 DEF Moves
  <2> QED
    BY <1>1, <2>2, <2>3, NextProgress DEF Progress
<1>2. IInv /\ CInv /\ [Next]_vars => [AllAdvance]_vars
  BY <1>1 DEF AllAdvance
<1> QED
  BY <1>2, CommandInvariance, PTL DEF Spec, StreamsOnlyAdvance

--------------------------------------------------------------------------------
(* Connection implements Command                                            *)

(* Each command that a stream has is carried by that stream, the others by  *)
(* none.                                                                    *)
CarriersFit ==
  \A c \in Cmds :
     /\ \A id \in Known : streams[id].cmd = c => Carrier(c) = id
     /\ (\A id \in Known : streams[id].cmd # c) => Carrier(c) = 0

LEMMA CarriersAreKnown == CInv => CarriersFit
<1> SUFFICES ASSUME CInv, NEW c \in Cmds
             PROVE  /\ \A id \in Known : streams[id].cmd = c => Carrier(c) = id
                    /\ (\A id \in Known : streams[id].cmd # c) => Carrier(c) = 0
  BY DEF CarriersFit
<1>1. c # NoCmd
  BY CommandsAssumption
<1>2. ASSUME NEW id \in Known, streams[id].cmd = c PROVE Carrier(c) = id
  <2> DEFINE k == CHOOSE k \in Known : streams[k].cmd = c
  <2>1. k \in Known /\ streams[k].cmd = c
    BY <1>2
  <2>2. k = id
    BY <1>1, <1>2, <2>1 DEF CInv
  <2> QED
    BY <1>2, <2>2 DEF Carrier
<1>3. (\A id \in Known : streams[id].cmd # c) => Carrier(c) = 0
  BY DEF Carrier
<1> QED
  BY <1>2, <1>3

LEMMA InitRefines == Init => Promise!Init
<1> SUFFICES ASSUME Init PROVE Promise!Init
  OBVIOUS
<1>1. Known = {}
  BY DEF Init, Known
<1>2. \A c \in Cmds : Carrier(c) = 0
  BY <1>1 DEF Carrier
<1> QED
  BY <1>2 DEF Init, Promise!Init

(* The answers of a step that changes no carrier, or hands over a command.  *)
LEMMA AnswersRefine ==
  ASSUME "PARTIAL_HEADERS" \notin ServerSends,
         NEW t, NEW h, AnswersStep(t, h)
  PROVE  \/ result' = result
         \/ /\ t.cmd # NoCmd
            /\ \E outcome \in {"ok", "error"} : Promise!Answer(t.cmd, outcome)
<1> SUFFICES ASSUME NEW n \in 1 .. 2,
                    n = 2 => "PARTIAL_HEADERS" \in ServerSends,
                    result[t.cmd] = << >>,
                    result' = [result EXCEPT ![t.cmd] = [k \in 1 .. n |-> Outcome(t)]]
             PROVE  \E outcome \in {"ok", "error"} : Promise!Answer(t.cmd, outcome)
  BY DEF AnswersStep
<1>1. n = 1
  OBVIOUS
<1>2. [k \in 1 .. 1 |-> Outcome(t)] = <<Outcome(t)>>
  OBVIOUS
<1>3. Outcome(t) \in {"ok", "error"}
  BY DEF Outcome
<1>4. Promise!Answer(t.cmd, Outcome(t))
  BY <1>1, <1>2 DEF Promise!Answer
<1> QED
  BY <1>3, <1>4

LEMMA MovesRefines ==
  ASSUME "PARTIAL_HEADERS" \notin ServerSends,
         IInv, CInv, CarriersFit, CInv', CarriersFit',
         NEW id \in StreamIds, NEW t \in Streams, NEW h \in Wire,
         Moves(id, t, h)
  PROVE  [Promise!Next]_(Promise!vars)
<1> DEFINE carrier == [c \in Cmds |-> Carrier(c)]
<1>1. /\ Known' = Known \cup {id}
      /\ streams'[id] = t
      /\ \A k \in Known \ {id} :
           /\ streams'[k] = streams[k]
           /\ streams[k].cmd # NoCmd => streams[k].cmd # t.cmd
  BY OthersStay
<1>2. t.cmd \in Cmds \cup {NoCmd} /\ NoCmd \notin Cmds
  BY CommandsAssumption DEF Streams
<1>3. \A c \in Cmds \ {t.cmd} : Carrier(c)' = Carrier(c)
  <2> SUFFICES ASSUME NEW c \in Cmds, c # t.cmd PROVE Carrier(c)' = Carrier(c)
    OBVIOUS
  <2>1. ASSUME NEW k \in Known, streams[k].cmd = c
        PROVE  Carrier(c)' = Carrier(c)
    <3>1. k # id
      BY <1>2, <2>1 DEF Moves, GetOrCreateStream
    <3>2. k \in Known' /\ streams'[k].cmd = c
      BY <1>1, <2>1, <3>1
    <3> QED
      BY <2>1, <3>2 DEF CarriersFit
  <2>2. ASSUME \A k \in Known : streams[k].cmd # c
        PROVE  Carrier(c)' = Carrier(c)
    <3>1. \A k \in Known' : streams'[k].cmd # c
      BY <1>1, <2>2
    <3> QED
      BY <2>2, <3>1 DEF CarriersFit
  <2> QED
    BY <2>1, <2>2
<1>4. t.cmd \in Cmds => Carrier(t.cmd)' = id
  BY <1>1 DEF CarriersFit
<1>5. t.cmd \in Cmds => t.cmd \notin fresh'
  BY <1>1 DEF CInv
<1>6. CASE fresh' = fresh /\ t.cmd = GetOrCreateStream(id).cmd
  <2>1. t.cmd \in Cmds => Carrier(t.cmd) = id
    <3>1. id \notin Known => t.cmd = NoCmd
      BY <1>6 DEF GetOrCreateStream, New
    <3>2. id \in Known => streams[id].cmd = t.cmd
      BY <1>6 DEF GetOrCreateStream
    <3> QED
      BY <1>2, <3>1, <3>2 DEF CarriersFit
  <2>2. carrier' = carrier
    BY <1>3, <1>4, <2>1
  <2>3. CASE result' = result
    BY <1>6, <2>2, <2>3 DEF Promise!vars
  <2>4. ASSUME NEW outcome \in {"ok", "error"}, t.cmd # NoCmd,
               Promise!Answer(t.cmd, outcome)
        PROVE  Promise!Next
    BY <1>2, <1>5, <1>6, <2>2, <2>4 DEF Promise!Next
  <2> QED
    BY <2>3, <2>4, AnswersRefine DEF Moves
<1>7. CASE /\ t.cmd \in fresh
           /\ fresh' = fresh \ {t.cmd}
           /\ GetOrCreateStream(id).cmd = NoCmd
  <2>1. t.cmd \in Cmds
    BY <1>7 DEF IInv, TypeOK
  <2>2. ASSUME NEW d \in Cmds PROVE Carrier(d) # id
    <3>1. ASSUME NEW k \in Known, streams[k].cmd = d PROVE Carrier(d) # id
      <4>1. k # id
        BY <1>2, <1>7, <3>1 DEF GetOrCreateStream
      <4> QED
        BY <3>1, <4>1 DEF CarriersFit
    <3>2. ASSUME \A k \in Known : streams[k].cmd # d PROVE Carrier(d) # id
      <4>1. Carrier(d) = 0
        BY <3>2 DEF CarriersFit
      <4> QED
        BY <4>1 DEF StreamIds
    <3> QED
      BY <3>1, <3>2
  <2>3. carrier' = [carrier EXCEPT ![t.cmd] = id]
    BY <1>3, <1>4, <2>1
  <2>4. Promise!HandOver(t.cmd, id)
    BY <1>7, <2>2, <2>3 DEF Promise!HandOver
  <2>5. CASE result' = result
    BY <2>1, <2>4, <2>5 DEF Promise!Next
  <2>6. ASSUME NEW outcome \in {"ok", "error"}, Promise!Answer(t.cmd, outcome)
        PROVE  Promise!Next
    BY <2>1, <2>4, <2>6 DEF Promise!Next
  <2> QED
    BY <2>5, <2>6, AnswersRefine DEF Moves
<1> QED
  BY <1>6, <1>7 DEF Moves

(* Unless header blocks are incomplete, which get two answers, a connection *)
(* with an orderly server gives every command a stream of its own for good  *)
(* and at most one answer (newStream, AssociateWithCommand, SendFrame,      *)
(* ReceiveFrame, executeGetCommand).                                        *)
THEOREM ConnectionImplementsCommand ==
  ASSUME OrderlyServer, "PARTIAL_HEADERS" \notin ServerSends
  PROVE  Spec => CommandsAreServed
<1>1. CInv => CarriersFit
  BY CarriersAreKnown
<1>2. ASSUME IInv, CInv, CarriersFit, [Next]_vars, CInv', CarriersFit'
      PROVE  [Promise!Next]_(Promise!vars)
  <2>1. CASE Quiet
    <3>1. Known' = Known
      BY <2>1 DEF Quiet, Known
    <3>2. [c \in Cmds |-> Carrier(c)]' = [c \in Cmds |-> Carrier(c)]
      BY <2>1, <3>1 DEF Quiet, Carrier
    <3> QED
      BY <2>1, <3>2 DEF Quiet, Promise!vars
  <2> QED
    BY <1>2, <2>1, NextProgress, MovesRefines DEF Progress
<1> QED
  BY <1>1, <1>2, InitRefines, CommandInvariance, PTL DEF Spec, CommandsAreServed, Promise!Spec
================================================================================
