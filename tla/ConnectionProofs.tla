--------------------------- MODULE ConnectionProofs ---------------------------
(****************************************************************************)
(* Proofs about Connection, for every number of commands, streams and       *)
(* frames and for every server, conforming or not: the types, that request  *)
(* bodies go out whole and in order, that send windows are respected, and   *)
(* that no DATA frame is held back once the windows have room for it.       *)
(****************************************************************************)
EXTENDS Connection, TLAPS

--------------------------------------------------------------------------------
(* The inductive invariant                                                  *)

(* p holds the bytes from out to body of a request body, in order and       *)
(* without gaps.  The last conjunct follows from the one before it, by an   *)
(* induction that the provers cannot do.                                    *)
InOrder(p, out, body) ==
  /\ p = << >> => out = body
  /\ p # << >> => p[1].from = out /\ p[Len(p)].to = body
  /\ \A k \in 1 .. Len(p) : /\ p[k].from < p[k].to
                            /\ p[k].end <=> k = Len(p)
                            /\ k < Len(p) => p[k].to = p[k + 1].from
  /\ \A j, k \in 1 .. Len(p) : j < k => p[j].to <= p[k].from

(* What holds of a stream s whose history is w.                             *)
Sound(s, w) ==
  /\ InOrder(s.pending, w.out, w.body)
  /\ s.pending = << >> => (w.outEnd <=> w.opener = "client")
  /\ s.pending # << >> => ~w.outEnd /\ w.opener = "client"
  /\ s.sendWindow = w.credit - w.out
  /\ w.out <= w.credit

(* Stream s can send none of what it holds back.                            *)
Blocked(s, connWindow) ==
  s.pending # << >> => ~WindowIsEnough(s, 1, connWindow)

(* The inductive invariant: beside the types and what is to be shown, that  *)
(* everything postponed is a gapless rest of its body, that the windows are *)
(* what was granted less what was sent, and that while the loop runs each   *)
(* stream which the round over the streams does not still have to visit is  *)
(* blocked by one of its windows.                                           *)
IInv ==
  /\ TypeOK
  /\ toFlush \subseteq Known
  /\ promisedStreamCache \subseteq Known
  /\ sendWindow = total.credit - total.sent
  /\ total.sent <= total.credit
  /\ \A id \in Known : Sound(streams[id], wire[id])
  /\ loop = "running" =>
       \A id \in Known \ toFlush : Blocked(streams[id], sendWindow)

--------------------------------------------------------------------------------
(* Lemmas on arithmetic                                                     *)

LEMMA CeilingDivision ==
  ASSUME NEW body \in Nat, NEW size \in Nat \ {0}
  PROVE  LET n == (body + size - 1) \div size
         IN  /\ n \in Nat
             /\ body = 0 => n = 0
             /\ body > 0 => n > 0
             /\ n * size >= body
             /\ n > 0 => (n - 1) * size < body
<1> DEFINE a == body + size - 1
           n == a \div size
<1>1. a \in Nat
  OBVIOUS
<1>2. n \in Nat /\ size * n <= a /\ a < size * n + size
  BY <1>1, Z3
<1>3. size * n = n * size /\ (n - 1) * size = n * size - size
  BY <1>2, SMT
<1>4. n * size >= body
  BY <1>2, <1>3, SMT
<1>5. (n - 1) * size < body
  BY <1>2, <1>3, SMT
<1>6. body = 0 => n = 0
  <2> SUFFICES ASSUME body = 0, n > 0 PROVE FALSE
    BY <1>2, SMT
  <2>1. (n - 1) * size >= 0
    BY <1>2, SMT
  <2> QED
    BY <2>1, <1>5, SMT
<1>7. body > 0 => n > 0
  BY <1>2, <1>4, SMT
<1> QED
  BY <1>2, <1>4, <1>5, <1>6, <1>7

LEMMA Multiples ==
  ASSUME NEW size \in Nat \ {0}, NEW j \in Int, NEW k \in Int, j < k
  PROVE  /\ j * size \in Int
         /\ k * size \in Int
         /\ j * size + size <= k * size
<1>1. PICK d \in Nat : k = j + 1 + d
  BY SMT
<1>2. k * size = j * size + size + d * size
  BY <1>1, SMT
<1>3. d * size >= 0
  BY SMT
<1> QED
  BY <1>2, <1>3, SMT

--------------------------------------------------------------------------------
(* Lemmas on the operators of Stream                                        *)

(* Cutting a body into frames loses nothing.                                *)
LEMMA ChunksInOrder ==
  ASSUME NEW body \in Nat, NEW size \in Nat \ {0}
  PROVE  /\ Chunks(body, size) \in Seq(Chunk)
         /\ InOrder(Chunks(body, size), 0, body)
         /\ Chunks(body, size) = << >> <=> body = 0
<1> DEFINE n == (body + size - 1) \div size
           p == Chunks(body, size)
<1>1. /\ n \in Nat
      /\ body = 0 <=> n = 0
      /\ n * size >= body
      /\ n > 0 => (n - 1) * size < body
  BY CeilingDivision
<1>2. \A k \in 1 .. n : /\ k * size \in Nat
                        /\ (k - 1) * size \in Nat
                        /\ (k - 1) * size + size = k * size
                        /\ (k - 1) * size < body
                        /\ k < n => k * size < body
  <2> SUFFICES ASSUME NEW k \in 1 .. n
               PROVE  /\ k * size \in Nat
                      /\ (k - 1) * size \in Nat
                      /\ (k - 1) * size + size = k * size
                      /\ (k - 1) * size < body
                      /\ k < n => k * size < body
    OBVIOUS
  <2>1. k * size \in Nat /\ (k - 1) * size \in Nat /\ (k - 1) * size + size = k * size
    BY <1>1, SMT
  <2>2. (k - 1) * size < body
    <3>1. CASE k = n
      BY <3>1, <1>1
    <3>2. CASE k < n
      <4>1. (k - 1) * size + size <= (n - 1) * size
        BY <3>2, <1>1, Multiples, SMT
      <4> QED
        BY <4>1, <2>1, <1>1, SMT
    <3> QED
      BY <3>1, <3>2, <1>1
  <2>3. ASSUME k < n PROVE k * size < body
    <3>1. CASE k = n - 1
      BY <3>1, <1>1
    <3>2. CASE k < n - 1
      <4>1. k * size + size <= (n - 1) * size
        BY <3>2, <1>1, Multiples, SMT
      <4> QED
        BY <4>1, <2>1, <1>1, SMT
    <3> QED
      BY <3>1, <3>2, <2>3, <1>1
  <2> QED
    BY <2>1, <2>2, <2>3
<1>3. p = [k \in 1 .. n |->
             [from |-> (k - 1) * size,
              to   |-> IF k * size < body THEN k * size ELSE body,
              end  |-> k * size >= body]]
  BY DEF Chunks
<1>4. /\ p \in Seq(Chunk)
      /\ Len(p) = n
      /\ p = << >> <=> n = 0
  <2> HIDE DEF p, n
  <2>1. \A k \in 1 .. n : p[k] \in Chunk
    BY <1>2, <1>3 DEF Chunk
  <2>2. p \in [1 .. n -> Chunk]
    BY <2>1, <1>3
  <2> QED
    BY <2>2, <1>1
<1>5. \A k \in 1 .. n : /\ p[k].from = (k - 1) * size
                        /\ p[k].to = IF k < n THEN k * size ELSE body
                        /\ p[k].end <=> k = n
  <2> HIDE DEF p, n
  <2> SUFFICES ASSUME NEW k \in 1 .. n
               PROVE  /\ p[k].from = (k - 1) * size
                      /\ p[k].to = IF k < n THEN k * size ELSE body
                      /\ p[k].end <=> k = n
    OBVIOUS
  <2> DEFINE last == k * size >= body
  <2>1. p[k] = [from |-> (k - 1) * size,
                to   |-> IF k * size < body THEN k * size ELSE body,
                end  |-> last]
    BY <1>3
  <2>2. k * size \in Nat /\ (k < n <=> k * size < body)
    BY <1>1, <1>2
  <2>3. p[k].end <=> last
    <3> HIDE DEF last
    <3> QED
      BY <2>1
  <2>4. k * size >= body <=> k = n
    BY <2>2, <1>1
  <2> QED
    BY <2>1, <2>2, <2>3, <2>4
<1>6. \A k \in 1 .. n : /\ p[k].from < p[k].to
                        /\ k < n => p[k].to = p[k + 1].from
  <2> HIDE DEF p, n
  <2> SUFFICES ASSUME NEW k \in 1 .. n
               PROVE  /\ p[k].from < p[k].to
                      /\ k < n => p[k].to = p[k + 1].from
    OBVIOUS
  <2>1. p[k].from < p[k].to
    BY <1>1, <1>2, <1>5
  <2>2. k < n => p[k + 1].from = k * size
    <3>1. (k + 1) - 1 = k
      OBVIOUS
    <3> QED
      BY <1>1, <1>5, <3>1
  <2> QED
    BY <2>1, <2>2, <1>5
<1>7. \A j, k \in 1 .. n : j < k => p[j].to <= p[k].from
  <2> HIDE DEF p, n
  <2> SUFFICES ASSUME NEW j \in 1 .. n, NEW k \in 1 .. n, j < k
               PROVE  p[j].to <= p[k].from
    OBVIOUS
  <2>1. p[j].to = j * size /\ p[k].from = (k - 1) * size
    BY <1>1, <1>5
  <2>2. CASE j = k - 1
    BY <2>1, <2>2, <1>2
  <2>3. CASE j < k - 1
    BY <2>1, <2>3, <1>1, <1>2, Multiples
  <2> QED
    BY <2>2, <2>3, <1>1
<1>8. p # << >> => p[1].from = 0 /\ p[Len(p)].to = body
  <2> HIDE DEF p, n
  <2> QED
    BY <1>1, <1>4, <1>5
<1> HIDE DEF p, n
<1>9. InOrder(p, 0, body)
  BY <1>1, <1>4, <1>5, <1>6, <1>7, <1>8 DEF InOrder
<1> QED
  BY <1>1, <1>4, <1>9 DEF p

LEMMA BytesType ==
  ASSUME NEW s \in Streams, NEW out \in Nat, NEW body \in Nat,
         InOrder(s.pending, out, body),
         NEW n \in 0 .. Len(s.pending)
  PROVE  /\ Bytes(s, n) \in Nat
         /\ n > 0 => out + Bytes(s, n) = s.pending[n].to
<1>1. s.pending \in Seq(Chunk)
  BY DEF Streams
<1>2. CASE n = 0
  BY <1>2 DEF Bytes
<1>3. CASE n > 0
  <2>1. n \in 1 .. Len(s.pending) /\ 1 \in 1 .. Len(s.pending) /\ s.pending # << >>
    BY <1>1, <1>3
  <2>2. /\ s.pending[n] \in Chunk
        /\ s.pending[1] \in Chunk
    BY <1>1, <2>1
  <2>3. s.pending[1].from = out
    BY <2>1 DEF InOrder
  <2>4. s.pending[1].to <= s.pending[n].to
    <3>1. CASE n = 1
      BY <3>1, <2>2 DEF Chunk
    <3>2. CASE 1 < n
      <4>1. s.pending[1].to <= s.pending[n].from /\ s.pending[n].from < s.pending[n].to
        BY <2>1, <3>2 DEF InOrder
      <4> QED
        BY <4>1, <2>2 DEF Chunk
    <3> QED
      BY <3>1, <3>2, <1>3
  <2>5. s.pending[1].from < s.pending[1].to
    BY <2>1 DEF InOrder
  <2>6. Bytes(s, n) = s.pending[n].to - s.pending[1].from
    BY <1>3 DEF Bytes
  <2> QED
    BY <2>2, <2>3, <2>4, <2>5, <2>6 DEF Chunk
<1> QED
  BY <1>2, <1>3

(* Sending the first n postponed frames leaves the rest of the body in      *)
(* order, and END_STREAM is on a frame that leaves nothing behind.          *)
LEMMA SentInOrder ==
  ASSUME NEW s \in Streams, NEW out \in Nat, NEW body \in Nat,
         InOrder(s.pending, out, body),
         NEW n \in 0 .. Len(s.pending)
  PROVE  /\ Sent(s, n) \in Streams
         /\ InOrder(Sent(s, n).pending, out + Bytes(s, n), body)
         /\ Sent(s, n).sendWindow = s.sendWindow - Bytes(s, n)
         /\ Sent(s, n).pending = << >> <=> n = Len(s.pending)
         /\ n > 0 => (s.pending[n].end <=> n = Len(s.pending))
<1> DEFINE p == s.pending
           q == SubSeq(p, n + 1, Len(p))
<1>1. p \in Seq(Chunk) /\ s.sendWindow \in Int
  BY DEF Streams
<1>2. /\ q \in Seq(Chunk)
      /\ Len(q) = Len(p) - n
      /\ \A k \in 1 .. Len(p) - n : q[k] = p[n + k]
  BY <1>1
<1>3. /\ Bytes(s, n) \in Nat
      /\ n > 0 => out + Bytes(s, n) = p[n].to
  BY BytesType
<1>4. /\ Sent(s, n).pending = q
      /\ Sent(s, n).sendWindow = s.sendWindow - Bytes(s, n)
      /\ Sent(s, n) \in Streams
  <2>1. (IF n = 0 THEN s.state ELSE AfterOutgoing("DATA", s.pending[n].end, s.state))
           \in StreamStates
    BY DEF Streams, StreamStates, AfterOutgoing, LocalEnd, IDLE, RESERVED_LOCAL,
           RESERVED_REMOTE, OPEN, HALF_CLOSED_LOCAL, HALF_CLOSED_REMOTE, CLOSED
  <2>2. s.sendWindow - Bytes(s, n) \in Int
    BY <1>1, <1>3
  <2> HIDE DEF q
  <2> QED
    BY <2>1, <2>2, <1>2 DEF Sent, Streams, q
<1>5. n > 0 => (p[n].end <=> n = Len(p))
  BY <1>1 DEF InOrder
<1>6. q = << >> <=> n = Len(p)
  <2> HIDE DEF p, q
  <2>1. q = << >> <=> Len(q) = 0
    BY <1>2
  <2>2. Len(q) = 0 <=> n = Len(p)
    BY <1>1, <1>2
  <2> QED
    BY <2>1, <2>2
<1>7. InOrder(q, out + Bytes(s, n), body)
  <2> HIDE DEF q
  <2>1. q = << >> => out + Bytes(s, n) = body
    <3> SUFFICES ASSUME q = << >> PROVE out + Bytes(s, n) = body
      OBVIOUS
    <3>1. CASE n = 0
      BY <3>1, <1>1, <1>6 DEF InOrder, Bytes
    <3>2. CASE n > 0
      BY <3>2, <1>1, <1>3, <1>6 DEF InOrder
    <3> QED
      BY <3>1, <3>2
  <2>2. q # << >> => q[1].from = out + Bytes(s, n) /\ q[Len(q)].to = body
    <3> SUFFICES ASSUME n < Len(p)
                 PROVE  q[1].from = out + Bytes(s, n) /\ q[Len(q)].to = body
      BY <1>6, <1>1
    <3>1. q[1] = p[n + 1] /\ q[Len(q)] = p[Len(p)]
      <4>1. /\ Len(q) \in 1 .. Len(p) - n /\ 1 \in 1 .. Len(p) - n
            /\ n + Len(q) = Len(p)
        BY <1>1, <1>2
      <4> HIDE DEF p, q
      <4> QED
        BY <1>2, <4>1
    <3>2. p # << >> /\ p[Len(p)].to = body /\ p[1].from = out
      BY <1>1 DEF InOrder
    <3>3. n > 0 => p[n + 1].from = p[n].to
      BY <1>1 DEF InOrder
    <3>4. CASE n = 0
      BY <3>1, <3>2, <3>4 DEF Bytes
    <3>5. CASE n > 0
      BY <3>1, <3>2, <3>3, <3>5, <1>3
    <3> QED
      BY <3>4, <3>5
  <2>3. \A k \in 1 .. Len(q) : /\ q[k].from < q[k].to
                               /\ q[k].end <=> k = Len(q)
                               /\ k < Len(q) => q[k].to = q[k + 1].from
    <3> SUFFICES ASSUME NEW k \in 1 .. Len(q)
                 PROVE  /\ q[k].from < q[k].to
                        /\ q[k].end <=> k = Len(q)
                        /\ k < Len(q) => q[k].to = q[k + 1].from
      OBVIOUS
    <3>1. /\ n + k \in 1 .. Len(p)
          /\ q[k] = p[n + k]
          /\ n + k = Len(p) <=> k = Len(q)
          /\ n + k < Len(p) <=> k < Len(q)
      BY <1>1, <1>2
    <3>2. k < Len(q) => q[k + 1] = p[(n + k) + 1]
      BY <1>1, <1>2
    <3>3. /\ p[n + k].from < p[n + k].to
          /\ p[n + k].end <=> n + k = Len(p)
          /\ n + k < Len(p) => p[n + k].to = p[(n + k) + 1].from
      BY <3>1 DEF InOrder
    <3> QED
      BY <3>1, <3>2, <3>3
  <2>4. \A j, k \in 1 .. Len(q) : j < k => q[j].to <= q[k].from
    <3> SUFFICES ASSUME NEW j \in 1 .. Len(q), NEW k \in 1 .. Len(q), j < k
                 PROVE  q[j].to <= q[k].from
      OBVIOUS
    <3>1. /\ n + j \in 1 .. Len(p) /\ n + k \in 1 .. Len(p) /\ n + j < n + k
          /\ q[j] = p[n + j] /\ q[k] = p[n + k]
      BY <1>1, <1>2
    <3> QED
      BY <3>1 DEF InOrder
  <2> QED
    BY <2>1, <2>2, <2>3, <2>4 DEF InOrder
<1> QED
  BY <1>4, <1>5, <1>6, <1>7

(* Frames other than WINDOW_UPDATE leave alone what a stream holds back.    *)
Keeps(s, t) ==
  t \in Streams /\ t.pending = s.pending /\ t.sendWindow = s.sendWindow

LEMMA StatesType ==
  /\ IDLE \in StreamStates
  /\ \A type, end : \A state \in StreamStates :
       /\ AfterIncoming(type, end, state) \in StreamStates
       /\ AfterOutgoing(type, end, state) \in StreamStates
<1>1. /\ IDLE \in StreamStates
      /\ OPEN \in StreamStates
      /\ HALF_CLOSED_LOCAL \in StreamStates
      /\ HALF_CLOSED_REMOTE \in StreamStates
      /\ RESERVED_REMOTE \in StreamStates
      /\ CLOSED \in StreamStates
  BY DEF StreamStates
<1>2. \A state \in StreamStates :
        RemoteEnd(state) \in StreamStates /\ LocalEnd(state) \in StreamStates
  BY <1>1 DEF RemoteEnd, LocalEnd
<1>3. ASSUME NEW type, NEW end, NEW state \in StreamStates
      PROVE  AfterIncoming(type, end, state) \in StreamStates
  <2> DEFINE begun == IF type = "HEADERS" /\ state = RESERVED_REMOTE
                      THEN HALF_CLOSED_LOCAL ELSE state
  <2>1. begun \in StreamStates
    BY <1>1
  <2>2. (IF end THEN RemoteEnd(begun) ELSE begun) \in StreamStates
    BY <2>1, <1>2
  <2> QED
    BY <2>2, <1>1 DEF AfterIncoming
<1>4. ASSUME NEW type, NEW end, NEW state \in StreamStates
      PROVE  AfterOutgoing(type, end, state) \in StreamStates
  <2> DEFINE begun == IF type = "HEADERS" /\ state = IDLE THEN OPEN ELSE state
  <2>1. begun \in StreamStates
    BY <1>1
  <2>2. (IF end THEN LocalEnd(begun) ELSE begun) \in StreamStates
    BY <2>1, <1>2
  <2> QED
    BY <2>2, <1>1 DEF AfterOutgoing
<1> QED
  BY <1>1, <1>3, <1>4

LEMMA NewType ==
  ASSUME NEW cmd \in Cmds \cup {NoCmd}, NEW window \in Nat
  PROVE  New(cmd, window) \in Streams
<1>1. IDLE \in StreamStates
  BY StatesType
<1>2. DefaultWindow \in Int
  BY WindowsAssumption
<1> QED
  BY <1>1, <1>2 DEF New, Streams

LEMMA CloseKeeps ==
  ASSUME NEW s \in Streams
  PROVE  Keeps(s, CloseWithError(s))
<1>1. AfterOutgoing("RST_STREAM", FALSE, s.state) \in StreamStates
  BY StatesType DEF Streams
<1> QED
  BY <1>1 DEF CloseWithError, Keeps, Streams

LEMMA ReceiveDataKeeps ==
  ASSUME NEW s \in Streams, NEW size \in Nat, NEW end \in BOOLEAN
  PROVE  Keeps(s, ReceiveData(s, size, end))
<1>1. AfterIncoming("DATA", end, s.state) \in StreamStates
  BY StatesType DEF Streams
<1>2. Replenish(s.recvWindow, size) \in Int
  BY WindowsAssumption DEF Replenish, Streams
<1>3. Keeps(s, CloseWithError(s))
  BY CloseKeeps
<1> QED
  BY <1>1, <1>2, <1>3 DEF ReceiveData, Keeps, Streams

LEMMA ReceiveHeadersKeeps ==
  ASSUME NEW s \in Streams, NEW end \in BOOLEAN, NEW endHeaders \in BOOLEAN
  PROVE  Keeps(s, ReceiveHeaders(s, end, endHeaders))
<1> DEFINE t == [s EXCEPT !.state = AfterIncoming("HEADERS", end, @)]
<1>1. Keeps(s, t)
  BY StatesType DEF Keeps, Streams
<1>2. Keeps(t, CloseWithError(t)) /\ Keeps(s, CloseWithError(s))
  BY <1>1, CloseKeeps DEF Keeps
<1> QED
  BY <1>1, <1>2 DEF ReceiveHeaders, Keeps

LEMMA ReceiveRstStreamKeeps ==
  ASSUME NEW s \in Streams
  PROVE  Keeps(s, ReceiveRstStream(s))
BY StatesType DEF ReceiveRstStream, Keeps, Streams

LEMMA ReceivePushPromiseKeeps ==
  ASSUME NEW s \in Streams, NEW request \in Requests, NEW endHeaders \in BOOLEAN
  PROVE  Keeps(s, ReceivePushPromise(s, request, endHeaders))
<1> DEFINE t == [s EXCEPT !.state = AfterIncoming("PUSH_PROMISE", FALSE, @)]
<1>1. Keeps(s, t)
  BY StatesType DEF Keeps, Streams
<1>2. Keeps(t, CloseWithError(t)) /\ Keeps(s, CloseWithError(s))
  BY <1>1, CloseKeeps DEF Keeps
<1>3. Keeps(s, [t EXCEPT !.request = request])
  BY <1>1 DEF Keeps, Streams
<1> QED
  BY <1>1, <1>2, <1>3 DEF ReceivePushPromise, Keeps

--------------------------------------------------------------------------------
(* Lemmas on the connection                                                 *)

LEMMA KnownStreams ==
  ASSUME TypeOK, NEW id \in Known
  PROVE  streams[id] \in Streams /\ wire[id] \in Wire /\ id \in StreamIds
BY DEF TypeOK, Known

(* A stream looked up is as sound as the known ones, even if it is new.     *)
LEMMA LookedUp ==
  ASSUME IInv, NEW id \in StreamIds
  PROVE  /\ GetOrCreateStream(id) \in Streams
         /\ Recorded(id) \in Wire
         /\ Sound(GetOrCreateStream(id), Recorded(id))
         /\ loop = "running" /\ id \notin toFlush =>
              Blocked(GetOrCreateStream(id), sendWindow)
<1>1. CASE id \in Known
  BY <1>1, KnownStreams DEF IInv, GetOrCreateStream, Recorded
<1>2. CASE id \notin Known
  <2> DEFINE s == New(NoCmd, settings.initialSendWindow)
             w == [Untouched EXCEPT !.credit = settings.initialSendWindow]
  <2>1. settings.initialSendWindow \in Nat
    BY DEF IInv, TypeOK, Settings
  <2>2. s \in Streams /\ s.pending = << >> /\ s.sendWindow = settings.initialSendWindow
    BY <2>1, NewType DEF New
  <2>3. /\ w \in Wire
        /\ w.out = 0 /\ w.body = 0 /\ w.outEnd = FALSE /\ w.opener = "none"
        /\ w.credit = settings.initialSendWindow
    BY <2>1 DEF Wire, Untouched
  <2>4. InOrder(<< >>, 0, 0)
    BY DEF InOrder
  <2> HIDE DEF s, w
  <2>5. Sound(s, w)
    <3>1. s.sendWindow = w.credit - w.out /\ w.out <= w.credit
      BY <2>1, <2>2, <2>3
    <3>2. InOrder(s.pending, w.out, w.body)
      BY <2>2, <2>3, <2>4
    <3>3. w.outEnd <=> w.opener = "client"
      BY <2>3
    <3> QED
      BY <2>2, <3>1, <3>2, <3>3 DEF Sound
  <2>6. Blocked(s, sendWindow)
    BY <2>2 DEF Blocked
  <2> QED
    BY <1>2, <2>2, <2>3, <2>5, <2>6 DEF GetOrCreateStream, Recorded, s, w
<1> QED
  BY <1>1, <1>2

LEMMA CompletedType ==
  ASSUME TypeOK, NEW s \in Streams, NEW n \in Nat
  PROVE  Completed(s, n) \in [Cmds -> Seq(Answers)]
<1>1. Outcome(s) \in Answers
  BY DEF Outcome, Answers
<1>2. [k \in 1 .. n |-> Outcome(s)] \in Seq(Answers)
  BY <1>1
<1>3. result \in [Cmds -> Seq(Answers)] /\ s.cmd \in Cmds \cup {NoCmd}
  BY DEF TypeOK, Streams
<1>4. CASE s.cmd \in Cmds
  <2>1. result[s.cmd] \o [k \in 1 .. n |-> Outcome(s)] \in Seq(Answers)
    BY <1>2, <1>3, <1>4
  <2> QED
    BY <2>1, <1>3, <1>4 DEF Completed
<1> QED
  BY <1>3, <1>4 DEF Completed

(* One stream changes, from whatever it was to the sound stream t, and the  *)
(* connection window does not grow.                                         *)
LEMMA OneStreamChanges ==
  ASSUME IInv, TypeOK',
         NEW id \in StreamIds, NEW t \in Streams, NEW h \in Wire,
         streams' = [streams EXCEPT ![id] = t],
         wire' = [wire EXCEPT ![id] = h],
         Sound(t, h),
         sendWindow' <= sendWindow,
         sendWindow' = total'.credit - total'.sent,
         total'.sent <= total'.credit,
         toFlush' \in {toFlush, toFlush \ {id}},
         promisedStreamCache' \subseteq promisedStreamCache \cup {id},
         loop' = "running" =>
           loop = "running" /\ (id \notin toFlush' => Blocked(t, sendWindow'))
  PROVE  IInv'
<1>1. t # NoStream
  BY StreamAssumption
<1>2. Known' = Known \cup {id}
  BY <1>1 DEF Known, IInv, TypeOK
<1>3. toFlush' \subseteq Known' /\ promisedStreamCache' \subseteq Known'
  BY <1>2 DEF IInv
<1>4. \A i \in Known' : i # id => i \in Known /\ streams'[i] = streams[i] /\ wire'[i] = wire[i]
  BY <1>2 DEF IInv, TypeOK, Known
<1>5. streams'[id] = t /\ wire'[id] = h
  BY DEF IInv, TypeOK
<1>6. \A i \in Known' : Sound(streams'[i], wire'[i])
  BY <1>4, <1>5 DEF IInv
<1>7. ASSUME loop' = "running", NEW i \in Known' \ toFlush'
      PROVE  Blocked(streams'[i], sendWindow')
  <2>1. CASE i = id
    BY <2>1, <1>5, <1>7
  <2>2. CASE i # id
    <3>1. i \in Known \ toFlush /\ streams'[i] = streams[i]
      BY <2>2, <1>4, <1>7
    <3>2. Blocked(streams[i], sendWindow)
      BY <3>1, <1>7 DEF IInv
    <3>3. Bytes(streams[i], 1) \in Int \/ streams[i].pending = << >>
      <4> SUFFICES ASSUME streams[i].pending # << >>
                   PROVE  Bytes(streams[i], 1) \in Int
        OBVIOUS
      <4>1. streams[i] \in Streams /\ wire[i] \in Wire /\ Sound(streams[i], wire[i])
        BY <3>1, KnownStreams DEF IInv
      <4>2. 1 \in 0 .. Len(streams[i].pending)
        BY <4>1 DEF Streams
      <4> QED
        BY <4>1, <4>2, BytesType DEF Sound, Wire
    <3>4. sendWindow \in Int /\ sendWindow' \in Int
      BY DEF IInv, TypeOK
    <3> QED
      BY <3>1, <3>2, <3>3, <3>4 DEF Blocked, WindowIsEnough
  <2> QED
    BY <2>1, <2>2
<1> QED
  BY <1>3, <1>6, <1>7 DEF IInv

(* Two histories agree on what the stream sent and may send.                *)
SameUpload(w, h) ==
  /\ h.out = w.out /\ h.body = w.body /\ h.credit = w.credit
  /\ h.outEnd = w.outEnd
  /\ h.opener = "client" <=> w.opener = "client"

(* A frame, or a claimed promise, that sends no DATA.                       *)
LEMMA QuietStep ==
  ASSUME IInv, Ready,
         NEW id \in StreamIds, NEW t, NEW h \in Wire,
         Keeps(GetOrCreateStream(id), t),
         SameUpload(Recorded(id), h),
         streams' = [streams EXCEPT ![id] = t],
         wire' = [wire EXCEPT ![id] = h],
         promisedStreamCache' \subseteq promisedStreamCache \cup {id},
         recvWindow' \in Int,
         result' \in [Cmds -> Seq(Answers)],
         fresh' \subseteq Cmds,
         UNCHANGED <<sendWindow, settings, loop, toFlush, total>>
  PROVE  IInv'
<1> DEFINE s == GetOrCreateStream(id)
           w == Recorded(id)
<1>1. s \in Streams /\ w \in Wire /\ Sound(s, w) /\ Blocked(s, sendWindow)
  BY LookedUp DEF Ready
<1>2. t \in Streams /\ t.pending = s.pending /\ t.sendWindow = s.sendWindow
  BY DEF Keeps
<1> HIDE DEF s, w
<1>3. Sound(t, h)
  <2>1. h.out = w.out /\ h.body = w.body /\ h.credit = w.credit
    BY DEF SameUpload, w
  <2>2. h.outEnd = w.outEnd /\ (h.opener = "client" <=> w.opener = "client")
    BY DEF SameUpload, w
  <2>3. s.pending = << >> => (h.outEnd <=> h.opener = "client")
    BY <1>1, <2>2 DEF Sound
  <2>4. s.pending # << >> => ~h.outEnd /\ h.opener = "client"
    BY <1>1, <2>2 DEF Sound
  <2> QED
    BY <1>1, <1>2, <2>1, <2>3, <2>4 DEF Sound
<1>4. Blocked(t, sendWindow)
  BY <1>1, <1>2 DEF Blocked, WindowIsEnough, Bytes
<1>5. TypeOK'
  <2>1. streams' \in [StreamIds -> Streams \cup {NoStream}] /\ wire' \in [StreamIds -> Wire]
    BY <1>2 DEF IInv, TypeOK
  <2>2. promisedStreamCache' \subseteq StreamIds
    BY DEF IInv, TypeOK
  <2> QED
    BY <2>1, <2>2 DEF IInv, TypeOK
<1>6. /\ sendWindow' = sendWindow
      /\ sendWindow' <= sendWindow
      /\ sendWindow' = total'.credit - total'.sent
      /\ total'.sent <= total'.credit
  BY DEF IInv, TypeOK
<1>7. /\ toFlush' \in {toFlush, toFlush \ {id}}
      /\ loop' = "running" =>
           loop = "running" /\ (id \notin toFlush' => Blocked(t, sendWindow'))
  BY <1>4, <1>6
<1> QED
  BY <1>2, <1>3, <1>5, <1>6, <1>7, OneStreamChanges

LEMMA RecordedAfterType ==
  ASSUME IInv, NEW id \in StreamIds, NEW t \in Streams,
         NEW end \in BOOLEAN, NEW rst \in BOOLEAN
  PROVE  /\ RecordedAfter(id, t, end, rst) \in Wire
         /\ SameUpload(Recorded(id), RecordedAfter(id, t, end, rst))
         /\ RecordedAfter(id, t, end, rst).opener = Recorded(id).opener
<1>1. Recorded(id) \in Wire /\ GetOrCreateStream(id) \in Streams
  BY LookedUp
<1> DEFINE w == Recorded(id)
           inEnd == w.inEnd \/ end
           inRst == w.inRst \/ rst
           outRst == w.outRst \/ (~rst /\ t.err /\ ~GetOrCreateStream(id).err)
<1>2. inEnd \in BOOLEAN /\ inRst \in BOOLEAN /\ outRst \in BOOLEAN
  OBVIOUS
<1>3. RecordedAfter(id, t, end, rst) =
        [w EXCEPT !.inEnd = inEnd, !.inRst = inRst, !.outRst = outRst]
  BY DEF RecordedAfter
<1> HIDE DEF inEnd, inRst, outRst
<1> QED
  BY <1>1, <1>2, <1>3 DEF Wire, SameUpload

(* The frames that reach a stream through Received are quiet.               *)
LEMMA ReceivedStep ==
  ASSUME IInv, Ready,
         NEW id \in StreamIds, NEW t, NEW h \in Wire, NEW times \in Nat,
         Keeps(GetOrCreateStream(id), t),
         SameUpload(Recorded(id), h),
         Received(id, t, times),
         wire' = [wire EXCEPT ![id] = h],
         promisedStreamCache' \subseteq promisedStreamCache \cup {id},
         recvWindow' \in Int,
         UNCHANGED <<sendWindow, settings, fresh, loop, toFlush, total>>
  PROVE  IInv'
<1>1. Completed(t, times) \in [Cmds -> Seq(Answers)]
  BY CompletedType DEF IInv, Keeps
<1>2. result' \in [Cmds -> Seq(Answers)] /\ fresh' \subseteq Cmds
  BY <1>1 DEF Received, IInv, TypeOK
<1>3. streams' = [streams EXCEPT ![id] = t]
  BY DEF Received
<1> QED
  BY <1>2, <1>3, QuietStep

(* Postponed frames that go out are the longest prefix the windows take.    *)
LEMMA SendPendingStep ==
  ASSUME IInv,
         NEW id \in StreamIds, NEW s \in Streams, NEW h \in Wire,
         NEW n \in 0 .. Len(s.pending), NEW completes \in BOOLEAN,
         loop = "running",
         Sound(s, h),
         Flushes(s, n, sendWindow),
         SendPending(id, s, h, n, completes),
         toFlush' \in {toFlush, toFlush \ {id}},
         fresh' \subseteq Cmds,
         UNCHANGED <<promisedStreamCache, recvWindow, settings>>
  PROVE  IInv'
<1>1. CASE Panics(s, n)
  <2>1. /\ loop' = "panicked"
        /\ UNCHANGED <<streams, sendWindow, result, wire, total>>
    BY <1>1 DEF SendPending
  <2> QED
    BY <2>1 DEF IInv, TypeOK, Known
<1>2. CASE ~Panics(s, n)
  <2> DEFINE t == Sent(s, n)
             b == Bytes(s, n)
             outEnd == h.outEnd \/ (n > 0 /\ s.pending[n].end)
             late == h.late \/ (h.inEnd /\ ~completes /\ n > 0 /\ s.pending[n].end)
             g == [h EXCEPT !.out = @ + b, !.outEnd = outEnd, !.late = late]
  <2>1. /\ streams' = [streams EXCEPT ![id] = t]
        /\ sendWindow' = sendWindow - b
        /\ result' \in {result, Completed(s, 1)}
        /\ wire' = [wire EXCEPT ![id] = g]
        /\ total' = [total EXCEPT !.sent = @ + b]
        /\ loop' = loop
    BY <1>2 DEF SendPending, Completed, Outcome, Sent
  <2>2. h.out \in Nat /\ h.body \in Nat /\ h.credit \in Nat /\ h.outEnd \in BOOLEAN
    BY DEF Wire
  <2>3. InOrder(s.pending, h.out, h.body)
    BY DEF Sound
  <2>4. b \in Nat
    BY <2>2, <2>3, BytesType
  <2>5. /\ t \in Streams
        /\ InOrder(t.pending, h.out + b, h.body)
        /\ t.sendWindow = s.sendWindow - b
        /\ t.pending = << >> <=> n = Len(s.pending)
        /\ n > 0 => (s.pending[n].end <=> n = Len(s.pending))
    BY <2>2, <2>3, SentInOrder
  <2>6. b <= s.sendWindow \/ b = 0
    BY <2>4 DEF Flushes, WindowIsEnough, Bytes, Streams
  <2>7. b <= sendWindow \/ b = 0
    BY <2>4 DEF Flushes, WindowIsEnough, Bytes, IInv, TypeOK
  <2>8. s.pending \in Seq(Chunk) /\ s.sendWindow \in Int /\ sendWindow \in Int
    BY DEF Streams, IInv, TypeOK
  <2>9. outEnd \in BOOLEAN /\ late \in BOOLEAN
    OBVIOUS
  <2>10. s.pending # << >> /\ n = Len(s.pending) => n > 0 /\ s.pending[n].end
    BY <2>5, <2>8
  <2>11. Sound(t, g)
    <3>1. g.out = h.out + b /\ g.body = h.body /\ g.credit = h.credit
          /\ g.outEnd = outEnd /\ g.opener = h.opener
      BY <2>2, <2>9 DEF Wire
    <3>2. t.pending # << >> => ~outEnd /\ h.opener = "client"
      <4> SUFFICES ASSUME t.pending # << >> PROVE ~outEnd /\ h.opener = "client"
        OBVIOUS
      <4>1. n # Len(s.pending) /\ s.pending # << >>
        BY <2>5, <2>8
      <4> QED
        BY <4>1, <2>5 DEF Sound
    <3>3. t.pending = << >> => (outEnd <=> h.opener = "client")
      <4> SUFFICES ASSUME t.pending = << >> PROVE outEnd <=> h.opener = "client"
        OBVIOUS
      <4>1. CASE s.pending = << >>
        BY <4>1, <2>5, <2>8 DEF Sound
      <4>2. CASE s.pending # << >>
        BY <4>2, <2>5, <2>10 DEF Sound
      <4> QED
        BY <4>1, <4>2
    <3>4. g.out <= g.credit
      BY <3>1, <2>2, <2>4, <2>6, <2>8 DEF Sound
    <3>5. t.sendWindow = g.credit - g.out
      BY <3>1, <2>2, <2>4, <2>5, <2>8 DEF Sound
    <3>6. InOrder(t.pending, g.out, g.body)
      BY <3>1, <2>5
    <3> HIDE DEF outEnd, late, t, g
    <3>7. t.pending = << >> => (g.outEnd <=> g.opener = "client")
      BY <3>1, <3>3
    <3>8. t.pending # << >> => ~g.outEnd /\ g.opener = "client"
      BY <3>1, <3>2
    <3> QED
      BY <3>4, <3>5, <3>6, <3>7, <3>8 DEF Sound
  <2>12. g \in Wire
    <3> HIDE DEF outEnd, late, b
    <3> DEFINE out == h.out + b
    <3>1. out \in Nat
      BY <2>2, <2>4
    <3> HIDE DEF out
    <3>2. [h EXCEPT !.out = out, !.outEnd = outEnd, !.late = late] \in Wire
      BY <3>1, <2>9 DEF Wire
    <3> QED
      BY <3>2 DEF out
  <2>13. Blocked(t, sendWindow - b)
    <3> SUFFICES ASSUME t.pending # << >>
                 PROVE  ~WindowIsEnough(t, 1, sendWindow - b)
      BY DEF Blocked
    <3>1. n + 1 \in 1 .. Len(s.pending) /\ n < Len(s.pending)
      BY <2>5, <2>8
    <3>2. ~(s.sendWindow > Bytes(s, n + 1) /\ sendWindow > Bytes(s, n + 1))
      BY <3>1 DEF Flushes, WindowIsEnough
    <3>3. /\ Bytes(s, n + 1) \in Nat
          /\ h.out + Bytes(s, n + 1) = s.pending[n + 1].to
      BY <3>1, <2>2, <2>3, BytesType
    <3>4. /\ 1 \in 1 .. Len(t.pending)
          /\ t.pending[1] = s.pending[n + 1]
      BY <3>1, <2>8 DEF Sent
    <3>5. t.pending[1].from = h.out + b
      BY <2>5 DEF InOrder
    <3>6. Bytes(t, 1) = t.pending[1].to - t.pending[1].from
      BY DEF Bytes
    <3> HIDE DEF t, b
    <3>7. t.pending[1].to \in Nat
      <4>1. s.pending[n + 1] \in Chunk
        BY <3>1, <2>8
      <4> QED
        BY <4>1, <3>4 DEF Chunk
    <3>8. Bytes(t, 1) = Bytes(s, n + 1) - b
      BY <3>3, <3>4, <3>5, <3>6, <3>7, <2>2, <2>4
    <3> QED
      BY <3>2, <3>3, <3>8, <2>4, <2>5, <2>8 DEF WindowIsEnough
  <2>14. TypeOK'
    <3>1. Completed(s, 1) \in [Cmds -> Seq(Answers)]
      BY CompletedType DEF IInv
    <3>2. total' \in [credit : Nat, sent : Nat]
      <4> HIDE DEF b
      <4> QED
        BY <2>1, <2>4 DEF IInv, TypeOK
    <3>3. sendWindow' \in Int
      BY <2>1, <2>4, <2>8
    <3>4. streams' \in [StreamIds -> Streams \cup {NoStream}] /\ wire' \in [StreamIds -> Wire]
      BY <2>1, <2>5, <2>12 DEF IInv, TypeOK
    <3>5. result' \in [Cmds -> Seq(Answers)]
      BY <2>1, <3>1 DEF IInv, TypeOK
    <3> QED
      BY <2>1, <3>2, <3>3, <3>4, <3>5 DEF IInv, TypeOK
  <2>15. /\ sendWindow' <= sendWindow
         /\ sendWindow' = total'.credit - total'.sent
         /\ total'.sent <= total'.credit
    <3>1. total \in [credit : Nat, sent : Nat] /\ sendWindow = total.credit - total.sent
          /\ total.sent <= total.credit
      BY DEF IInv, TypeOK
    <3>2. total'.credit = total.credit /\ total'.sent = total.sent + b
      BY <2>1, <3>1
    <3> HIDE DEF b
    <3> QED
      BY <2>1, <2>4, <2>7, <2>8, <3>1, <3>2
  <2>16. loop' = "running" =>
           loop = "running" /\ (id \notin toFlush' => Blocked(t, sendWindow'))
    BY <2>1, <2>13
  <2> HIDE DEF t, g
  <2> QED
    BY <2>1, <2>5, <2>11, <2>12, <2>14, <2>15, <2>16, OneStreamChanges
<1> QED
  BY <1>1, <1>2

--------------------------------------------------------------------------------
(* The steps                                                                *)

LEMMA InitIInv == Init => IInv
<1> SUFFICES ASSUME Init PROVE IInv
  OBVIOUS
<1>1. Known = {}
  BY DEF Init, Known
<1>2. /\ settings \in Settings
      /\ wire \in [StreamIds -> Wire]
      /\ total \in [credit : Nat, sent : Nat]
      /\ sendWindow \in Int
      /\ recvWindow \in Int
  BY WindowsAssumption, NumbersAssumption DEF Init, Settings, Wire, Untouched
<1>3. result \in [Cmds -> Seq(Answers)]
  BY DEF Init
<1>4. sendWindow = total.credit - total.sent /\ total.sent <= total.credit
  BY WindowsAssumption DEF Init
<1>5. TypeOK
  BY <1>2, <1>3 DEF Init, TypeOK
<1> QED
  BY <1>1, <1>4, <1>5 DEF Init, IInv

LEMMA ClaimPushPromiseStep ==
  ASSUME IInv, NEW c \in Cmds, NEW path \in Paths, NEW id \in StreamIds,
         ClaimPushPromise(c, path, id)
  PROVE  IInv'
<1> DEFINE s == [streams[id] EXCEPT !.cmd = c]
<1>1. id \in Known /\ Ready
  BY DEF ClaimPushPromise, PushPromises, IInv
<1>2. streams[id] \in Streams /\ wire[id] \in Wire
  BY <1>1, KnownStreams DEF IInv
<1>3. GetOrCreateStream(id) = streams[id] /\ Recorded(id) = wire[id]
  BY <1>1 DEF GetOrCreateStream, Recorded
<1>4. s \in Streams /\ Keeps(streams[id], s) /\ Keeps(streams[id], streams[id])
  BY <1>2 DEF Streams, Keeps
<1>5. wire' = [wire EXCEPT ![id] = wire[id]] /\ SameUpload(wire[id], wire[id])
  BY DEF ClaimPushPromise, SameUpload, IInv, TypeOK
<1>6. /\ promisedStreamCache' \subseteq promisedStreamCache \cup {id}
      /\ recvWindow' \in Int
      /\ fresh' \subseteq Cmds
      /\ UNCHANGED <<sendWindow, settings, loop, toFlush, total>>
  BY DEF ClaimPushPromise, IInv, TypeOK
<1>7. CASE streams[id].cmd = NoCmd
  <2>1. streams' = [streams EXCEPT ![id] = s]
    BY <1>7 DEF ClaimPushPromise
  <2>2. result' \in {Completed(s, 1), result}
    BY <1>7 DEF ClaimPushPromise
  <2>3. Completed(s, 1) \in [Cmds -> Seq(Answers)]
    BY <1>4, CompletedType DEF IInv
  <2>4. result' \in [Cmds -> Seq(Answers)]
    BY <2>2, <2>3 DEF IInv, TypeOK
  <2> HIDE DEF s
  <2> QED
    BY <2>1, <2>4, <1>1, <1>2, <1>3, <1>4, <1>5, <1>6, QuietStep
<1>8. CASE streams[id].cmd # NoCmd
  <2>1. streams' = [streams EXCEPT ![id] = streams[id]]
    BY <1>8 DEF ClaimPushPromise, IInv, TypeOK
  <2>2. result' = [result EXCEPT ![c] = Append(@, "error")]
    BY <1>8 DEF ClaimPushPromise
  <2>3. result' \in [Cmds -> Seq(Answers)]
    BY <2>2 DEF IInv, TypeOK, Answers
  <2> QED
    BY <2>1, <2>3, <1>1, <1>2, <1>3, <1>4, <1>5, <1>6, QuietStep
<1> QED
  BY <1>7, <1>8

(* The stream of a new request, before any DATA frame went out.             *)
LEMMA RequestOpens ==
  ASSUME IInv, NEW c \in Cmds, NEW request \in Requests, NEW body \in BodySizes \cup {0}
  PROVE  LET s == [SentHeaders(New(c, settings.initialSendWindow), request, body = 0)
                     EXCEPT !.pending = Chunks(body, settings.serverFrameSize)]
             h == [Untouched EXCEPT !.opener = "client",
                                    !.body   = body,
                                    !.credit = settings.initialSendWindow,
                                    !.outEnd = body = 0]
         IN  /\ s \in Streams
             /\ s.cmd = c /\ s.err = FALSE
             /\ s.state = IF body = 0 THEN HALF_CLOSED_LOCAL ELSE OPEN
             /\ s.pending = << >> <=> body = 0
             /\ h \in Wire
             /\ h.opener = "client" /\ h.body = body
             /\ h.outEnd <=> body = 0
             /\ ~h.outRst /\ ~h.inEnd /\ ~h.inRst
             /\ Sound(s, h)
<1> DEFINE window == settings.initialSendWindow
           idle == New(c, window)
           opened == SentHeaders(idle, request, body = 0)
           chunks == Chunks(body, settings.serverFrameSize)
           s == [opened EXCEPT !.pending = chunks]
           h == [Untouched EXCEPT !.opener = "client", !.body = body,
                                  !.credit = window, !.outEnd = body = 0]
<1>1. body \in Nat /\ window \in Nat /\ settings.serverFrameSize \in Nat \ {0}
  BY NumbersAssumption DEF IInv, TypeOK, Settings
<1>2. /\ chunks \in Seq(Chunk)
      /\ InOrder(chunks, 0, body)
      /\ chunks = << >> <=> body = 0
  BY <1>1, ChunksInOrder
<1>3. /\ idle \in Streams /\ idle.sendWindow = window
      /\ idle.cmd = c /\ idle.err = FALSE /\ idle.state = IDLE
  BY <1>1, NewType DEF New
<1>4. /\ opened \in Streams /\ opened.sendWindow = window
      /\ opened.cmd = c /\ opened.err = FALSE
      /\ opened.state = AfterOutgoing("HEADERS", body = 0, IDLE)
  <2>1. AfterOutgoing("HEADERS", body = 0, idle.state) \in StreamStates
    BY <1>3, StatesType DEF Streams
  <2> HIDE DEF idle, window
  <2> QED
    BY <2>1, <1>3 DEF SentHeaders, Streams
<1>5. opened.state = IF body = 0 THEN HALF_CLOSED_LOCAL ELSE OPEN
  <2>1. /\ AfterOutgoing("HEADERS", TRUE, IDLE) = HALF_CLOSED_LOCAL
        /\ AfterOutgoing("HEADERS", FALSE, IDLE) = OPEN
    BY DEF AfterOutgoing, LocalEnd, IDLE, OPEN, HALF_CLOSED_LOCAL, HALF_CLOSED_REMOTE, CLOSED
  <2>2. CASE body = 0
    <3>1. (body = 0) = TRUE
      BY <2>2
    <3> HIDE DEF opened
    <3> QED
      BY <1>4, <2>1, <2>2, <3>1
  <2>3. CASE body # 0
    <3>1. (body = 0) = FALSE
      BY <2>3
    <3> HIDE DEF opened
    <3> QED
      BY <1>4, <2>1, <2>3, <3>1
  <2> QED
    BY <2>2, <2>3
<1>6. /\ s \in Streams /\ s.pending = chunks /\ s.sendWindow = window
      /\ s.cmd = c /\ s.err = FALSE /\ s.state = opened.state
  <2> HIDE DEF opened, chunks, window
  <2> QED
    BY <1>2, <1>4 DEF Streams
<1>7. /\ h \in Wire
      /\ h.out = 0 /\ h.body = body /\ h.credit = window
      /\ h.opener = "client"
      /\ h.outEnd <=> body = 0
      /\ ~h.outRst /\ ~h.inEnd /\ ~h.inRst
  <2> DEFINE done == body = 0
  <2>1. done \in BOOLEAN
    OBVIOUS
  <2> HIDE DEF done, window
  <2>2. LET g == [Untouched EXCEPT !.opener = "client", !.body = body,
                                   !.credit = window, !.outEnd = done]
        IN  /\ g \in Wire
            /\ g.out = 0 /\ g.body = body /\ g.credit = window
            /\ g.opener = "client"
            /\ g.outEnd = done
            /\ ~g.outRst /\ ~g.inEnd /\ ~g.inRst
    BY <1>1, <2>1 DEF Untouched, Wire
  <2> QED
    BY <2>2 DEF done
<1> HIDE DEF s, h, chunks, window, opened, idle
<1>8. Sound(s, h)
  <2>1. InOrder(s.pending, h.out, h.body)
    BY <1>2, <1>6, <1>7
  <2>2. s.pending = << >> => (h.outEnd <=> h.opener = "client")
    BY <1>2, <1>6, <1>7
  <2>3. s.pending # << >> => ~h.outEnd /\ h.opener = "client"
    BY <1>2, <1>6, <1>7
  <2>4. s.sendWindow = h.credit - h.out /\ h.out <= h.credit
    BY <1>1, <1>6, <1>7
  <2> QED
    BY <2>1, <2>2, <2>3, <2>4 DEF Sound
<1> QED
  BY <1>2, <1>5, <1>6, <1>7, <1>8 DEF s, h, chunks, window, opened, idle

LEMMA DoRequestStep ==
  ASSUME IInv, NEW c \in Cmds, NEW request \in Requests,
         NEW body \in BodySizes \cup {0}, NEW id \in StreamIds,
         DoRequest(c, request, body, id)
  PROVE  IInv'
<1> DEFINE s == [SentHeaders(New(c, settings.initialSendWindow), request, body = 0)
                   EXCEPT !.pending = Chunks(body, settings.serverFrameSize)]
           h == [Untouched EXCEPT !.opener = "client",
                                  !.body   = body,
                                  !.credit = settings.initialSendWindow,
                                  !.outEnd = body = 0]
<1>1. PICK n \in 0 .. Len(s.pending) :
        Flushes(s, n, sendWindow) /\ SendPending(id, s, h, n, TRUE)
  BY DEF DoRequest
<1>2. /\ loop = "running"
      /\ toFlush' \in {toFlush, toFlush \ {id}}
      /\ fresh' \subseteq Cmds
      /\ UNCHANGED <<promisedStreamCache, recvWindow, settings>>
  BY DEF DoRequest, Ready, IInv, TypeOK
<1>3. s \in Streams /\ h \in Wire /\ Sound(s, h)
  BY RequestOpens
<1> HIDE DEF s, h
<1> QED
  BY <1>1, <1>2, <1>3, SendPendingStep

LEMMA HandleSettingsStep ==
  ASSUME IInv, NEW frameSize \in Nat \ {0}, NEW window \in Nat,
         HandleSettings(frameSize, window)
  PROVE  IInv'
<1>1. settings' \in Settings
  BY DEF HandleSettings, Settings
<1>2. UNCHANGED <<streams, promisedStreamCache, sendWindow, recvWindow, fresh,
                  result, loop, toFlush, wire, total>>
  BY DEF HandleSettings
<1> QED
  BY <1>1, <1>2 DEF IInv, TypeOK, Known

LEMMA HandleWindowUpdateStep ==
  ASSUME IInv, NEW increment \in Nat, HandleWindowUpdate(increment)
  PROVE  IInv'
<1>1. /\ sendWindow' = sendWindow + increment
      /\ total' = [total EXCEPT !.credit = @ + increment]
      /\ toFlush' = {id \in Known : streams[id].pending # << >>}
      /\ UNCHANGED <<streams, promisedStreamCache, recvWindow, settings, fresh,
                     result, loop, wire>>
  BY DEF HandleWindowUpdate
<1>2. /\ total \in [credit : Nat, sent : Nat]
      /\ sendWindow \in Int
      /\ sendWindow = total.credit - total.sent
      /\ total.sent <= total.credit
  BY DEF IInv, TypeOK
<1>3. total' \in [credit : Nat, sent : Nat]
  <2> DEFINE credit == total.credit + increment
  <2>1. credit \in Nat
    BY <1>2
  <2> HIDE DEF credit
  <2>2. [total EXCEPT !.credit = credit] \in [credit : Nat, sent : Nat]
    BY <2>1, <1>2
  <2> QED
    BY <2>2, <1>1 DEF credit
<1>4. total'.credit = total.credit + increment /\ total'.sent = total.sent
  BY <1>1, <1>2
<1>5. /\ sendWindow' \in Int
      /\ sendWindow' = total'.credit - total'.sent
      /\ total'.sent <= total'.credit
  BY <1>1, <1>2, <1>4
<1>6. Known' = Known
  BY <1>1 DEF Known
<1>7. TypeOK'
  BY <1>1, <1>3, <1>5 DEF IInv, TypeOK, Known
<1>8. \A id \in Known' \ toFlush' : Blocked(streams'[id], sendWindow')
  BY <1>1, <1>6 DEF Blocked
<1>9. /\ toFlush' \subseteq Known'
       /\ promisedStreamCache' \subseteq Known'
       /\ \A id \in Known' : Sound(streams'[id], wire'[id])
  BY <1>1, <1>6 DEF IInv
<1> QED
  BY <1>5, <1>7, <1>8, <1>9 DEF IInv

LEMMA FlushNextStep ==
  ASSUME IInv, NEW id \in toFlush, FlushNext(id)
  PROVE  IInv'
<1>1. id \in Known
  BY DEF IInv
<1>2. streams[id] \in Streams /\ wire[id] \in Wire /\ id \in StreamIds
      /\ Sound(streams[id], wire[id])
  BY <1>1, KnownStreams DEF IInv
<1>3. PICK n \in 0 .. Len(streams[id].pending) :
        /\ Flushes(streams[id], n, sendWindow)
        /\ SendPending(id, streams[id], wire[id], n, FALSE)
  BY DEF FlushNext
<1>4. /\ loop = "running"
      /\ toFlush' \in {toFlush, toFlush \ {id}}
      /\ fresh' \subseteq Cmds
      /\ UNCHANGED <<promisedStreamCache, recvWindow, settings>>
  BY DEF FlushNext, IInv, TypeOK
<1> QED
  BY <1>2, <1>3, <1>4, SendPendingStep

(* A stream that got a WINDOW_UPDATE, before any DATA frame went out.       *)
LEMMA WindowOpens ==
  ASSUME IInv, NEW id \in StreamIds, NEW increment \in Nat
  PROVE  LET r == GetOrCreateStream(id)
             w == Recorded(id)
             s == ReceiveWindowUpdate(r, increment)
             h == [w EXCEPT !.credit = @ + increment]
         IN  /\ s \in Streams
             /\ s.state = r.state /\ s.cmd = r.cmd /\ s.err = r.err
             /\ h \in Wire
             /\ h.opener = w.opener /\ h.body = w.body
             /\ h.outEnd = w.outEnd /\ h.outRst = w.outRst
             /\ h.inEnd = w.inEnd /\ h.inRst = w.inRst /\ h.late = w.late
             /\ Sound(s, h)
<1> DEFINE r == GetOrCreateStream(id)
           w == Recorded(id)
           s == ReceiveWindowUpdate(r, increment)
           h == [w EXCEPT !.credit = @ + increment]
<1>1. r \in Streams /\ w \in Wire /\ Sound(r, w)
  BY LookedUp
<1> HIDE DEF r, w
<1>2. /\ r.sendWindow \in Int
      /\ w.credit \in Nat /\ w.out \in Nat
  BY <1>1 DEF Streams, Wire
<1>3. /\ s \in Streams /\ s.pending = r.pending /\ s.sendWindow = r.sendWindow + increment
      /\ s.state = r.state /\ s.cmd = r.cmd /\ s.err = r.err
  <2> DEFINE window == r.sendWindow + increment
  <2>1. window \in Int
    BY <1>2
  <2>2. s = [r EXCEPT !.sendWindow = window]
    BY DEF ReceiveWindowUpdate
  <2> HIDE DEF window, s
  <2>3. /\ s \in Streams /\ s.pending = r.pending /\ s.sendWindow = window
        /\ s.state = r.state /\ s.cmd = r.cmd /\ s.err = r.err
    BY <2>1, <2>2, <1>1 DEF Streams
  <2> QED
    BY <2>3 DEF window
<1>4. /\ h \in Wire /\ h.credit = w.credit + increment /\ h.out = w.out
      /\ h.opener = w.opener /\ h.body = w.body
      /\ h.outEnd = w.outEnd /\ h.outRst = w.outRst
      /\ h.inEnd = w.inEnd /\ h.inRst = w.inRst /\ h.late = w.late
  <2> DEFINE credit == w.credit + increment
  <2>1. credit \in Nat
    BY <1>2
  <2>2. h = [w EXCEPT !.credit = credit]
    OBVIOUS
  <2> HIDE DEF credit, h
  <2>3. /\ h \in Wire /\ h.credit = credit /\ h.out = w.out
        /\ h.opener = w.opener /\ h.body = w.body
        /\ h.outEnd = w.outEnd /\ h.outRst = w.outRst
        /\ h.inEnd = w.inEnd /\ h.inRst = w.inRst /\ h.late = w.late
    BY <2>1, <2>2, <1>1 DEF Wire
  <2> QED
    BY <2>3 DEF credit
<1> HIDE DEF s, h
<1>5. Sound(s, h)
  <2>1. InOrder(s.pending, h.out, h.body)
    BY <1>1, <1>3, <1>4 DEF Sound
  <2>2. /\ s.pending = << >> => (h.outEnd <=> h.opener = "client")
        /\ s.pending # << >> => ~h.outEnd /\ h.opener = "client"
    BY <1>1, <1>3, <1>4 DEF Sound
  <2>3. s.sendWindow = h.credit - h.out /\ h.out <= h.credit
    BY <1>1, <1>2, <1>3, <1>4 DEF Sound
  <2> QED
    BY <2>1, <2>2, <2>3 DEF Sound
<1> QED
  BY <1>3, <1>4, <1>5 DEF r, w, s, h

LEMMA HandleStreamWindowUpdateStep ==
  ASSUME IInv, NEW id \in StreamIds, NEW increment \in Nat,
         HandleStreamWindowUpdate(id, increment)
  PROVE  IInv'
<1> DEFINE s == ReceiveWindowUpdate(GetOrCreateStream(id), increment)
           h == [Recorded(id) EXCEPT !.credit = @ + increment]
<1>1. PICK n \in 0 .. Len(s.pending) :
        Flushes(s, n, sendWindow) /\ SendPending(id, s, h, n, TRUE)
  BY DEF HandleStreamWindowUpdate
<1>2. /\ loop = "running"
      /\ toFlush' \in {toFlush, toFlush \ {id}}
      /\ fresh' \subseteq Cmds
      /\ UNCHANGED <<promisedStreamCache, recvWindow, settings>>
  BY DEF HandleStreamWindowUpdate, Ready, IInv, TypeOK
<1>3. s \in Streams /\ h \in Wire /\ Sound(s, h)
  BY WindowOpens
<1> HIDE DEF s, h
<1> QED
  BY <1>1, <1>2, <1>3, SendPendingStep

LEMMA HandleDataStep ==
  ASSUME IInv, NEW id \in StreamIds, NEW size \in Nat, NEW end \in BOOLEAN,
         HandleData(id, size, end)
  PROVE  IInv'
<1> DEFINE s == GetOrCreateStream(id)
           t == ReceiveData(s, size, end)
           h == RecordedAfter(id, t, end, FALSE)
<1>1. s \in Streams
  BY LookedUp
<1>2. Keeps(s, t)
  BY <1>1, ReceiveDataKeeps
<1>3. h \in Wire /\ SameUpload(Recorded(id), h)
  BY <1>2, RecordedAfterType DEF Keeps
<1>4. recvWindow' \in Int
  BY WindowsAssumption DEF HandleData, Replenish, IInv, TypeOK
<1>5. /\ Ready
      /\ Received(id, t, 1)
      /\ wire' = [wire EXCEPT ![id] = h]
      /\ promisedStreamCache' \subseteq promisedStreamCache \cup {id}
      /\ UNCHANGED <<sendWindow, settings, fresh, loop, toFlush, total>>
  BY DEF HandleData
<1> HIDE DEF t, h
<1> QED
  BY <1>2, <1>3, <1>4, <1>5, ReceivedStep

LEMMA HandleHeadersStep ==
  ASSUME IInv, NEW id \in StreamIds, NEW end \in BOOLEAN, NEW endHeaders \in BOOLEAN,
         HandleHeaders(id, end, endHeaders)
  PROVE  IInv'
<1> DEFINE s == GetOrCreateStream(id)
           t == ReceiveHeaders(s, end, endHeaders)
           h == RecordedAfter(id, t, end, FALSE)
           refused == ~endHeaders /\ s.state \in AcceptedIn("HEADERS") /\ t.err
           times == IF refused THEN 2 ELSE 1
<1>1. s \in Streams
  BY LookedUp
<1>2. Keeps(s, t)
  BY <1>1, ReceiveHeadersKeeps
<1>3. h \in Wire /\ SameUpload(Recorded(id), h)
  BY <1>2, RecordedAfterType DEF Keeps
<1>4. /\ Ready
      /\ Received(id, t, times)
      /\ wire' = [wire EXCEPT ![id] = h]
      /\ promisedStreamCache' \subseteq promisedStreamCache \cup {id}
      /\ recvWindow' \in Int
      /\ UNCHANGED <<sendWindow, settings, fresh, loop, toFlush, total>>
  BY DEF HandleHeaders, IInv, TypeOK
<1>5. times \in Nat
  OBVIOUS
<1> HIDE DEF t, h, times
<1> QED
  BY <1>2, <1>3, <1>4, <1>5, ReceivedStep

LEMMA HandleRstStreamStep ==
  ASSUME IInv, NEW id \in StreamIds, HandleRstStream(id)
  PROVE  IInv'
<1> DEFINE s == GetOrCreateStream(id)
           t == IF s.state = IDLE THEN s ELSE ReceiveRstStream(s)
           h == RecordedAfter(id, t, FALSE, TRUE)
<1>1. s \in Streams
  BY LookedUp
<1>2. Keeps(s, t)
  BY <1>1, ReceiveRstStreamKeeps DEF Keeps
<1>3. h \in Wire /\ SameUpload(Recorded(id), h)
  BY <1>2, RecordedAfterType DEF Keeps
<1>4. /\ Ready
      /\ Received(id, t, 1)
      /\ wire' = [wire EXCEPT ![id] = h]
      /\ promisedStreamCache' \subseteq promisedStreamCache \cup {id}
      /\ recvWindow' \in Int
      /\ UNCHANGED <<sendWindow, settings, fresh, loop, toFlush, total>>
  BY DEF HandleRstStream, IInv, TypeOK
<1> HIDE DEF t, h
<1> QED
  BY <1>2, <1>3, <1>4, ReceivedStep

LEMMA HandlePriorityStep ==
  ASSUME IInv, NEW id \in StreamIds, HandlePriority(id)
  PROVE  IInv'
<1> DEFINE s == GetOrCreateStream(id)
           w == Recorded(id)
<1>1. s \in Streams /\ w \in Wire
  BY LookedUp
<1>2. Keeps(s, s) /\ SameUpload(w, w)
  BY <1>1 DEF Keeps, SameUpload
<1>3. /\ Ready
      /\ streams' = [streams EXCEPT ![id] = s]
      /\ wire' = [wire EXCEPT ![id] = w]
      /\ promisedStreamCache' \subseteq promisedStreamCache \cup {id}
      /\ recvWindow' \in Int
      /\ result' \in [Cmds -> Seq(Answers)]
      /\ fresh' \subseteq Cmds
      /\ UNCHANGED <<sendWindow, settings, loop, toFlush, total>>
  BY DEF HandlePriority, IInv, TypeOK
<1> QED
  BY <1>1, <1>2, <1>3, QuietStep

LEMMA HandlePushPromiseStep ==
  ASSUME IInv, NEW id \in StreamIds, NEW promised \in StreamIds,
         NEW request \in Requests, NEW endHeaders \in BOOLEAN,
         HandlePushPromise(id, promised, request, endHeaders)
  PROVE  IInv'
<1> DEFINE s == GetOrCreateStream(promised)
           received == ReceivePushPromise(s, request, endHeaders)
           t == IF request.method = "GET" THEN received ELSE CloseWithError(received)
           refused == ~endHeaders /\ s.state \in AcceptedIn("PUSH_PROMISE")
           times == IF refused THEN 2 ELSE 1
           g == RecordedAfter(promised, t, FALSE, FALSE)
           h == [g EXCEPT !.opener = IF @ = "none" THEN "server" ELSE @]
<1>1. s \in Streams
  BY LookedUp
<1>2. Keeps(s, received)
  BY <1>1, ReceivePushPromiseKeeps
<1>3. Keeps(received, CloseWithError(received))
  BY <1>2, CloseKeeps DEF Keeps
<1>4. Keeps(s, t)
  BY <1>2, <1>3 DEF Keeps
<1>5. g \in Wire /\ SameUpload(Recorded(promised), g)
  BY <1>4, RecordedAfterType DEF Keeps
<1>6. h \in Wire /\ SameUpload(Recorded(promised), h)
  <2> HIDE DEF g
  <2> QED
    BY <1>5 DEF Wire, SameUpload
<1>7. /\ Ready
      /\ Received(promised, t, times)
      /\ wire' = [wire EXCEPT ![promised] = h]
      /\ promisedStreamCache' \subseteq promisedStreamCache \cup {promised}
      /\ recvWindow' \in Int
      /\ UNCHANGED <<sendWindow, settings, fresh, loop, toFlush, total>>
  BY DEF HandlePushPromise, IInv, TypeOK
<1>8. times \in Nat
  OBVIOUS
<1> HIDE DEF t, h, times
<1> QED
  BY <1>4, <1>6, <1>7, <1>8, ReceivedStep

LEMMA NextIInv == IInv /\ [Next]_vars => IInv'
<1> SUFFICES ASSUME IInv, [Next]_vars PROVE IInv'
  OBVIOUS
<1>1. CASE Execute
  <2>1. ASSUME NEW c \in Cmds, NEW path \in Paths, NEW id \in StreamIds,
               ClaimPushPromise(c, path, id)
        PROVE  IInv'
    BY <2>1, ClaimPushPromiseStep
  <2>2. ASSUME NEW c \in Cmds, NEW path \in Paths, NEW id \in StreamIds,
               NEW method \in Methods, NEW body \in BodySizes \cup {0},
               DoRequest(c, [method |-> method, path |-> path], body, id)
        PROVE  IInv'
    <3>1. [method |-> method, path |-> path] \in Requests
      BY DEF Requests
    <3> QED
      BY <2>2, <3>1, DoRequestStep
  <2> QED
    BY <1>1, <2>1, <2>2 DEF Execute
<1>2. CASE HandleFrameForConnection
  <2>1. ASSUME Shutdown PROVE IInv'
    BY <2>1 DEF Shutdown, IInv, TypeOK, Known
  <2>2. ASSUME NEW frameSize \in FrameSizes \cup {settings.serverFrameSize},
               NEW window \in WindowSizes \cup {settings.initialSendWindow},
               HandleSettings(frameSize, window)
        PROVE  IInv'
    <3>1. frameSize \in Nat \ {0} /\ window \in Nat
      BY NumbersAssumption DEF IInv, TypeOK, Settings
    <3> QED
      BY <2>2, <3>1, HandleSettingsStep
  <2>3. ASSUME NEW increment \in Increments, HandleWindowUpdate(increment) PROVE IInv'
    BY <2>3, NumbersAssumption, HandleWindowUpdateStep
  <2> QED
    BY <1>2, <2>1, <2>2, <2>3 DEF HandleFrameForConnection
<1>3. CASE HandleFrameForStream
  <2> SUFFICES ASSUME NEW id \in StreamIds, NEW flag \in BOOLEAN,
                 \/ \E size \in DataSizes : HandleData(id, size, flag)
                 \/ \E endHeaders \in BOOLEAN : HandleHeaders(id, flag, endHeaders)
                 \/ HandleRstStream(id)
                 \/ HandlePriority(id)
                 \/ \E increment \in Increments : HandleStreamWindowUpdate(id, increment)
                 \/ \E promised \in StreamIds, request \in Requests :
                      HandlePushPromise(id, promised, request, flag)
               PROVE  IInv'
    BY <1>3 DEF HandleFrameForStream
  <2>1. DataSizes \subseteq Nat /\ Increments \subseteq Nat
    BY NumbersAssumption
  <2> QED
    BY <2>1, HandleDataStep, HandleHeadersStep, HandleRstStreamStep, HandlePriorityStep,
       HandleStreamWindowUpdateStep, HandlePushPromiseStep
<1>4. CASE \E id \in toFlush : FlushNext(id)
  BY <1>4, FlushNextStep
<1>5. CASE UNCHANGED vars
  BY <1>5 DEF vars, IInv, TypeOK, Known
<1> QED
  BY <1>1, <1>2, <1>3, <1>4, <1>5 DEF Next

--------------------------------------------------------------------------------
(* The theorems                                                             *)

(* The inductive invariant holds in every behaviour of the connection.      *)
THEOREM Invariance == Spec => []IInv
<1> QED
  BY InitIInv, NextIInv, PTL DEF Spec

(* The event loop keeps its data well-formed, whatever frames arrive.       *)
THEOREM TypeCorrect == Spec => []TypeOK
<1>1. IInv => TypeOK
  BY DEF IInv
<1> QED
  BY <1>1, Invariance, PTL

(* Request bodies go out complete and in order (sendDataFrames,             *)
(* sendDataFrame, ProcessPendingDataFrames).                                *)
THEOREM BodiesInOrder == Spec => []BodyInOrder
<1>1. IInv => BodyInOrder
  <2> SUFFICES ASSUME IInv, NEW id \in Known
               PROVE  LET p == streams[id].pending
                          w == wire[id]
                      IN  /\ p = << >> => w.out = w.body /\ (w.outEnd <=> w.opener = "client")
                          /\ p # << >> => /\ w.out = p[1].from
                                          /\ p[Len(p)].to = w.body
                                          /\ ~w.outEnd
                          /\ \A k \in 1 .. Len(p) : /\ p[k].from < p[k].to
                                                    /\ p[k].end <=> k = Len(p)
                                                    /\ k < Len(p) => p[k].to = p[k + 1].from
    BY DEF BodyInOrder
  <2>1. Sound(streams[id], wire[id])
    BY DEF IInv
  <2> QED
    BY <2>1 DEF Sound, InOrder
<1> QED
  BY <1>1, Invariance, PTL

(* Neither the connection nor a stream sends more than the server granted   *)
(* (sendDataFrame, DecreaseSendFlowControlWindow).                          *)
THEOREM WindowsAreRespected == Spec => []WindowsRespected
<1>1. IInv => WindowsRespected
  BY DEF IInv, Sound, WindowsRespected
<1> QED
  BY <1>1, Invariance, PTL

(* No DATA frame stays behind that both windows have room for               *)
(* (handleWindowUpdateFrame, ProcessPendingDataFrames).                     *)
THEOREM NothingIsStranded == Spec => []NothingStranded
<1>1. IInv => NothingStranded
  BY DEF IInv, Blocked, NothingStranded, Ready
<1> QED
  BY <1>1, Invariance, PTL
================================================================================
