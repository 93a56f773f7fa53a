----------------------------- MODULE SessionProofs -----------------------------
(****************************************************************************)
(* Proofs about a connection and its server, for any number of streams and  *)
(* commands and any sizes of windows, bodies, frames and padding: what each *)
(* end knows of the other fits together, so that their windows agree and    *)
(* the server is never sent more than it is ready to receive.               *)
(****************************************************************************)
EXTENDS Session, ConnectionProofs, SequenceTheorems, WellFoundedInduction

--------------------------------------------------------------------------------
(* Lemmas on sums                                                           *)

(* Induction over the naturals, for a set.                                  *)
LEMMA EveryNatural ==
  ASSUME NEW S, 0 \in S, \A n \in Nat : n \in S => n + 1 \in S
  PROVE  Nat \subseteq S
<1> SUFFICES ASSUME Nat \ S # {} PROVE FALSE
  OBVIOUS
<1> DEFINE R == {ss \in Nat \X Nat : ss[1] < ss[2]}
<1>1. IsWellFoundedOn(R, Nat)
  BY NatLessThanWellFounded, Zenon DEF OpToRel
<1>2. PICK m \in Nat \ S : \A n \in Nat \ S : ~(<<n, m>> \in R)
  <2> HIDE DEF R
  <2> QED
    BY <1>1, WFMin, Zenon
<1>3. \A n \in Nat : n < m => n \in S
  BY <1>2
<1>4. m # 0 /\ m - 1 \in Nat
  OBVIOUS
<1> QED
  BY <1>3, <1>4

(* sum holds the sums of the first n numbers of q, for each n.              *)
PartialSums(sum, q) ==
  /\ sum \in [0 .. Len(q) -> Int]
  /\ sum[0] = 0
  /\ \A n \in 1 .. Len(q) : sum[n] = sum[n - 1] + q[n]

(* The recursive function of SumOf exists.                                  *)
LEMMA SumsExist ==
  ASSUME NEW q \in Seq(Int)
  PROVE  \E sum : PartialSums(sum, q)
<1> DEFINE Sums(n, f) == /\ f \in [0 .. n -> Int]
                         /\ f[0] = 0
                         /\ \A i \in 1 .. n : f[i] = f[i - 1] + q[i]
           S == {n \in Nat : n <= Len(q) => \E f : Sums(n, f)}
<1>1. 0 \in S
  <2>1. Sums(0, [i \in 0 .. 0 |-> 0])
    OBVIOUS
  <2> QED
    BY <2>1
<1>2. ASSUME NEW n \in Nat, n \in S PROVE n + 1 \in S
  <2> SUFFICES ASSUME n + 1 <= Len(q) PROVE \E f : Sums(n + 1, f)
    <3> HIDE DEF Sums
    <3> QED
      OBVIOUS
  <2>1. PICK f : Sums(n, f)
    <3> HIDE DEF Sums
    <3> QED
      BY <1>2
  <2>2. q[n + 1] \in Int
    OBVIOUS
  <2> DEFINE g == [i \in 0 .. n + 1 |-> IF i <= n THEN f[i] ELSE f[n] + q[n + 1]]
  <2>3. g \in [0 .. n + 1 -> Int] /\ g[0] = 0
    BY <2>1, <2>2
  <2>4. ASSUME NEW i \in 1 .. n + 1 PROVE g[i] = g[i - 1] + q[i]
    <3>1. CASE i <= n
      BY <2>1, <3>1
    <3>2. CASE i = n + 1
      BY <2>1, <3>2
    <3> QED
      BY <3>1, <3>2
  <2> QED
    BY <2>3, <2>4
<1>3. Len(q) \in S
  <2> HIDE DEF S
  <2> QED
    BY <1>1, <1>2, EveryNatural
<1> QED
  BY <1>3 DEF PartialSums

(* SumOf(q) is the last of the partial sums of q.                           *)
LEMMA SumIs ==
  ASSUME NEW q \in Seq(Int), NEW f, PartialSums(f, q)
  PROVE  SumOf(q) = f[Len(q)]
<1> DEFINE Rec(g) == g = [n \in 0 .. Len(q) |-> IF n = 0 THEN 0 ELSE g[n - 1] + q[n]]
<1>1. Rec(f)
  BY DEF PartialSums
<1>2. ASSUME NEW g, Rec(g) PROVE g = f
  <2> DEFINE S == {n \in Nat : n <= Len(q) => f[n] = g[n]}
  <2>1. 0 \in S
    BY <1>2 DEF PartialSums
  <2>2. ASSUME NEW n \in Nat, n \in S PROVE n + 1 \in S
    <3> SUFFICES ASSUME n + 1 <= Len(q) PROVE f[n + 1] = g[n + 1]
      OBVIOUS
    <3>1. n + 1 \in 1 .. Len(q) /\ (n + 1) - 1 = n
      OBVIOUS
    <3> QED
      BY <1>2, <2>2, <3>1 DEF PartialSums
  <2>3. Nat \subseteq S
    <3> HIDE DEF S
    <3> QED
      BY <2>1, <2>2, EveryNatural
  <2> QED
    BY <1>2, <2>3 DEF PartialSums
<1>3. (CHOOSE g : Rec(g)) = f
  <2>1. Rec(CHOOSE g : Rec(g))
    BY <1>1, Zenon
  <2> QED
    BY <1>2, <2>1
<1> QED
  BY <1>3 DEF SumOf

LEMMA SumConcat ==
  ASSUME NEW q \in Seq(Int), NEW r \in Seq(Int)
  PROVE  SumOf(q \o r) = SumOf(q) + SumOf(r)
<1>1. PICK f : PartialSums(f, q)
  BY SumsExist
<1>2. PICK g : PartialSums(g, r)
  BY SumsExist
<1> DEFINE m == Len(q)
           h == [n \in 0 .. m + Len(r) |-> IF n <= m THEN f[n] ELSE f[m] + g[n - m]]
<1>3. /\ m \in Nat /\ Len(r) \in Nat
      /\ q \o r \in Seq(Int)
      /\ Len(q \o r) = m + Len(r)
      /\ \A n \in 1 .. m + Len(r) : (q \o r)[n] = IF n <= m THEN q[n] ELSE r[n - m]
  OBVIOUS
<1>4. f[m] \in Int /\ \A n \in 0 .. Len(r) : g[n] \in Int
  <2>1. m \in 0 .. Len(q)
    BY <1>3
  <2> HIDE DEF m
  <2> QED
    BY <1>1, <1>2, <2>1 DEF PartialSums
<1>5. h \in [0 .. m + Len(r) -> Int] /\ h[0] = 0
  BY <1>1, <1>2, <1>3, <1>4 DEF PartialSums
<1>6. ASSUME NEW n \in 1 .. m + Len(r)
      PROVE  h[n] = h[n - 1] + (q \o r)[n]
  <2>1. CASE n <= m
    <3>1. n \in 1 .. m /\ h[n] = f[n] /\ h[n - 1] = f[n - 1]
      BY <1>3, <2>1
    <3> QED
      BY <1>1, <1>3, <3>1 DEF PartialSums
  <2>2. CASE n > m
    <3>1. n - m \in 1 .. Len(r) /\ h[n] = f[m] + g[n - m] /\ (q \o r)[n] = r[n - m]
      BY <1>3, <2>2
    <3>2. g[n - m] = g[(n - m) - 1] + r[n - m] /\ r[n - m] \in Int
      <4> HIDE DEF m
      <4> QED
        BY <1>2, <3>1 DEF PartialSums
    <3>3. h[n - 1] = f[m] + g[(n - m) - 1]
      <4>1. CASE n - 1 = m
        <5>1. h[n - 1] = f[m] /\ (n - m) - 1 = 0 /\ g[0] = 0
          BY <1>2, <1>3, <4>1 DEF PartialSums
        <5> QED
          BY <1>4, <5>1
      <4>2. CASE n - 1 > m
        BY <1>3, <4>2
      <4> QED
        BY <1>3, <2>2, <4>1, <4>2
    <3>4. g[(n - m) - 1] \in Int
      BY <1>4, <3>1
    <3> HIDE DEF h
    <3> QED
      BY <1>4, <3>1, <3>2, <3>3, <3>4
  <2> QED
    BY <1>3, <2>1, <2>2
<1>7. PartialSums(h, q \o r)
  <2> HIDE DEF h
  <2> QED
    BY <1>3, <1>5, <1>6 DEF PartialSums
<1>8. h[m + Len(r)] = f[m] + g[Len(r)]
  <2>1. CASE Len(r) = 0
    <3>1. h[m + Len(r)] = f[m] /\ g[Len(r)] = 0
      BY <1>2, <1>3, <2>1 DEF PartialSums
    <3> QED
      BY <1>4, <3>1
  <2>2. CASE Len(r) > 0
    BY <1>3, <2>2
  <2> QED
    BY <1>3, <2>1, <2>2
<1> HIDE DEF h
<1> QED
  BY <1>1, <1>2, <1>3, <1>7, <1>8, SumIs

LEMMA SumEmpty == SumOf(<< >>) = 0
<1> DEFINE g == [i \in 0 .. 0 |-> 0]
<1>1. PartialSums(g, << >>) /\ << >> \in Seq(Int) /\ Len(<< >>) = 0
  BY DEF PartialSums
<1> QED
  BY <1>1, SumIs

LEMMA SumSingle ==
  ASSUME NEW n \in Int
  PROVE  SumOf(<<n>>) = n
<1> DEFINE f == [i \in 0 .. 1 |-> IF i = 0 THEN 0 ELSE n]
<1>1. PartialSums(f, <<n>>) /\ <<n>> \in Seq(Int) /\ Len(<<n>>) = 1
  BY DEF PartialSums
<1> QED
  BY <1>1, SumIs

LEMMA SumNatural ==
  ASSUME NEW q \in Seq(Nat)
  PROVE  SumOf(q) \in Nat
<1>1. q \in Seq(Int) /\ Len(q) \in Nat /\ \A n \in 1 .. Len(q) : q[n] \in Nat
  OBVIOUS
<1>2. PICK f : PartialSums(f, q)
  BY <1>1, SumsExist
<1> DEFINE S == {n \in Nat : n <= Len(q) => f[n] \in Nat}
<1>3. 0 \in S
  BY <1>2 DEF PartialSums
<1>4. ASSUME NEW n \in Nat, n \in S PROVE n + 1 \in S
  <2> SUFFICES ASSUME n + 1 <= Len(q) PROVE f[n + 1] \in Nat
    OBVIOUS
  <2>1. n + 1 \in 1 .. Len(q) /\ (n + 1) - 1 = n /\ n <= Len(q)
    BY <1>1
  <2>2. f[n] \in Nat /\ q[n + 1] \in Nat
    BY <1>1, <1>4, <2>1
  <2>3. f[n + 1] = f[n] + q[n + 1]
    BY <1>2, <2>1 DEF PartialSums
  <2> QED
    BY <2>2, <2>3
<1>5. Len(q) \in S
  <2> HIDE DEF S
  <2> QED
    BY <1>1, <1>3, <1>4, EveryNatural
<1> QED
  BY <1>1, <1>2, <1>5, SumIs
--------------------------------------------------------------------------------
(* The inductive invariant                                                  *)

Frames ==
  [type : {"HEADERS"}, id : StreamIds, end : BOOLEAN]
  \cup [type : {"DATA"}, id : StreamIds, size : Nat, pad : Nat, end : BOOLEAN]
  \cup [type : {"WINDOW_UPDATE"}, id : Windows, size : Nat]
  \cup [type : {"SETTINGS"}, size : Nat]
  \cup [type : {"ACK"}]

Has(queue, type)  == \E n \in DOMAIN queue : queue[n].type = type
Once(queue, type) ==
  \A m, n \in DOMAIN queue : queue[m].type = type /\ queue[n].type = type => m = n

(* The frame is one of stream id; it opens the stream, is part of a message,*)
(* or the last part.                                                        *)
Concerns(frame, id) ==
  frame.type \in {"HEADERS", "DATA", "WINDOW_UPDATE"} /\ frame.id = id
Opens(frame, id)    == frame.type = "HEADERS" /\ frame.id = id
Speaks(frame, id)   == frame.type \in {"HEADERS", "DATA"} /\ frame.id = id
Ends(frame, id)     == Speaks(frame, id) /\ frame.end

SessionTypeOK ==
  /\ up \in Seq(Frames) /\ down \in Seq(Frames)
  /\ announced \in Nat \cup {NotAnnounced} /\ acked \in BOOLEAN
  /\ recv \in [Windows -> Int] /\ owed \in [Windows -> Nat]
  /\ send \in [Windows -> Int]
  /\ request \in [StreamIds -> {"none", "open", "ended"}]
  /\ response \in [StreamIds -> {"none", "open", "ended"}]
  /\ left \in [StreamIds -> Nat]
  /\ early \subseteq StreamIds
  /\ padding \in [Windows -> Nat]
  /\ \A n \in DOMAIN up : up[n].type = "DATA" => up[n].pad = 0

(* The server's SETTINGS are on their way, or their acknowledgement is, or  *)
(* it has arrived; the client uses the new window from the moment in which  *)
(* it acknowledges.                                                         *)
SettingsFit ==
  /\ announced = NotAnnounced => ~acked /\ ~Has(down, "SETTINGS") /\ ~Has(up, "ACK")
  /\ announced # NotAnnounced => acked \/ Has(down, "SETTINGS") \/ Has(up, "ACK")
  /\ Has(down, "SETTINGS") => ~acked /\ ~Has(up, "ACK")
  /\ Has(up, "ACK") => ~acked
  /\ Once(down, "SETTINGS") /\ Once(up, "ACK")
  /\ \A n \in DOMAIN down : down[n].type = "SETTINGS" => down[n].size = announced
  /\ settings.initialSendWindow = IF Unsettled THEN DefaultWindow ELSE announced

(* Streams are opened with odd identifiers and never reset; what is         *)
(* postponed may be sent.                                                   *)
StreamsFit ==
  /\ promisedStreamCache = {}
  /\ \A id \in Known :
       /\ Odd(id)
       /\ streams[id].state \in {OPEN, HALF_CLOSED_LOCAL, HALF_CLOSED_REMOTE, CLOSED}
       /\ streams[id].pending # << >> => streams[id].state \in {OPEN, HALF_CLOSED_REMOTE}

(* The HEADERS of a request come once, before everything else on its stream,*)
(* and before the acknowledgement if, and only if, the stream is early.     *)
OpeningFits(id) ==
  \A n \in DOMAIN up : Opens(up[n], id) =>
    /\ request[id] = "none"
    /\ \A m \in DOMAIN up : Concerns(up[m], id) => m >= n
    /\ \A m \in DOMAIN up : Opens(up[m], id) => m = n
    /\ id \in early => ~acked /\ \A m \in DOMAIN up : up[m].type = "ACK" => m > n
    /\ id \notin early => acked \/ \E m \in DOMAIN up : up[m].type = "ACK" /\ m < n

RequestsFit ==
  \A id \in StreamIds :
    /\ id \notin Known =>
         /\ request[id] = "none" /\ id \notin early /\ wire[id].out = 0
         /\ \A n \in DOMAIN up : ~Concerns(up[n], id)
    /\ id \in Known /\ request[id] = "none" => \E n \in DOMAIN up : Opens(up[n], id)
    /\ request[id] = "none" =>
         /\ \A n \in DOMAIN down : ~Concerns(down[n], id)
         /\ \A n \in DOMAIN up : Concerns(up[n], id) => up[n].type # "WINDOW_UPDATE"
         /\ response[id] = "none"
         /\ recv[id] = DefaultWindow /\ send[id] = DefaultWindow /\ padding[id] = 0
    /\ request[id] # "none" /\ id \notin early => acked
    /\ OpeningFits(id)

(* A stream is open for the response until its last frame is handled.       *)
OpenForResponse(id) == id \in Known /\ streams[id].state \in {OPEN, HALF_CLOSED_LOCAL}

ResponsesFit ==
  \A id \in StreamIds :
    /\ response[id] # "ended" =>
         /\ id \in Known => OpenForResponse(id)
         /\ \A n \in DOMAIN down : ~Ends(down[n], id)
    /\ \A n \in DOMAIN down : Speaks(down[n], id) => OpenForResponse(id)
    /\ \A m, n \in DOMAIN down : m < n /\ Ends(down[m], id) => ~Speaks(down[n], id)

(* The window that the server sees, or will see when the HEADERS arrive.    *)
Granted(id) ==
  IF request[id] # "none" THEN recv[id] - Drift(id)
  ELSE IF id \in early THEN DefaultWindow ELSE announced

UploadFits ==
  /\ sendWindow = recv[0] - GrantsIn(down, 0) - DataIn(up, 0)
  /\ \A id \in Known :
       streams[id].sendWindow = Granted(id) - GrantsIn(down, id) - DataIn(up, id)

SInv ==
  /\ IInv /\ SessionTypeOK
  /\ SettingsFit /\ StreamsFit /\ RequestsFit /\ ResponsesFit
  /\ UploadFits /\ DownloadWindowsAgree

--------------------------------------------------------------------------------
(* Lemmas on queues                                                         *)

LEMMA Joined ==
  ASSUME NEW S, NEW q \in Seq(S), NEW r \in Seq(S)
  PROVE  /\ q \o r \in Seq(S)
         /\ DOMAIN q = 1 .. Len(q) /\ DOMAIN r = 1 .. Len(r)
         /\ DOMAIN (q \o r) = 1 .. Len(q) + Len(r)
         /\ Len(q) \in Nat /\ Len(r) \in Nat
         /\ \A n \in DOMAIN q : n \in DOMAIN (q \o r) /\ (q \o r)[n] = q[n]
         /\ \A n \in DOMAIN (q \o r) :
              \/ n \in DOMAIN q /\ (q \o r)[n] = q[n]
              \/ n > Len(q) /\ n - Len(q) \in DOMAIN r /\ (q \o r)[n] = r[n - Len(q)]
OBVIOUS

LEMMA Shortened ==
  ASSUME NEW S, NEW q \in Seq(S), q # << >>
  PROVE  /\ Tail(q) \in Seq(S) /\ Head(q) \in S /\ Head(q) = q[1] /\ 1 \in DOMAIN q
         /\ DOMAIN q = 1 .. Len(q) /\ Len(q) \in Nat
         /\ \A n \in DOMAIN Tail(q) :
              n >= 1 /\ n \in Nat /\ n + 1 \in DOMAIN q /\ Tail(q)[n] = q[n + 1]
         /\ \A n \in DOMAIN q : n = 1 \/ (n - 1 \in DOMAIN Tail(q) /\ Tail(q)[n - 1] = q[n])
         /\ q = <<Head(q)>> \o Tail(q)
<1>1. /\ Tail(q) \in Seq(S) /\ Head(q) \in S /\ Head(q) = q[1] /\ 1 \in DOMAIN q
      /\ DOMAIN q = 1 .. Len(q) /\ Len(q) \in Nat
      /\ DOMAIN Tail(q) = 1 .. Len(q) - 1 /\ Len(Tail(q)) = Len(q) - 1
      /\ \A n \in 1 .. Len(q) - 1 : Tail(q)[n] = q[n + 1]
  OBVIOUS
<1>2. q = <<Head(q)>> \o Tail(q)
  <2> DEFINE p == <<Head(q)>> \o Tail(q)
  <2>1. p \in Seq(S) /\ Len(p) = Len(q)
    BY <1>1
  <2>2. ASSUME NEW n \in 1 .. Len(q) PROVE p[n] = q[n]
    <3>1. CASE n = 1
      BY <1>1, <3>1
    <3>2. CASE n # 1
      BY <1>1, <3>2
    <3> QED
      BY <3>1, <3>2
  <2> HIDE DEF p
  <2>3. p = q
    BY <2>1, <2>2, SeqEqual
  <2> QED
    BY <2>3 DEF p
<1> QED
  BY <1>1, <1>2

LEMMA FrameAmounts ==
  ASSUME NEW f \in Frames, NEW k \in Windows
  PROVE  Takes(f, k) \in Nat /\ Grants(f, k) \in Nat
BY DEF Frames, Takes, Grants

(* The sizes of a queue's frames, and their sums.                           *)
LEMMA QueueAmounts ==
  ASSUME NEW q \in Seq(Frames), NEW k \in Windows
  PROVE  /\ [n \in DOMAIN q |-> Takes(q[n], k)] \in Seq(Nat)
         /\ [n \in DOMAIN q |-> Grants(q[n], k)] \in Seq(Nat)
         /\ [n \in DOMAIN q |-> Takes(q[n], k)] \in Seq(Int)
         /\ [n \in DOMAIN q |-> Grants(q[n], k)] \in Seq(Int)
         /\ DataIn(q, k) \in Nat /\ GrantsIn(q, k) \in Nat
<1>1. DOMAIN q = 1 .. Len(q) /\ Len(q) \in Nat /\ \A n \in 1 .. Len(q) : q[n] \in Frames
  OBVIOUS
<1>2. /\ [n \in DOMAIN q |-> Takes(q[n], k)] \in Seq(Nat)
      /\ [n \in DOMAIN q |-> Grants(q[n], k)] \in Seq(Nat)
  BY <1>1, FrameAmounts
<1>3. /\ [n \in DOMAIN q |-> Takes(q[n], k)] \in Seq(Int)
      /\ [n \in DOMAIN q |-> Grants(q[n], k)] \in Seq(Int)
  BY <1>1, FrameAmounts
<1> QED
  BY <1>2, <1>3, SumNatural DEF DataIn, GrantsIn

(* Two queues, one after the other.                                         *)
LEMMA QueueJoined ==
  ASSUME NEW q \in Seq(Frames), NEW r \in Seq(Frames), NEW k \in Windows
  PROVE  /\ DataIn(q \o r, k) = DataIn(q, k) + DataIn(r, k)
         /\ GrantsIn(q \o r, k) = GrantsIn(q, k) + GrantsIn(r, k)
<1>1. ASSUME NEW Of,
             [n \in DOMAIN q |-> Of[q[n]]] \in Seq(Int),
             [n \in DOMAIN r |-> Of[r[n]]] \in Seq(Int)
      PROVE  [n \in DOMAIN (q \o r) |-> Of[(q \o r)[n]]]
               = [n \in DOMAIN q |-> Of[q[n]]] \o [n \in DOMAIN r |-> Of[r[n]]]
  <2> DEFINE a == [n \in DOMAIN q |-> Of[q[n]]]
             b == [n \in DOMAIN r |-> Of[r[n]]]
             c == [n \in DOMAIN (q \o r) |-> Of[(q \o r)[n]]]
  <2>1. /\ DOMAIN q = 1 .. Len(q) /\ DOMAIN r = 1 .. Len(r)
        /\ DOMAIN (q \o r) = 1 .. Len(q) + Len(r)
        /\ Len(q) \in Nat /\ Len(r) \in Nat
    OBVIOUS
  <2>2. Len(a) = Len(q) /\ Len(b) = Len(r)
    BY <2>1
  <2>3. DOMAIN (a \o b) = 1 .. Len(q) + Len(r)
    <3>1. a \in Seq(Int) /\ b \in Seq(Int)
      BY <1>1
    <3> HIDE DEF a, b
    <3> QED
      BY <2>2, <3>1
  <2>4. ASSUME NEW n \in 1 .. Len(q) + Len(r) PROVE c[n] = (a \o b)[n]
    <3>1. CASE n <= Len(q)
      <4>1. (q \o r)[n] = q[n] /\ (a \o b)[n] = a[n]
        BY <2>1, <2>2, <3>1
      <4> QED
        BY <2>1, <3>1, <4>1
    <3>2. CASE n > Len(q)
      <4>1. (q \o r)[n] = r[n - Len(q)] /\ (a \o b)[n] = b[n - Len(q)]
        BY <2>1, <2>2, <3>2
      <4>2. n - Len(q) \in DOMAIN r
        BY <2>1, <3>2
      <4> QED
        BY <2>1, <4>1, <4>2
    <3> QED
      BY <2>1, <3>1, <3>2
  <2>5. c = a \o b
    BY <2>1, <2>3, <2>4
  <2> QED
    BY <2>5
<1>2. /\ DOMAIN q = 1 .. Len(q) /\ DOMAIN r = 1 .. Len(r)
      /\ \A n \in DOMAIN q : q[n] \in Frames
      /\ \A n \in DOMAIN r : r[n] \in Frames
      /\ \A n \in DOMAIN (q \o r) : (q \o r)[n] \in Frames
  OBVIOUS
<1>3. DataIn(q \o r, k) = DataIn(q, k) + DataIn(r, k)
  <2> DEFINE T == [f \in Frames |-> Takes(f, k)]
  <2>1. /\ [n \in DOMAIN q |-> Takes(q[n], k)] = [n \in DOMAIN q |-> T[q[n]]]
        /\ [n \in DOMAIN r |-> Takes(r[n], k)] = [n \in DOMAIN r |-> T[r[n]]]
        /\ [n \in DOMAIN (q \o r) |-> Takes((q \o r)[n], k)]
              = [n \in DOMAIN (q \o r) |-> T[(q \o r)[n]]]
    BY <1>2
  <2> HIDE DEF T
  <2>2. /\ [n \in DOMAIN q |-> T[q[n]]] \in Seq(Int)
        /\ [n \in DOMAIN r |-> T[r[n]]] \in Seq(Int)
    BY <2>1, QueueAmounts
  <2>3. [n \in DOMAIN (q \o r) |-> T[(q \o r)[n]]]
          = [n \in DOMAIN q |-> T[q[n]]] \o [n \in DOMAIN r |-> T[r[n]]]
    BY <1>1, <2>2
  <2> DEFINE a == [n \in DOMAIN q |-> T[q[n]]]
             b == [n \in DOMAIN r |-> T[r[n]]]
  <2>4. SumOf(a \o b) = SumOf(a) + SumOf(b)
    <3> HIDE DEF a, b
    <3> QED
      BY <2>2, SumConcat DEF a, b
  <2> QED
    BY <2>1, <2>3, <2>4, Zenon DEF DataIn
<1>4. GrantsIn(q \o r, k) = GrantsIn(q, k) + GrantsIn(r, k)
  <2> DEFINE G == [f \in Frames |-> Grants(f, k)]
  <2>1. /\ [n \in DOMAIN q |-> Grants(q[n], k)] = [n \in DOMAIN q |-> G[q[n]]]
        /\ [n \in DOMAIN r |-> Grants(r[n], k)] = [n \in DOMAIN r |-> G[r[n]]]
        /\ [n \in DOMAIN (q \o r) |-> Grants((q \o r)[n], k)]
              = [n \in DOMAIN (q \o r) |-> G[(q \o r)[n]]]
    BY <1>2
  <2> HIDE DEF G
  <2>2. /\ [n \in DOMAIN q |-> G[q[n]]] \in Seq(Int)
        /\ [n \in DOMAIN r |-> G[r[n]]] \in Seq(Int)
    BY <2>1, QueueAmounts
  <2>3. [n \in DOMAIN (q \o r) |-> G[(q \o r)[n]]]
          = [n \in DOMAIN q |-> G[q[n]]] \o [n \in DOMAIN r |-> G[r[n]]]
    BY <1>1, <2>2
  <2> DEFINE a == [n \in DOMAIN q |-> G[q[n]]]
             b == [n \in DOMAIN r |-> G[r[n]]]
  <2>4. SumOf(a \o b) = SumOf(a) + SumOf(b)
    <3> HIDE DEF a, b
    <3> QED
      BY <2>2, SumConcat DEF a, b
  <2> QED
    BY <2>1, <2>3, <2>4, Zenon DEF GrantsIn
<1> QED
  BY <1>3, <1>4

LEMMA QueueEmpty ==
  ASSUME NEW k
  PROVE  DataIn(<< >>, k) = 0 /\ GrantsIn(<< >>, k) = 0
<1>1. /\ [n \in DOMAIN << >> |-> Takes(<< >>[n], k)] = << >>
      /\ [n \in DOMAIN << >> |-> Grants(<< >>[n], k)] = << >>
  OBVIOUS
<1> QED
  BY <1>1, SumEmpty DEF DataIn, GrantsIn

LEMMA QueueSingle ==
  ASSUME NEW f \in Frames, NEW k \in Windows
  PROVE  /\ <<f>> \in Seq(Frames)
         /\ DataIn(<<f>>, k) = Takes(f, k) /\ GrantsIn(<<f>>, k) = Grants(f, k)
<1>1. /\ [n \in DOMAIN <<f>> |-> Takes(<<f>>[n], k)] = <<Takes(f, k)>>
      /\ [n \in DOMAIN <<f>> |-> Grants(<<f>>[n], k)] = <<Grants(f, k)>>
  OBVIOUS
<1>2. Takes(f, k) \in Int /\ Grants(f, k) \in Int
  BY FrameAmounts
<1>3. <<f>> \in Seq(Frames)
  OBVIOUS
<1> QED
  BY <1>1, <1>2, <1>3, SumSingle DEF DataIn, GrantsIn

LEMMA QueueAppended ==
  ASSUME NEW q \in Seq(Frames), NEW f \in Frames, NEW k \in Windows
  PROVE  /\ DataIn(Append(q, f), k) = DataIn(q, k) + Takes(f, k)
         /\ GrantsIn(Append(q, f), k) = GrantsIn(q, k) + Grants(f, k)
<1>1. Append(q, f) = q \o <<f>>
  OBVIOUS
<1>2. <<f>> \in Seq(Frames) /\ DataIn(<<f>>, k) = Takes(f, k) /\ GrantsIn(<<f>>, k) = Grants(f, k)
  BY QueueSingle
<1>3. /\ DataIn(q \o <<f>>, k) = DataIn(q, k) + DataIn(<<f>>, k)
      /\ GrantsIn(q \o <<f>>, k) = GrantsIn(q, k) + GrantsIn(<<f>>, k)
  BY <1>2, QueueJoined
<1> QED
  BY <1>1, <1>2, <1>3

(* A queue whose head has been taken.                                       *)
LEMMA QueueShortened ==
  ASSUME NEW q \in Seq(Frames), q # << >>, NEW k \in Windows
  PROVE  /\ DataIn(q, k) = Takes(Head(q), k) + DataIn(Tail(q), k)
         /\ GrantsIn(q, k) = Grants(Head(q), k) + GrantsIn(Tail(q), k)
<1>1. q = <<Head(q)>> \o Tail(q) /\ Head(q) \in Frames /\ Tail(q) \in Seq(Frames)
  BY Shortened
<1>2. /\ DataIn(<<Head(q)>> \o Tail(q), k) = DataIn(<<Head(q)>>, k) + DataIn(Tail(q), k)
      /\ GrantsIn(<<Head(q)>> \o Tail(q), k) = GrantsIn(<<Head(q)>>, k) + GrantsIn(Tail(q), k)
  BY <1>1, QueueJoined, QueueSingle
<1> QED
  BY <1>1, <1>2, QueueSingle

(* A queue without frames of a window moves nothing.                        *)
LEMMA NothingInQueue ==
  ASSUME NEW q \in Seq(Frames), NEW k \in Windows
  PROVE  /\ (\A n \in DOMAIN q : Takes(q[n], k) = 0) => DataIn(q, k) = 0
         /\ (\A n \in DOMAIN q : Grants(q[n], k) = 0) => GrantsIn(q, k) = 0
<1>1. ASSUME NEW a \in Seq(Int), \A n \in DOMAIN a : a[n] = 0
      PROVE  SumOf(a) = 0
  <2> DEFINE f == [n \in 0 .. Len(a) |-> 0]
  <2>1. Len(a) \in Nat /\ DOMAIN a = 1 .. Len(a)
    OBVIOUS
  <2>2. PartialSums(f, a) /\ f[Len(a)] = 0
    BY <1>1, <2>1 DEF PartialSums
  <2> QED
    BY <2>2, SumIs
<1> QED
  BY <1>1, QueueAmounts DEF DataIn, GrantsIn

--------------------------------------------------------------------------------
(* What most steps leave alone                                              *)

(* Queue r has the frames of this type that q has.                          *)
SameOf(q, r, type) ==
  /\ Has(r, type) <=> Has(q, type)
  /\ Once(q, type) => Once(r, type)
  /\ \A n \in DOMAIN r : r[n].type = type => \E m \in DOMAIN q : q[m] = r[n]

LEMMA SameQueue == ASSUME NEW q, NEW type PROVE SameOf(q, q, type)
BY DEF SameOf

LEMMA SameJoined ==
  ASSUME NEW q \in Seq(Frames), NEW r \in Seq(Frames), NEW type,
         \A n \in DOMAIN r : r[n].type # type
  PROVE  SameOf(q, q \o r, type)
<1>1. \A n \in DOMAIN q : n \in DOMAIN (q \o r) /\ (q \o r)[n] = q[n]
  BY Joined
<1>2. \A n \in DOMAIN (q \o r) :
        (q \o r)[n].type = type => n \in DOMAIN q /\ (q \o r)[n] = q[n]
  BY Joined
<1> QED
  BY <1>1, <1>2 DEF SameOf, Has, Once

LEMMA SameShortened ==
  ASSUME NEW q \in Seq(Frames), q # << >>, NEW type, Head(q).type # type
  PROVE  SameOf(q, Tail(q), type)
<1>1. /\ Head(q) = q[1] /\ 1 \in DOMAIN q
      /\ \A n \in DOMAIN Tail(q) : n \in Nat /\ n + 1 \in DOMAIN q /\ Tail(q)[n] = q[n + 1]
      /\ \A n \in DOMAIN q : n = 1 \/ (n - 1 \in DOMAIN Tail(q) /\ Tail(q)[n - 1] = q[n])
  BY Shortened
<1>2. Has(Tail(q), type) <=> Has(q, type)
  BY <1>1 DEF Has
<1>3. ASSUME Once(q, type), NEW m \in DOMAIN Tail(q), NEW n \in DOMAIN Tail(q),
             Tail(q)[m].type = type, Tail(q)[n].type = type
      PROVE  m = n
  <2>1. m + 1 = n + 1
    BY <1>1, <1>3 DEF Once
  <2> QED
    BY <1>1, <2>1
<1>4. \A n \in DOMAIN Tail(q) : \E m \in DOMAIN q : q[m] = Tail(q)[n]
  BY <1>1
<1> QED
  BY <1>2, <1>3, <1>4 DEF SameOf, Once

LEMMA SettingsKept ==
  ASSUME SettingsFit,
         SameOf(down, down', "SETTINGS"), SameOf(up, up', "ACK"),
         UNCHANGED <<announced, acked, settings>>
  PROVE  SettingsFit'
BY DEF SettingsFit, SameOf, Unsettled, Has

(* A step of the client that is no request: it takes a frame from its queue *)
(* or none, and sends the frames r.                                         *)
LEMMA RequestsKept ==
  ASSUME SessionTypeOK, RequestsFit,
         NEW r \in Seq(Frames), up' = up \o r,
         down' = down \/ (down # << >> /\ down' = Tail(down)),
         UNCHANGED <<request, response, early, acked, recv, send>>,
         Known' = Known,
         \A id \in StreamIds \ Known : wire'[id].out = wire[id].out,
         \A id \in StreamIds : request[id] = "none" => padding'[id] = padding[id],
         \A n \in DOMAIN r : r[n].type \in {"ACK", "DATA", "WINDOW_UPDATE"},
         \A n \in DOMAIN r, id \in StreamIds : Concerns(r[n], id) =>
           id \in Known /\ (request[id] = "none" => r[n].type # "WINDOW_UPDATE")
  PROVE  RequestsFit'
<1> SUFFICES ASSUME NEW id \in StreamIds
             PROVE  /\ id \notin Known' =>
                         /\ request'[id] = "none" /\ id \notin early' /\ wire'[id].out = 0
                         /\ \A n \in DOMAIN up' : ~Concerns(up'[n], id)
                    /\ id \in Known' /\ request'[id] = "none" =>
                         \E n \in DOMAIN up' : Opens(up'[n], id)
                    /\ request'[id] = "none" =>
                         /\ \A n \in DOMAIN down' : ~Concerns(down'[n], id)
                         /\ \A n \in DOMAIN up' : Concerns(up'[n], id) =>
                              up'[n].type # "WINDOW_UPDATE"
                         /\ response'[id] = "none"
                         /\ recv'[id] = DefaultWindow /\ send'[id] = DefaultWindow
                         /\ padding'[id] = 0
                    /\ request'[id] # "none" /\ id \notin early' => acked'
                    /\ OpeningFits(id)'
  BY DEF RequestsFit
<1>1. /\ up \in Seq(Frames) /\ down \in Seq(Frames)
      /\ DOMAIN up = 1 .. Len(up) /\ Len(up) \in Nat
  BY DEF SessionTypeOK
<1>2. /\ \A n \in DOMAIN up : n \in DOMAIN up' /\ up'[n] = up[n]
      /\ \A n \in DOMAIN up' :
           \/ n \in DOMAIN up /\ up'[n] = up[n]
           \/ n > Len(up) /\ n - Len(up) \in DOMAIN r /\ up'[n] = r[n - Len(up)]
      /\ DOMAIN up' \subseteq Nat
  BY <1>1, Joined
<1>3. \A n \in DOMAIN down' : \E m \in DOMAIN down : down'[n] = down[m]
  <2>1. CASE down' = down
    BY <2>1
  <2>2. CASE down # << >> /\ down' = Tail(down)
    <3>1. \A n \in DOMAIN Tail(down) : n + 1 \in DOMAIN down /\ Tail(down)[n] = down[n + 1]
      BY <1>1, <2>2, Shortened
    <3> QED
      BY <2>2, <3>1
  <2> QED
    BY <2>1, <2>2
<1>4. id \notin Known' =>
        /\ request'[id] = "none" /\ id \notin early' /\ wire'[id].out = 0
        /\ \A n \in DOMAIN up' : ~Concerns(up'[n], id)
  BY <1>2 DEF RequestsFit
<1>5. id \in Known' /\ request'[id] = "none" => \E n \in DOMAIN up' : Opens(up'[n], id)
  BY <1>2 DEF RequestsFit
<1>6. request'[id] = "none" =>
        /\ \A n \in DOMAIN down' : ~Concerns(down'[n], id)
        /\ response'[id] = "none"
        /\ recv'[id] = DefaultWindow /\ send'[id] = DefaultWindow /\ padding'[id] = 0
  BY <1>3 DEF RequestsFit
<1>7. ASSUME request'[id] = "none", NEW n \in DOMAIN up', Concerns(up'[n], id)
      PROVE  up'[n].type # "WINDOW_UPDATE"
  BY <1>2, <1>7 DEF RequestsFit
<1>8. request'[id] # "none" /\ id \notin early' => acked'
  BY DEF RequestsFit
<1>9. ASSUME NEW n \in DOMAIN up', Opens(up'[n], id)
      PROVE  /\ request'[id] = "none"
             /\ \A m \in DOMAIN up' : Concerns(up'[m], id) => m >= n
             /\ \A m \in DOMAIN up' : Opens(up'[m], id) => m = n
             /\ id \in early' => ~acked' /\ \A m \in DOMAIN up' : up'[m].type = "ACK" => m > n
             /\ id \notin early' => acked' \/ \E m \in DOMAIN up' : up'[m].type = "ACK" /\ m < n
  <2>1. OpeningFits(id)
    BY DEF RequestsFit
  <2>2. n \in DOMAIN up /\ up'[n] = up[n] /\ n \in 1 .. Len(up)
    BY <1>1, <1>2, <1>9 DEF Opens
  <2>3. ASSUME NEW m \in DOMAIN up'
        PROVE  /\ Concerns(up'[m], id) => m >= n
               /\ Opens(up'[m], id) => m = n
               /\ id \in early /\ up'[m].type = "ACK" => m > n
    <3>1. CASE m \in DOMAIN up /\ up'[m] = up[m]
      BY <1>9, <2>1, <2>2, <3>1 DEF OpeningFits
    <3>2. CASE m > Len(up) /\ m - Len(up) \in DOMAIN r /\ up'[m] = r[m - Len(up)]
      BY <1>2, <2>2, <3>2 DEF Opens
    <3> QED
      BY <1>2, <3>1, <3>2
  <2>4. /\ request'[id] = "none"
        /\ id \in early' => ~acked'
        /\ id \notin early' => acked' \/ \E m \in DOMAIN up' : up'[m].type = "ACK" /\ m < n
    BY <1>2, <1>9, <2>1, <2>2 DEF OpeningFits
  <2> QED
    BY <2>3, <2>4
<1>10. OpeningFits(id)'
  BY <1>9 DEF OpeningFits
<1> QED
  BY <1>4, <1>5, <1>6, <1>7, <1>8, <1>10

(* The server sends a frame.                                                *)
LEMMA RequestsKeptByServer ==
  ASSUME SessionTypeOK, RequestsFit, NEW f \in Frames, ServerSendsFrame(f),
         UNCHANGED padding,
         \A id \in StreamIds : request[id] = "none" =>
           /\ ~Concerns(f, id)
           /\ response'[id] = response[id] /\ recv'[id] = recv[id] /\ send'[id] = send[id]
  PROVE  RequestsFit'
<1>1. /\ UNCHANGED <<streams, wire, up, request, early, acked>>
      /\ down' = Append(down, f) /\ down \in Seq(Frames)
  BY DEF ServerSendsFrame, vars, history, SessionTypeOK
<1>2. \A n \in DOMAIN down' : (n \in DOMAIN down /\ down'[n] = down[n]) \/ down'[n] = f
  BY <1>1
<1>3. Known' = Known /\ \A id \in StreamIds : OpeningFits(id)' <=> OpeningFits(id)
  BY <1>1 DEF Known, OpeningFits
<1> QED
  BY <1>1, <1>2, <1>3 DEF RequestsFit

(* The client takes a frame from its queue, or none.                        *)
LEMMA ResponsesKept ==
  ASSUME SessionTypeOK, ResponsesFit, UNCHANGED response, Known' = Known,
         \/ down' = down
         \/ down # << >> /\ down' = Tail(down),
         \A id \in Known :
           \/ OpenForResponse(id) => OpenForResponse(id)'
           \/ down # << >> /\ down' = Tail(down) /\ Ends(Head(down), id)
  PROVE  ResponsesFit'
<1> SUFFICES ASSUME NEW id \in StreamIds
             PROVE  /\ response'[id] # "ended" =>
                         /\ id \in Known' => OpenForResponse(id)'
                         /\ \A n \in DOMAIN down' : ~Ends(down'[n], id)
                    /\ \A n \in DOMAIN down' : Speaks(down'[n], id) => OpenForResponse(id)'
                    /\ \A m, n \in DOMAIN down' :
                         m < n /\ Ends(down'[m], id) => ~Speaks(down'[n], id)
  BY DEF ResponsesFit
<1>1. CASE down' = down
  <2>1. OpenForResponse(id) => OpenForResponse(id)'
    <3>1. CASE down # << >> /\ down' = Tail(down)
      <4>1. Len(Tail(down)) = Len(down) - 1 /\ Len(down) \in Nat
        BY <3>1 DEF SessionTypeOK
      <4> QED
        BY <1>1, <3>1, <4>1
    <3> QED
      BY <3>1 DEF OpenForResponse
  <2> QED
    BY <1>1, <2>1 DEF ResponsesFit
<1>2. CASE down # << >> /\ down' = Tail(down)
  <2>1. /\ Head(down) = down[1] /\ 1 \in DOMAIN down
        /\ \A n \in DOMAIN Tail(down) :
             n >= 1 /\ n \in Nat /\ n + 1 \in DOMAIN down /\ Tail(down)[n] = down[n + 1]
    BY <1>2, Shortened DEF SessionTypeOK
  <2>2. \A m, n \in DOMAIN down' :
          m < n /\ Ends(down'[m], id) => ~Speaks(down'[n], id)
    <3> SUFFICES ASSUME NEW m \in DOMAIN down', NEW n \in DOMAIN down', m < n,
                        Ends(down'[m], id), Speaks(down'[n], id)
                 PROVE  FALSE
      OBVIOUS
    <3>1. m + 1 < n + 1 /\ down'[m] = down[m + 1] /\ down'[n] = down[n + 1]
          /\ m + 1 \in DOMAIN down /\ n + 1 \in DOMAIN down
      BY <1>2, <2>1
    <3> QED
      BY <3>1 DEF ResponsesFit
  <2>3. CASE Ends(Head(down), id)
    <3>1. response'[id] = "ended"
      BY <2>1, <2>3 DEF ResponsesFit
    <3>2. ASSUME NEW n \in DOMAIN down' PROVE ~Speaks(down'[n], id)
      <4>1. 1 < n + 1 /\ n + 1 \in DOMAIN down /\ down'[n] = down[n + 1]
        BY <1>2, <2>1
      <4> QED
        BY <2>1, <2>3, <4>1 DEF ResponsesFit
    <3> QED
      BY <2>2, <3>1, <3>2
  <2>4. CASE ~Ends(Head(down), id)
    <3>1. OpenForResponse(id) => OpenForResponse(id)'
      BY <2>4 DEF OpenForResponse
    <3>2. \A n \in DOMAIN down' : \E m \in DOMAIN down : down'[n] = down[m]
      BY <1>2, <2>1
    <3> QED
      BY <2>2, <3>1, <3>2 DEF ResponsesFit
  <2> QED
    BY <2>3, <2>4
<1> QED
  BY <1>1, <1>2

(* The server sends a frame.                                                *)
LEMMA ResponsesKeptByServer ==
  ASSUME SessionTypeOK, ResponsesFit, NEW f \in Frames, ServerSendsFrame(f),
         \A id \in StreamIds :
           /\ Speaks(f, id) => OpenForResponse(id) /\ response[id] # "ended"
           /\ response'[id] # "ended" => response[id] # "ended" /\ ~Ends(f, id)
  PROVE  ResponsesFit'
<1>1. /\ UNCHANGED <<streams>>
      /\ down' = Append(down, f) /\ down \in Seq(Frames)
  BY DEF ServerSendsFrame, vars, SessionTypeOK
<1>2. /\ DOMAIN down = 1 .. Len(down) /\ Len(down) \in Nat
      /\ DOMAIN down' = 1 .. Len(down) + 1
      /\ \A n \in 1 .. Len(down) : down'[n] = down[n]
      /\ down'[Len(down) + 1] = f
  BY <1>1
<1>3. Known' = Known /\ \A id \in StreamIds : OpenForResponse(id)' <=> OpenForResponse(id)
  BY <1>1 DEF Known, OpenForResponse
<1> SUFFICES ASSUME NEW id \in StreamIds
             PROVE  /\ response'[id] # "ended" =>
                         /\ id \in Known' => OpenForResponse(id)'
                         /\ \A n \in DOMAIN down' : ~Ends(down'[n], id)
                    /\ \A n \in DOMAIN down' : Speaks(down'[n], id) => OpenForResponse(id)'
                    /\ \A m, n \in DOMAIN down' :
                         m < n /\ Ends(down'[m], id) => ~Speaks(down'[n], id)
  BY DEF ResponsesFit
<1>4. \A n \in DOMAIN down' : (n \in DOMAIN down /\ down'[n] = down[n]) \/ down'[n] = f
  BY <1>2
<1>5. ASSUME NEW m \in DOMAIN down', NEW n \in DOMAIN down', m < n, Ends(down'[m], id)
      PROVE  ~Speaks(down'[n], id)
  <2>1. m \in DOMAIN down /\ down'[m] = down[m]
    BY <1>2, <1>5
  <2>2. CASE n \in DOMAIN down /\ down'[n] = down[n]
    BY <1>5, <2>1, <2>2 DEF ResponsesFit
  <2>3. CASE down'[n] = f
    <3>1. response[id] = "ended"
      BY <1>5, <2>1 DEF ResponsesFit
    <3> QED
      BY <2>3, <3>1
  <2> QED
    BY <1>4, <2>2, <2>3
<1>6. response'[id] # "ended" =>
        /\ id \in Known' => OpenForResponse(id)'
        /\ \A n \in DOMAIN down' : ~Ends(down'[n], id)
  BY <1>3, <1>4 DEF ResponsesFit
<1>7. \A n \in DOMAIN down' : Speaks(down'[n], id) => OpenForResponse(id)'
  BY <1>3, <1>4 DEF ResponsesFit
<1> QED
  BY <1>5, <1>6, <1>7

--------------------------------------------------------------------------------
(* The steps in which the client sends DATA                                 *)

Live == {OPEN, HALF_CLOSED_LOCAL, HALF_CLOSED_REMOTE, CLOSED}

(* Stream s, stored under id, becomes t and sends b bytes.                  *)
Carries(id, s, t, b) ==
  /\ b \in Nat /\ t \in Streams
  /\ streams' = [streams EXCEPT ![id] = t]
  /\ t.sendWindow = s.sendWindow - b /\ t.recvWindow = s.recvWindow
  /\ t.state \in Live
  /\ s.state \in {OPEN, HALF_CLOSED_LOCAL} => t.state \in {OPEN, HALF_CLOSED_LOCAL}
  /\ t.pending # << >> => t.state \in {OPEN, HALF_CLOSED_REMOTE}
  /\ sendWindow' = sendWindow - b
  /\ \A k \in StreamIds \ {id} : wire'[k] = wire[k]
  /\ DataSent(id) \in Seq(Frames)
  /\ \A n \in DOMAIN DataSent(id) :
       /\ DataSent(id)[n].type = "DATA"
       /\ DataSent(id)[n].id = id
       /\ DataSent(id)[n].pad = 0
  /\ \A k \in Windows :
       /\ DataIn(DataSent(id), k) = IF k \in {0, id} THEN b ELSE 0
       /\ GrantsIn(DataSent(id), k) = 0

LEMMA DataEnds ==
  ASSUME NEW state \in {OPEN, HALF_CLOSED_REMOTE}, NEW end \in BOOLEAN
  PROVE  LET after == AfterOutgoing("DATA", end, state)
         IN  /\ after \in Live
             /\ state = OPEN => after \in {OPEN, HALF_CLOSED_LOCAL}
             /\ ~end => after = state
BY DEF AfterOutgoing, LocalEnd, Live, IDLE, OPEN, HALF_CLOSED_LOCAL, HALF_CLOSED_REMOTE, CLOSED

LEMMA SendsData ==
  ASSUME IInv, NEW id \in StreamIds, NEW s \in Streams, NEW h \in Wire,
         NEW n \in 0 .. Len(s.pending), NEW completes \in BOOLEAN,
         Sound(s, h), SendPending(id, s, h, n, completes),
         h.out = wire[id].out,
         s.state \in Live,
         s.pending # << >> => s.state \in {OPEN, HALF_CLOSED_REMOTE}
  PROVE  \E b \in Nat : Carries(id, s, Sent(s, n), b)
<1> DEFINE t == Sent(s, n)
           b == Bytes(s, n)
           g == [h EXCEPT !.out    = @ + Bytes(s, n),
                          !.outEnd = @ \/ (n > 0 /\ s.pending[n].end),
                          !.late   = @ \/ (h.inEnd /\ ~completes /\ n > 0 /\ s.pending[n].end)]
<1>1. /\ s.pending \in Seq(Chunk) /\ Len(s.pending) \in Nat
      /\ h.out \in Nat /\ h.body \in Nat /\ h.outEnd \in BOOLEAN
  BY DEF Streams, Wire
<1>2. /\ b \in Nat /\ t \in Streams
      /\ t.sendWindow = s.sendWindow - b
      /\ t.pending = << >> <=> n = Len(s.pending)
      /\ n > 0 => (s.pending[n].end <=> n = Len(s.pending))
  BY <1>1, BytesType, SentInOrder DEF Sound
<1>3. ~Panics(s, n)
  <2>1. n > 0 => s.pending # << >>
    BY <1>1
  <2> QED
    BY <2>1 DEF Panics, MustBeInFor
<1>4. /\ streams' = [streams EXCEPT ![id] = t]
      /\ sendWindow' = sendWindow - b
      /\ wire' = [wire EXCEPT ![id] = g]
  BY <1>3 DEF SendPending
<1>5. /\ wire \in [StreamIds -> Wire]
      /\ \A k \in StreamIds \ {id} : wire'[k] = wire[k]
      /\ wire'[id] = g
  <2>1. wire \in [StreamIds -> Wire]
    BY DEF IInv, TypeOK
  <2> HIDE DEF g
  <2> QED
    BY <2>1, <1>4
<1>6. g.out = h.out + b /\ g.outEnd \in BOOLEAN
  <2>1. n > 0 => s.pending[n].end \in BOOLEAN
    <3>1. n > 0 => s.pending[n] \in Chunk
      BY <1>1
    <3> QED
      BY <3>1 DEF Chunk
  <2> HIDE DEF b
  <2> QED
    BY <1>1, <2>1 DEF Wire, b
<1>7. /\ t.recvWindow = s.recvWindow
      /\ t.state = IF n = 0 THEN s.state
                   ELSE AfterOutgoing("DATA", s.pending[n].end, s.state)
  BY DEF Sent, Streams
<1>8. /\ t.state \in Live
      /\ s.state \in {OPEN, HALF_CLOSED_LOCAL} => t.state \in {OPEN, HALF_CLOSED_LOCAL}
      /\ t.pending # << >> => t.state \in {OPEN, HALF_CLOSED_REMOTE}
  <2>1. CASE n = 0
    <3>1. t.pending # << >> => s.pending # << >>
      BY <1>1, <1>2, <2>1
    <3> QED
      BY <1>7, <2>1, <3>1
  <2>2. CASE n > 0
    <3>1. /\ s.pending # << >> /\ s.pending[n].end \in BOOLEAN
          /\ s.state \in {OPEN, HALF_CLOSED_REMOTE}
          /\ OPEN # HALF_CLOSED_REMOTE /\ HALF_CLOSED_LOCAL # HALF_CLOSED_REMOTE
      <4>1. s.pending # << >> /\ s.pending[n] \in Chunk
        BY <1>1, <2>2
      <4>2. s.pending[n].end \in BOOLEAN
        BY <4>1 DEF Chunk
      <4> QED
        BY <4>1, <4>2 DEF OPEN, HALF_CLOSED_REMOTE, HALF_CLOSED_LOCAL
    <3>2. t.state = AfterOutgoing("DATA", s.pending[n].end, s.state)
      BY <1>7, <2>2
    <3> HIDE DEF t
    <3>3. /\ t.state \in Live
          /\ s.state = OPEN => t.state \in {OPEN, HALF_CLOSED_LOCAL}
          /\ ~s.pending[n].end => t.state = s.state
      BY <3>1, <3>2, DataEnds
    <3> QED
      BY <1>2, <2>2, <3>1, <3>3
  <2> QED
    BY <1>1, <2>1, <2>2
<1> HIDE DEF t, b, g
<1>9. /\ DataSent(id) \in Seq(Frames)
      /\ \A m \in DOMAIN DataSent(id) :
           /\ DataSent(id)[m].type = "DATA"
           /\ DataSent(id)[m].id = id
           /\ DataSent(id)[m].pad = 0
      /\ \A k \in Windows :
           /\ DataIn(DataSent(id), k) = IF k \in {0, id} THEN b ELSE 0
           /\ GrantsIn(DataSent(id), k) = 0
  <2>1. wire'[id].out - wire[id].out = b
    BY <1>1, <1>2, <1>5, <1>6
  <2>2. CASE b = 0
    <3>1. DataSent(id) = << >>
      BY <2>1, <2>2 DEF DataSent
    <3>2. << >> \in Seq(Frames)
      OBVIOUS
    <3>3. \A k \in Windows : DataIn(<< >>, k) = 0 /\ GrantsIn(<< >>, k) = 0
      BY QueueEmpty
    <3> QED
      BY <2>2, <3>1, <3>2, <3>3
  <2>3. CASE b > 0
    <3> DEFINE f == Data(id, b, 0, wire'[id].outEnd)
    <3>1. DataSent(id) = <<f>>
      BY <2>1, <2>3 DEF DataSent
    <3>2. f \in Frames /\ f.type = "DATA" /\ f.id = id /\ f.pad = 0 /\ f.size = b
      BY <1>2, <1>5, <1>6 DEF Data, Frames
    <3> HIDE DEF f
    <3>3. ASSUME NEW k \in Windows
          PROVE  Takes(f, k) = (IF k \in {0, id} THEN b ELSE 0) /\ Grants(f, k) = 0
      BY <1>2, <3>2 DEF Takes, Grants
    <3>4. /\ <<f>> \in Seq(Frames)
          /\ \A m \in DOMAIN <<f>> : <<f>>[m] = f
      BY <3>2
    <3>5. \A k \in Windows :
            DataIn(<<f>>, k) = Takes(f, k) /\ GrantsIn(<<f>>, k) = Grants(f, k)
      BY <3>2, QueueSingle
    <3> QED
      BY <3>1, <3>2, <3>3, <3>4, <3>5
  <2> QED
    BY <1>2, <2>2, <2>3
<1>10. Carries(id, s, t, b)
  BY <1>2, <1>4, <1>5, <1>7, <1>8, <1>9 DEF Carries
<1> QED
  BY <1>2, <1>10 DEF t, b

LEMMA KnownIds ==
  0 \in Windows /\ 0 \notin StreamIds /\ Known \subseteq StreamIds /\ StreamIds \subseteq Windows
BY DEF Windows, StreamIds, Known

(* The types of the windows.                                                *)
LEMMA WindowTypes ==
  ASSUME IInv, SessionTypeOK
  PROVE  /\ sendWindow \in Int /\ recvWindow \in Int
         /\ \A k \in Windows : recv[k] \in Int /\ owed[k] \in Nat /\ send[k] \in Int
                               /\ padding[k] \in Nat
         /\ \A id \in Known : /\ streams[id] \in Streams
                              /\ streams[id].sendWindow \in Int
                              /\ streams[id].recvWindow \in Int
         /\ announced \in Int
         /\ \A id \in StreamIds : Granted(id) \in Int
<1>1. sendWindow \in Int /\ recvWindow \in Int
  BY DEF IInv, TypeOK
<1>2. \A k \in Windows : recv[k] \in Int /\ owed[k] \in Nat /\ send[k] \in Int
                        /\ padding[k] \in Nat
  BY DEF SessionTypeOK
<1>3. ASSUME NEW id \in Known
      PROVE  /\ streams[id] \in Streams
             /\ streams[id].sendWindow \in Int /\ streams[id].recvWindow \in Int
  <2>1. streams[id] \in Streams
    BY KnownStreams DEF IInv
  <2> QED
    BY <2>1 DEF Streams
<1>4. announced \in Int
  BY DEF SessionTypeOK, NotAnnounced
<1>5. ASSUME NEW id \in StreamIds PROVE Granted(id) \in Int
  <2>1. recv[id] \in Int /\ DefaultWindow \in Int
    BY <1>2, KnownIds, WindowsAssumption
  <2> QED
    BY <1>4, <2>1 DEF Granted, Drift
<1> QED
  BY <1>1, <1>2, <1>3, <1>4, <1>5

(* A stream with postponed frames sends some of them, after the client has  *)
(* taken a WINDOW_UPDATE of that stream from its queue, or nothing.         *)
LEMMA UploadStep ==
  ASSUME SInv, IInv', NEW id \in Known, NEW s, NEW t, NEW b \in Nat, NEW increment \in Nat,
         Carries(id, s, t, b),
         s.sendWindow = streams[id].sendWindow + increment,
         s.recvWindow = streams[id].recvWindow,
         s.state = streams[id].state,
         up' = up \o DataSent(id),
         \/ increment = 0 /\ down' = down
         \/ /\ down # << >> /\ down' = Tail(down)
            /\ Head(down) = WindowUpdate(id, increment),
         UNCHANGED <<promisedStreamCache, recvWindow, settings, serverVars, history>>
  PROVE  SInv'
<1> DEFINE r == DataSent(id)
<1>1. /\ id \in StreamIds /\ id # 0 /\ id \in Windows
      /\ up \in Seq(Frames) /\ down \in Seq(Frames) /\ r \in Seq(Frames)
      /\ \A n \in DOMAIN r : r[n].type = "DATA" /\ r[n].id = id /\ r[n].pad = 0
  BY KnownIds DEF SInv, SessionTypeOK, Carries
<1>2. /\ streams \in [StreamIds -> Streams \cup {NoStream}]
      /\ streams' = [streams EXCEPT ![id] = t]
      /\ t \in Streams /\ t # NoStream
  BY StreamAssumption DEF Carries, SInv, IInv, TypeOK
<1>3. /\ Known' = Known
      /\ streams'[id] = t
      /\ \A k \in Known \ {id} : streams'[k] = streams[k]
  BY <1>2 DEF Known
<1>4. /\ UNCHANGED <<announced, acked, recv, owed, send, request, response, left, early, padding>>
      /\ UNCHANGED <<promisedStreamCache, recvWindow, settings>>
  BY DEF serverVars, history
<1>5. down # << >> /\ down' = Tail(down) => Head(down).type # "SETTINGS" \/ down' = down
  BY DEF WindowUpdate
<1>6. down' \in Seq(Frames)
  BY <1>1, Shortened
<1>7. ASSUME NEW k \in Windows
      PROVE  /\ DataIn(down', k) = DataIn(down, k)
             /\ GrantsIn(down, k) = GrantsIn(down', k) + IF k = id THEN increment ELSE 0
             /\ DataIn(up', k) = DataIn(up, k) + IF k \in {0, id} THEN b ELSE 0
             /\ GrantsIn(up', k) = GrantsIn(up, k)
             /\ DataIn(down, k) \in Nat /\ GrantsIn(down, k) \in Nat
             /\ DataIn(down', k) \in Nat /\ GrantsIn(down', k) \in Nat
             /\ DataIn(up, k) \in Nat /\ GrantsIn(up, k) \in Nat
  <2>1. /\ DataIn(down, k) \in Nat /\ GrantsIn(down, k) \in Nat
        /\ DataIn(down', k) \in Nat /\ GrantsIn(down', k) \in Nat
        /\ DataIn(up, k) \in Nat /\ GrantsIn(up, k) \in Nat
    BY <1>1, <1>6, QueueAmounts
  <2>2. /\ DataIn(r, k) = IF k \in {0, id} THEN b ELSE 0
        /\ GrantsIn(r, k) = 0
    BY DEF Carries
  <2>3. /\ DataIn(up', k) = DataIn(up, k) + DataIn(r, k)
        /\ GrantsIn(up', k) = GrantsIn(up, k) + GrantsIn(r, k)
    BY <1>1, QueueJoined
  <2>4. /\ DataIn(down', k) = DataIn(down, k)
        /\ GrantsIn(down, k) = GrantsIn(down', k) + IF k = id THEN increment ELSE 0
    <3>1. CASE increment = 0 /\ down' = down
      BY <2>1, <3>1
    <3>2. CASE /\ down # << >> /\ down' = Tail(down)
               /\ Head(down) = WindowUpdate(id, increment)
      <4>1. /\ DataIn(down, k) = Takes(Head(down), k) + DataIn(down', k)
            /\ GrantsIn(down, k) = Grants(Head(down), k) + GrantsIn(down', k)
        BY <1>1, <3>2, QueueShortened
      <4>2. Takes(Head(down), k) = 0 /\ Grants(Head(down), k) = IF k = id THEN increment ELSE 0
        BY <3>2 DEF Takes, Grants, WindowUpdate
      <4> QED
        BY <2>1, <4>1, <4>2
    <3> QED
      BY <3>1, <3>2
  <2> HIDE DEF r
  <2> QED
    BY <2>1, <2>2, <2>3, <2>4
<1>8. SessionTypeOK'
  <2>1. up' \in Seq(Frames) /\ \A n \in DOMAIN up' : up'[n].type = "DATA" => up'[n].pad = 0
    <3>1. \A n \in DOMAIN up : up[n].type = "DATA" => up[n].pad = 0
      BY DEF SInv, SessionTypeOK
    <3> HIDE DEF r
    <3>2. /\ up \o r \in Seq(Frames)
          /\ \A n \in DOMAIN (up \o r) :
               \/ n \in DOMAIN up /\ (up \o r)[n] = up[n]
               \/ n - Len(up) \in DOMAIN r /\ (up \o r)[n] = r[n - Len(up)]
      BY <1>1, Joined
    <3> QED
      BY <1>1, <3>1, <3>2 DEF r
  <2> QED
    BY <1>4, <1>6, <2>1 DEF SInv, SessionTypeOK
<1>9. SettingsFit'
  <2>1. SameOf(down, down', "SETTINGS")
    <3>1. CASE down' = down
      BY <3>1, SameQueue
    <3>2. CASE down # << >> /\ down' = Tail(down) /\ Head(down) = WindowUpdate(id, increment)
      BY <1>1, <3>2, SameShortened DEF WindowUpdate
    <3> QED
      BY <3>1, <3>2
  <2>2. SameOf(up, up', "ACK")
    <3>1. \A n \in DOMAIN r : r[n].type # "ACK"
      BY <1>1
    <3> QED
      BY <1>1, <3>1, SameJoined
  <2> QED
    BY <1>4, <2>1, <2>2, SettingsKept DEF SInv
<1>10. StreamsFit'
  BY <1>3, <1>4 DEF SInv, StreamsFit, Carries, Live
<1>11. RequestsFit'
  <2>1. \A n \in DOMAIN r, k \in StreamIds : Concerns(r[n], k) => k = id
    BY <1>1 DEF Concerns
  <2>2. \A k \in StreamIds \ Known : wire'[k].out = wire[k].out
    BY DEF Carries
  <2>3. \A n \in DOMAIN r : r[n].type = "DATA"
    BY <1>1
  <2> HIDE DEF r
  <2> QED
    BY <1>1, <1>3, <1>4, <2>1, <2>2, <2>3, RequestsKept DEF SInv, r
<1>12. ResponsesFit'
  <2>1. \A k \in Known : OpenForResponse(k) => OpenForResponse(k)'
    BY <1>3 DEF OpenForResponse, Carries
  <2> QED
    BY <1>3, <1>4, <2>1, ResponsesKept DEF SInv
<1>13. UploadFits'
  <2>1. sendWindow' = sendWindow - b /\ t.sendWindow = s.sendWindow - b
    BY DEF Carries
  <2>2. /\ sendWindow = recv[0] - GrantsIn(down, 0) - DataIn(up, 0)
        /\ recv[0] \in Int /\ sendWindow \in Int
    BY KnownIds, WindowTypes DEF SInv, UploadFits
  <2>3. sendWindow' = recv'[0] - GrantsIn(down', 0) - DataIn(up', 0)
    <3>1. /\ GrantsIn(down', 0) = GrantsIn(down, 0) /\ DataIn(up', 0) = DataIn(up, 0) + b
          /\ GrantsIn(down, 0) \in Nat /\ DataIn(up, 0) \in Nat
      BY <1>1, <1>7, KnownIds
    <3> QED
      BY <1>4, <2>1, <2>2, <3>1
  <2>4. ASSUME NEW k \in Known
        PROVE  streams'[k].sendWindow = Granted(k)' - GrantsIn(down', k) - DataIn(up', k)
    <3>1. Granted(k)' = Granted(k)
      BY <1>4 DEF Granted, Drift
    <3>2. /\ streams[k].sendWindow = Granted(k) - GrantsIn(down, k) - DataIn(up, k)
          /\ k \in Windows /\ k # 0
      BY KnownIds DEF SInv, UploadFits
    <3>3. Granted(k) \in Int /\ streams[k].sendWindow \in Int
      BY KnownIds, WindowTypes DEF SInv
    <3>4. CASE k = id
      <4>1. s.sendWindow = streams[id].sendWindow + increment /\ streams'[id] = t
        BY <1>3
      <4>2. streams'[id].sendWindow = streams[id].sendWindow + increment - b
        BY <2>1, <3>3, <3>4, <4>1
      <4>3. /\ GrantsIn(down, id) = GrantsIn(down', id) + increment
            /\ DataIn(up', id) = DataIn(up, id) + b
            /\ GrantsIn(down', id) \in Nat /\ DataIn(up, id) \in Nat
        BY <1>1, <1>7
      <4>4. streams[id].sendWindow = Granted(id) - GrantsIn(down, id) - DataIn(up, id)
        BY <3>2, <3>4
      <4>5. Granted(id)' = Granted(id) /\ Granted(id) \in Int
        BY <3>1, <3>3, <3>4
      <4>6. streams'[id].sendWindow = Granted(id)' - GrantsIn(down', id) - DataIn(up', id)
        BY <4>2, <4>3, <4>4, <4>5
      <4> QED
        BY <3>4, <4>6
    <3>5. CASE k # id
      <4>1. streams'[k].sendWindow = streams[k].sendWindow
        BY <1>3, <3>5
      <4> QED
        BY <1>7, <3>1, <3>2, <3>3, <3>5, <4>1
    <3> QED
      BY <3>4, <3>5
  <2> QED
    BY <1>3, <2>3, <2>4 DEF UploadFits
<1>14. DownloadWindowsAgree'
  <2>1. \A k \in Known : streams'[k].recvWindow = streams[k].recvWindow
    BY <1>3 DEF Carries
  <2> QED
    BY <1>3, <1>4, <1>7, <2>1, KnownIds DEF SInv, DownloadWindowsAgree
<1> QED
  BY <1>8, <1>9, <1>10, <1>11, <1>12, <1>13, <1>14 DEF SInv

LEMMA ClientFlushesStep ==
  ASSUME SInv, NEW id \in toFlush, ClientFlushes(id)
  PROVE  SInv'
<1>1. IInv /\ IInv' /\ id \in Known
  BY FlushNextStep DEF SInv, IInv, ClientFlushes
<1>2. streams[id] \in Streams /\ wire[id] \in Wire /\ id \in StreamIds
      /\ Sound(streams[id], wire[id])
  BY <1>1, KnownStreams DEF IInv
<1>3. PICK n \in 0 .. Len(streams[id].pending) :
        SendPending(id, streams[id], wire[id], n, FALSE)
  BY DEF ClientFlushes, FlushNext
<1>4. /\ streams[id].state \in Live
      /\ streams[id].pending # << >> => streams[id].state \in {OPEN, HALF_CLOSED_REMOTE}
  BY <1>1 DEF SInv, StreamsFit, Live
<1>5. PICK b \in Nat : Carries(id, streams[id], Sent(streams[id], n), b)
  BY <1>1, <1>2, <1>3, <1>4, SendsData
<1>6. streams[id].sendWindow = streams[id].sendWindow + 0
  BY <1>2 DEF Streams
<1>7. /\ up' = up \o DataSent(id) /\ down' = down
      /\ UNCHANGED <<promisedStreamCache, recvWindow, settings, serverVars, history>>
  BY DEF ClientFlushes, FlushNext
<1> QED
  BY <1>1, <1>5, <1>6, <1>7, UploadStep

(* What the head of a queue tells.                                          *)
LEMMA AboutHead ==
  ASSUME SInv, down # << >>
  PROVE  /\ Head(down) \in Frames /\ Tail(down) \in Seq(Frames) /\ down \in Seq(Frames)
         /\ \A id \in StreamIds : Concerns(Head(down), id) => id \in Known /\ request[id] # "none"
         /\ \A id \in StreamIds : Speaks(Head(down), id) => OpenForResponse(id)
         /\ Head(down).type = "SETTINGS" => Has(down, "SETTINGS") /\ Head(down).size = announced
<1>1. down \in Seq(Frames)
  BY DEF SInv, SessionTypeOK
<1>2. Head(down) \in Frames /\ Tail(down) \in Seq(Frames) /\ Head(down) = down[1] /\ 1 \in DOMAIN down
  BY <1>1, Shortened
<1>3. ASSUME NEW id \in StreamIds, Concerns(Head(down), id)
      PROVE  id \in Known /\ request[id] # "none"
  BY <1>2, <1>3 DEF SInv, RequestsFit
<1>4. \A id \in StreamIds : Speaks(Head(down), id) => OpenForResponse(id)
  BY <1>2 DEF SInv, ResponsesFit
<1>5. Head(down).type = "SETTINGS" => Has(down, "SETTINGS") /\ Head(down).size = announced
  BY <1>2 DEF SInv, SettingsFit, Has
<1> QED
  BY <1>1, <1>2, <1>3, <1>4, <1>5

LEMMA StreamWindowUpdateStep ==
  ASSUME SInv, down # << >>, down' = Tail(down),
         Head(down).type = "WINDOW_UPDATE", Head(down).id # 0,
         ClientHandlesWindowUpdate(Head(down)),
         UNCHANGED <<serverVars, early>>
  PROVE  SInv'
<1> DEFINE f == Head(down)
           id == f.id
           increment == f.size
           s == ReceiveWindowUpdate(GetOrCreateStream(id), increment)
           h == [Recorded(id) EXCEPT !.credit = @ + increment]
<1>1. id \in StreamIds /\ increment \in Nat /\ f = WindowUpdate(id, increment)
  BY AboutHead DEF Frames, Windows, WindowUpdate
<1>2. id \in Known
  BY <1>1, AboutHead DEF Concerns
<1> HIDE DEF f, id, increment
<1>3. IInv /\ HandleStreamWindowUpdate(id, increment)
  BY DEF SInv, ClientHandlesWindowUpdate, f, id, increment
<1>4. IInv'
  BY <1>1, <1>3, HandleStreamWindowUpdateStep
<1>5. PICK n \in 0 .. Len(s.pending) : SendPending(id, s, h, n, TRUE)
  BY <1>3 DEF HandleStreamWindowUpdate
<1>6. /\ GetOrCreateStream(id) = streams[id] /\ Recorded(id) = wire[id]
      /\ streams[id] \in Streams /\ wire[id] \in Wire
  BY <1>2, <1>3, KnownStreams DEF IInv, GetOrCreateStream, Recorded
<1>7. s \in Streams /\ s.state = streams[id].state /\ h \in Wire /\ Sound(s, h)
  BY <1>1, <1>3, <1>6, WindowOpens
<1>8. /\ s.sendWindow = streams[id].sendWindow + increment
      /\ s.recvWindow = streams[id].recvWindow
      /\ s.pending = streams[id].pending
      /\ h.out = wire[id].out
  BY <1>6 DEF ReceiveWindowUpdate, Streams, Wire
<1>9. /\ s.state \in Live
      /\ s.pending # << >> => s.state \in {OPEN, HALF_CLOSED_REMOTE}
  BY <1>2, <1>7, <1>8 DEF SInv, StreamsFit, Live
<1> HIDE DEF s, h
<1>10. PICK b \in Nat : Carries(id, s, Sent(s, n), b)
  BY <1>1, <1>3, <1>5, <1>7, <1>8, <1>9, SendsData
<1>11. /\ up' = up \o DataSent(id)
       /\ UNCHANGED <<promisedStreamCache, recvWindow, settings, serverVars, history>>
  BY <1>3 DEF ClientHandlesWindowUpdate, HandleStreamWindowUpdate, f, id, history
<1>12. down # << >> /\ down' = Tail(down) /\ Head(down) = WindowUpdate(id, increment)
  BY <1>1 DEF f
<1> QED
  BY <1>1, <1>2, <1>4, <1>7, <1>8, <1>10, <1>11, <1>12, UploadStep

--------------------------------------------------------------------------------
(* The steps in which the client handles a frame and sends no DATA          *)

(* END_STREAM from the server.                                              *)
Closes(before, after) ==
  \/ before = OPEN /\ after = HALF_CLOSED_REMOTE
  \/ before = HALF_CLOSED_LOCAL /\ after = CLOSED

(* The client takes the head of its queue and sends the frames r.           *)
Handles(r) ==
  /\ down # << >> /\ down' = Tail(down)
  /\ r \in Seq(Frames) /\ up' = up \o r
  /\ UNCHANGED <<serverVars, early, promisedStreamCache>>
  /\ Known' = Known
  /\ \A id \in Known :
       /\ streams'[id].pending = streams[id].pending
       /\ \/ streams'[id].state = streams[id].state
          \/ Ends(Head(down), id) /\ Closes(streams[id].state, streams'[id].state)
  /\ \A id \in StreamIds \ Known : wire'[id].out = wire[id].out
  /\ padding' \in [Windows -> Nat]
  /\ \A id \in StreamIds : padding'[id] = padding[id] \/ Concerns(Head(down), id)
  /\ \A n \in DOMAIN r : r[n].type \in {"ACK", "WINDOW_UPDATE"}
  /\ \A n \in DOMAIN r, id \in StreamIds : Concerns(r[n], id) => Concerns(Head(down), id)

(* What becomes of the queues, and what is kept whatever the windows are.   *)
LEMMA HandledFrame ==
  ASSUME SInv, NEW r, Handles(r)
  PROVE  /\ SessionTypeOK' /\ StreamsFit' /\ RequestsFit' /\ ResponsesFit'
         /\ \A k \in Windows :
              /\ DataIn(down, k) = Takes(Head(down), k) + DataIn(down', k)
              /\ GrantsIn(down, k) = Grants(Head(down), k) + GrantsIn(down', k)
              /\ DataIn(up', k) = DataIn(up, k)
              /\ GrantsIn(up', k) = GrantsIn(up, k) + GrantsIn(r, k)
              /\ DataIn(up, k) \in Nat /\ GrantsIn(up, k) \in Nat /\ GrantsIn(r, k) \in Nat
              /\ DataIn(down', k) \in Nat /\ GrantsIn(down', k) \in Nat
              /\ Takes(Head(down), k) \in Nat /\ Grants(Head(down), k) \in Nat
<1>1. /\ down # << >> /\ down' = Tail(down) /\ up' = up \o r /\ r \in Seq(Frames)
      /\ up \in Seq(Frames) /\ down \in Seq(Frames) /\ down' \in Seq(Frames)
      /\ Head(down) \in Frames
  BY AboutHead DEF Handles, SInv, SessionTypeOK
<1>2. /\ \A id \in StreamIds : Concerns(Head(down), id) => id \in Known /\ request[id] # "none"
      /\ \A id \in StreamIds : Speaks(Head(down), id) => OpenForResponse(id)
  BY <1>1, AboutHead
<1>3. /\ UNCHANGED <<announced, acked, recv, owed, send, request, response, left, early>>
      /\ UNCHANGED promisedStreamCache
      /\ Known' = Known
  BY DEF Handles, serverVars
<1>4. /\ up' \in Seq(Frames)
      /\ \A n \in DOMAIN up' : up'[n].type = "DATA" => up'[n].pad = 0
  <2>1. \A n \in DOMAIN up : up[n].type = "DATA" => up[n].pad = 0
    BY DEF SInv, SessionTypeOK
  <2>2. /\ up \o r \in Seq(Frames)
        /\ \A n \in DOMAIN (up \o r) :
             \/ n \in DOMAIN up /\ (up \o r)[n] = up[n]
             \/ n - Len(up) \in DOMAIN r /\ (up \o r)[n] = r[n - Len(up)]
    BY <1>1, Joined
  <2>3. \A n \in DOMAIN r : r[n].type # "DATA"
    BY DEF Handles
  <2> QED
    BY <1>1, <2>1, <2>2, <2>3
<1>5. SessionTypeOK'
  BY <1>1, <1>3, <1>4 DEF SInv, SessionTypeOK, Handles
<1>6. StreamsFit'
  <2>1. ASSUME NEW id \in Known
        PROVE  /\ Odd(id)
               /\ streams'[id].state \in {OPEN, HALF_CLOSED_LOCAL, HALF_CLOSED_REMOTE, CLOSED}
               /\ streams'[id].pending # << >> => streams'[id].state \in {OPEN, HALF_CLOSED_REMOTE}
    <3>1. /\ Odd(id)
          /\ streams[id].state \in {OPEN, HALF_CLOSED_LOCAL, HALF_CLOSED_REMOTE, CLOSED}
          /\ streams[id].pending # << >> => streams[id].state \in {OPEN, HALF_CLOSED_REMOTE}
      BY DEF SInv, StreamsFit
    <3>2. HALF_CLOSED_LOCAL # OPEN /\ HALF_CLOSED_LOCAL # HALF_CLOSED_REMOTE
      BY DEF OPEN, HALF_CLOSED_LOCAL, HALF_CLOSED_REMOTE
    <3>3. /\ streams'[id].pending = streams[id].pending
          /\ \/ streams'[id].state = streams[id].state
             \/ Closes(streams[id].state, streams'[id].state)
      BY DEF Handles
    <3> QED
      BY <3>1, <3>2, <3>3 DEF Closes
  <2> QED
    BY <1>3, <2>1 DEF SInv, StreamsFit
<1>7. RequestsFit'
  <2>1. \A id \in StreamIds : request[id] = "none" => padding'[id] = padding[id]
    BY <1>2 DEF Handles
  <2>2. \A n \in DOMAIN r, id \in StreamIds : Concerns(r[n], id) =>
          id \in Known /\ (request[id] = "none" => r[n].type # "WINDOW_UPDATE")
    BY <1>2 DEF Handles
  <2>3. \A n \in DOMAIN r : r[n].type \in {"ACK", "DATA", "WINDOW_UPDATE"}
    BY DEF Handles
  <2>4. \A id \in StreamIds \ Known : wire'[id].out = wire[id].out
    BY DEF Handles
  <2> QED
    BY <1>1, <1>3, <2>1, <2>2, <2>3, <2>4, RequestsKept DEF SInv
<1>8. ResponsesFit'
  <2>1. \A id \in Known :
          \/ OpenForResponse(id) => OpenForResponse(id)'
          \/ down # << >> /\ down' = Tail(down) /\ Ends(Head(down), id)
    BY <1>1, <1>3 DEF Handles, OpenForResponse
  <2> QED
    BY <1>1, <1>3, <2>1, ResponsesKept DEF SInv
<1>9. ASSUME NEW k \in Windows
      PROVE  /\ DataIn(down, k) = Takes(Head(down), k) + DataIn(down', k)
             /\ GrantsIn(down, k) = Grants(Head(down), k) + GrantsIn(down', k)
             /\ DataIn(up', k) = DataIn(up, k)
             /\ GrantsIn(up', k) = GrantsIn(up, k) + GrantsIn(r, k)
             /\ DataIn(up, k) \in Nat /\ GrantsIn(up, k) \in Nat /\ GrantsIn(r, k) \in Nat
             /\ DataIn(down', k) \in Nat /\ GrantsIn(down', k) \in Nat
             /\ Takes(Head(down), k) \in Nat /\ Grants(Head(down), k) \in Nat
  <2>1. /\ DataIn(up, k) \in Nat /\ GrantsIn(up, k) \in Nat /\ GrantsIn(r, k) \in Nat
        /\ DataIn(down', k) \in Nat /\ GrantsIn(down', k) \in Nat
        /\ Takes(Head(down), k) \in Nat /\ Grants(Head(down), k) \in Nat
    BY <1>1, QueueAmounts, FrameAmounts
  <2>2. /\ DataIn(down, k) = Takes(Head(down), k) + DataIn(down', k)
        /\ GrantsIn(down, k) = Grants(Head(down), k) + GrantsIn(down', k)
    BY <1>1, QueueShortened
  <2>3. /\ DataIn(up', k) = DataIn(up, k) + DataIn(r, k)
        /\ GrantsIn(up', k) = GrantsIn(up, k) + GrantsIn(r, k)
    BY <1>1, QueueJoined
  <2>4. DataIn(r, k) = 0
    <3>1. \A n \in DOMAIN r : Takes(r[n], k) = 0
      BY DEF Handles, Takes
    <3> QED
      BY <1>1, <3>1, NothingInQueue
  <2> QED
    BY <2>1, <2>2, <2>3, <2>4
<1> QED
  BY <1>5, <1>6, <1>7, <1>8, <1>9

(* A frame that is no SETTINGS.                                             *)
LEMMA HandledSettingsFit ==
  ASSUME SInv, NEW r, Handles(r), UNCHANGED settings,
         Head(down).type # "SETTINGS", \A n \in DOMAIN r : r[n].type # "ACK"
  PROVE  SettingsFit'
<1>1. /\ down # << >> /\ down' = Tail(down) /\ up' = up \o r /\ r \in Seq(Frames)
      /\ up \in Seq(Frames) /\ down \in Seq(Frames)
  BY DEF Handles, SInv, SessionTypeOK
<1>2. SameOf(down, down', "SETTINGS")
  BY <1>1, SameShortened
<1>3. SameOf(up, up', "ACK")
  BY <1>1, SameJoined
<1>4. UNCHANGED <<announced, acked, settings>>
  BY DEF Handles, serverVars
<1> QED
  BY <1>2, <1>3, <1>4, SettingsKept DEF SInv

LEMMA ConnectionWindowUpdateStep ==
  ASSUME SInv, down # << >>, down' = Tail(down),
         Head(down).type = "WINDOW_UPDATE", Head(down).id = 0,
         ClientHandlesWindowUpdate(Head(down)),
         UNCHANGED <<serverVars, early>>
  PROVE  SInv'
<1> DEFINE increment == Head(down).size
<1>1. increment \in Nat
  BY AboutHead DEF Frames
<1>2. HandleWindowUpdate(increment) /\ UNCHANGED <<up, padding>>
  BY DEF ClientHandlesWindowUpdate
<1>3. /\ UNCHANGED <<streams, promisedStreamCache, recvWindow, settings, wire>>
      /\ sendWindow' = sendWindow + increment
  BY <1>2 DEF HandleWindowUpdate
<1>4. IInv'
  BY <1>1, <1>2, HandleWindowUpdateStep DEF SInv
<1>5. Handles(<< >>)
  <2>1. << >> \in Seq(Frames) /\ up' = up \o << >>
    BY <1>2 DEF SInv, SessionTypeOK
  <2>2. padding' \in [Windows -> Nat] /\ \A id \in StreamIds : padding'[id] = padding[id]
    BY <1>2 DEF SInv, SessionTypeOK
  <2> QED
    BY <1>3, <2>1, <2>2 DEF Handles, Known
<1>6. SettingsFit'
  BY <1>3, <1>5, HandledSettingsFit
<1>7. /\ SessionTypeOK' /\ StreamsFit' /\ RequestsFit' /\ ResponsesFit'
      /\ \A k \in Windows :
              /\ DataIn(down, k) = Takes(Head(down), k) + DataIn(down', k)
              /\ GrantsIn(down, k) = Grants(Head(down), k) + GrantsIn(down', k)
              /\ DataIn(up, k) \in Nat
              /\ DataIn(down', k) \in Nat /\ GrantsIn(down', k) \in Nat
  BY <1>5, HandledFrame
<1>8. \A k \in Windows : /\ Takes(Head(down), k) = 0
                         /\ Grants(Head(down), k) = IF k = 0 THEN increment ELSE 0
  BY DEF Takes, Grants
<1>9. /\ UNCHANGED <<announced, acked, recv, send, request, early, padding, up>>
      /\ Known' = Known
  BY <1>2, <1>3 DEF serverVars, Known
<1>10. UploadFits'
  <2>1. /\ sendWindow = recv[0] - GrantsIn(down, 0) - DataIn(up, 0)
        /\ recv[0] \in Int /\ sendWindow \in Int
    BY KnownIds, WindowTypes DEF SInv, UploadFits
  <2>2. GrantsIn(down, 0) = increment + GrantsIn(down', 0)
    BY <1>7, <1>8, KnownIds
  <2>3. sendWindow' = recv[0] - GrantsIn(down', 0) - DataIn(up, 0)
    <3> DEFINE a == recv[0]
               b == GrantsIn(down', 0)
               e == DataIn(up, 0)
    <3>1. a \in Int /\ b \in Nat /\ e \in Nat
      BY <1>7, <2>1, KnownIds
    <3>2. sendWindow' = sendWindow + increment /\ sendWindow = a - (increment + b) - e
      BY <1>3, <2>1, <2>2
    <3> HIDE DEF a, b, e, increment
    <3>3. (a - (increment + b) - e) + increment = a - b - e
      BY <1>1, <3>1
    <3> QED
      BY <3>2, <3>3 DEF a, b, e
  <2>4. ASSUME NEW id \in Known
        PROVE  streams[id].sendWindow = Granted(id)' - GrantsIn(down', id) - DataIn(up, id)
    <3>1. id \in Windows /\ id # 0
      BY KnownIds
    <3>2. GrantsIn(down, id) = GrantsIn(down', id)
      BY <1>7, <1>8, <3>1
    <3>3. Granted(id)' = Granted(id)
      BY <1>9 DEF Granted, Drift
    <3> QED
      BY <3>2, <3>3 DEF SInv, UploadFits
  <2> QED
    BY <1>3, <1>9, <2>3, <2>4 DEF UploadFits
<1>11. DownloadWindowsAgree'
  <2>1. \A k \in Windows : DataIn(down', k) = DataIn(down, k)
    BY <1>7, <1>8
  <2> QED
    BY <1>3, <1>9, <2>1, KnownIds DEF SInv, DownloadWindowsAgree
<1> QED
  BY <1>4, <1>6, <1>7, <1>10, <1>11 DEF SInv

LEMMA SettingsStep ==
  ASSUME SInv, down # << >>, down' = Tail(down),
         Head(down).type = "SETTINGS", ClientHandlesSettings(Head(down)),
         UNCHANGED <<serverVars, early>>
  PROVE  SInv'
<1> DEFINE window == Head(down).size
<1>1. /\ window \in Nat /\ window = announced /\ Has(down, "SETTINGS")
      /\ down \in Seq(Frames) /\ up \in Seq(Frames)
  BY AboutHead DEF Frames, SInv, SessionTypeOK
<1>2. /\ HandleSettings(settings.serverFrameSize, window)
      /\ up' = Append(up, Ack) /\ UNCHANGED padding
  BY DEF ClientHandlesSettings
<1>3. /\ UNCHANGED <<streams, promisedStreamCache, sendWindow, recvWindow, wire>>
      /\ settings'.initialSendWindow = announced
  BY <1>1, <1>2 DEF HandleSettings
<1>4. settings.serverFrameSize \in Nat \ {0}
  BY DEF SInv, IInv, TypeOK, Settings
<1>5. IInv'
  BY <1>1, <1>2, <1>4, HandleSettingsStep DEF SInv
<1>6. Ack \in Frames /\ Ack.type = "ACK" /\ <<Ack>> \in Seq(Frames) /\ up' = up \o <<Ack>>
      /\ \A n \in DOMAIN <<Ack>> : <<Ack>>[n] = Ack
  <2>1. Ack \in Frames /\ Ack.type = "ACK"
    BY DEF Ack, Frames
  <2> QED
    BY <1>1, <1>2, <2>1
<1>7. Handles(<<Ack>>)
  <2>1. \A n \in DOMAIN <<Ack>> : <<Ack>>[n].type = "ACK"
    BY <1>6
  <2>2. \A n \in DOMAIN <<Ack>>, id \in StreamIds : ~Concerns(<<Ack>>[n], id)
    BY <2>1 DEF Concerns
  <2>3. padding' \in [Windows -> Nat] /\ \A id \in StreamIds : padding'[id] = padding[id]
    BY <1>2 DEF SInv, SessionTypeOK
  <2> QED
    BY <1>3, <1>6, <2>1, <2>2, <2>3 DEF Handles, Known
<1>8. /\ SessionTypeOK' /\ StreamsFit' /\ RequestsFit' /\ ResponsesFit'
      /\ \A k \in Windows :
              /\ DataIn(down, k) = Takes(Head(down), k) + DataIn(down', k)
              /\ GrantsIn(down, k) = Grants(Head(down), k) + GrantsIn(down', k)
              /\ DataIn(up', k) = DataIn(up, k)
              /\ GrantsIn(up', k) = GrantsIn(up, k) + GrantsIn(<<Ack>>, k)
              /\ DataIn(up, k) \in Nat /\ GrantsIn(up, k) \in Nat
              /\ DataIn(down', k) \in Nat /\ GrantsIn(down', k) \in Nat
  BY <1>7, HandledFrame
<1>9. ASSUME NEW k \in Windows
      PROVE  /\ DataIn(down', k) = DataIn(down, k) /\ GrantsIn(down', k) = GrantsIn(down, k)
             /\ DataIn(up', k) = DataIn(up, k) /\ GrantsIn(up', k) = GrantsIn(up, k)
  <2>1. Takes(Head(down), k) = 0 /\ Grants(Head(down), k) = 0 /\ Grants(Ack, k) = 0
    BY <1>6 DEF Takes, Grants
  <2>2. GrantsIn(<<Ack>>, k) = 0
    BY <1>6, <2>1, QueueSingle
  <2> QED
    BY <1>8, <2>1, <2>2
<1>10. /\ UNCHANGED <<announced, acked, recv, send, request, early, padding>>
       /\ Known' = Known
  BY <1>2, <1>3 DEF serverVars, Known
<1>11. SettingsFit'
  <2>1. ~acked /\ ~Has(up, "ACK") /\ announced # NotAnnounced /\ Once(down, "SETTINGS")
    BY <1>1 DEF SInv, SettingsFit
  <2>2. \A n \in DOMAIN down' : down'[n].type # "SETTINGS"
    <3>1. /\ Head(down) = down[1] /\ 1 \in DOMAIN down
          /\ \A n \in DOMAIN Tail(down) : n >= 1 /\ n \in Nat /\ n + 1 \in DOMAIN down
                                          /\ Tail(down)[n] = down[n + 1]
      BY <1>1, Shortened
    <3>2. ASSUME NEW n \in DOMAIN Tail(down), Tail(down)[n].type = "SETTINGS" PROVE FALSE
      <4>1. n + 1 = 1
        BY <2>1, <3>1, <3>2 DEF Once
      <4> QED
        BY <3>1, <4>1
    <3> QED
      BY <3>2
  <2>3. Has(up', "ACK") /\ Once(up', "ACK")
    <3>1. /\ DOMAIN up = 1 .. Len(up) /\ Len(up) \in Nat
          /\ DOMAIN up' = 1 .. Len(up) + 1
          /\ \A n \in 1 .. Len(up) : up'[n] = up[n]
          /\ up'[Len(up) + 1] = Ack
      BY <1>1, <1>2
    <3> QED
      BY <1>6, <2>1, <3>1 DEF Has, Once
  <2> QED
    BY <1>3, <1>10, <2>1, <2>2, <2>3 DEF SettingsFit, Unsettled, Has, Once
<1>12. UploadFits'
  <2>1. \A id \in StreamIds : Granted(id)' = Granted(id)
    BY <1>10 DEF Granted, Drift
  <2> QED
    BY <1>3, <1>9, <1>10, <2>1, KnownIds DEF SInv, UploadFits
<1>13. DownloadWindowsAgree'
  BY <1>3, <1>9, <1>10, KnownIds DEF SInv, DownloadWindowsAgree
<1> QED
  BY <1>5, <1>8, <1>11, <1>12, <1>13 DEF SInv

(* A response is accepted, and its frames keep the state or end the stream. *)
LEMMA IncomingEnds ==
  ASSUME NEW type \in {"HEADERS", "DATA"}, NEW end \in BOOLEAN,
         NEW state \in {OPEN, HALF_CLOSED_LOCAL}
  PROVE  /\ state \in AcceptedIn(type)
         /\ \/ AfterIncoming(type, end, state) = state
            \/ end /\ Closes(state, AfterIncoming(type, end, state))
BY DEF AcceptedIn, AfterIncoming, RemoteEnd, Closes, IDLE, OPEN, HALF_CLOSED_LOCAL,
       HALF_CLOSED_REMOTE, RESERVED_REMOTE, CLOSED

LEMMA HeadersStep ==
  ASSUME SInv, down # << >>, down' = Tail(down),
         Head(down).type = "HEADERS", ClientHandlesHeaders(Head(down)),
         UNCHANGED <<serverVars, early>>
  PROVE  SInv'
<1> DEFINE id == Head(down).id
           end == Head(down).end
           s == streams[id]
           t == [s EXCEPT !.state = AfterIncoming("HEADERS", end, @)]
<1>1. /\ id \in StreamIds /\ end \in BOOLEAN /\ Speaks(Head(down), id)
      /\ id \in Known /\ s.state \in {OPEN, HALF_CLOSED_LOCAL}
  <2>1. id \in StreamIds /\ end \in BOOLEAN /\ Speaks(Head(down), id)
    BY AboutHead DEF Frames, Speaks
  <2> QED
    BY <2>1, AboutHead DEF OpenForResponse
<1>2. s \in Streams /\ GetOrCreateStream(id) = s
  BY <1>1, KnownStreams DEF SInv, IInv, GetOrCreateStream
<1>3. HandleHeaders(id, end, TRUE) /\ UNCHANGED <<up, padding>>
  BY DEF ClientHandlesHeaders
<1>4. /\ s.state \in AcceptedIn("HEADERS")
      /\ \/ AfterIncoming("HEADERS", end, s.state) = s.state
         \/ end /\ Closes(s.state, AfterIncoming("HEADERS", end, s.state))
  BY <1>1, IncomingEnds
<1>5. ReceiveHeaders(GetOrCreateStream(id), end, TRUE) = t
  BY <1>2, <1>4 DEF ReceiveHeaders
<1>6. /\ streams' = [streams EXCEPT ![id] = t]
      /\ \A k \in StreamIds \ {id} : wire'[k] = wire[k]
      /\ UNCHANGED <<promisedStreamCache, sendWindow, recvWindow, settings>>
  <2>1. wire \in [StreamIds -> Wire]
    BY DEF SInv, IInv, TypeOK
  <2> HIDE DEF t, s, end, id
  <2> QED
    BY <1>1, <1>3, <1>5, <2>1 DEF HandleHeaders, Received
<1>7. IInv'
  BY <1>1, <1>3, HandleHeadersStep DEF SInv
<1>8. /\ t \in Streams /\ t.pending = s.pending
      /\ t.sendWindow = s.sendWindow /\ t.recvWindow = s.recvWindow
      /\ t.state = AfterIncoming("HEADERS", end, s.state)
  BY <1>2, StatesType DEF Streams
<1> HIDE DEF t
<1>9. /\ Known' = Known /\ streams'[id] = t
      /\ \A k \in Known \ {id} : streams'[k] = streams[k]
  BY <1>1, <1>6, <1>8, StreamAssumption DEF SInv, IInv, TypeOK, Known
<1>10. Handles(<< >>)
  <2>1. << >> \in Seq(Frames) /\ up' = up \o << >>
    BY <1>3 DEF SInv, SessionTypeOK
  <2>2. padding' \in [Windows -> Nat] /\ \A k \in StreamIds : padding'[k] = padding[k]
    BY <1>3 DEF SInv, SessionTypeOK
  <2>3. end => Ends(Head(down), id)
    BY <1>1 DEF Ends
  <2>4. ASSUME NEW k \in Known
        PROVE  /\ streams'[k].pending = streams[k].pending
               /\ \/ streams'[k].state = streams[k].state
                  \/ Ends(Head(down), k) /\ Closes(streams[k].state, streams'[k].state)
    <3>1. CASE k = id
      <4>1. /\ streams'[id].pending = streams[id].pending
            /\ \/ streams'[id].state = streams[id].state
               \/ Ends(Head(down), id) /\ Closes(streams[id].state, streams'[id].state)
        BY <1>4, <1>8, <1>9, <2>3
      <4> QED
        BY <3>1, <4>1
    <3>2. CASE k # id
      BY <1>9, <3>2
    <3> QED
      BY <3>1, <3>2
  <2>5. \A k \in StreamIds \ Known : wire'[k].out = wire[k].out
    BY <1>1, <1>6
  <2> QED
    BY <1>6, <1>9, <2>1, <2>2, <2>4, <2>5 DEF Handles
<1>11. SettingsFit'
  BY <1>6, <1>10, HandledSettingsFit
<1>12. /\ SessionTypeOK' /\ StreamsFit' /\ RequestsFit' /\ ResponsesFit'
       /\ \A k \in Windows :
              /\ DataIn(down, k) = Takes(Head(down), k) + DataIn(down', k)
              /\ GrantsIn(down, k) = Grants(Head(down), k) + GrantsIn(down', k)
              /\ DataIn(down', k) \in Nat /\ GrantsIn(down', k) \in Nat
  BY <1>10, HandledFrame
<1>13. \A k \in Windows : DataIn(down', k) = DataIn(down, k) /\ GrantsIn(down', k) = GrantsIn(down, k)
  BY <1>12 DEF Takes, Grants
<1>14. UNCHANGED <<announced, acked, recv, send, request, early, padding, up>>
  BY <1>3 DEF serverVars
<1>15. \A k \in Known : /\ streams'[k].sendWindow = streams[k].sendWindow
                        /\ streams'[k].recvWindow = streams[k].recvWindow
  BY <1>8, <1>9
<1>16. UploadFits'
  <2>1. \A k \in StreamIds : Granted(k)' = Granted(k)
    BY <1>14 DEF Granted, Drift
  <2> QED
    BY <1>6, <1>9, <1>13, <1>14, <1>15, <2>1, KnownIds DEF SInv, UploadFits
<1>17. DownloadWindowsAgree'
  BY <1>6, <1>9, <1>13, <1>14, <1>15, KnownIds DEF SInv, DownloadWindowsAgree
<1> QED
  BY <1>7, <1>11, <1>12, <1>16, <1>17 DEF SInv

(* What the client writes when it has filled up a receive window.           *)
Grows(r, k, grant) ==
  /\ r \in Seq(Frames)
  /\ \A n \in DOMAIN r : r[n].type = "WINDOW_UPDATE" /\ r[n].id = k
  /\ \A j \in Windows : GrantsIn(r, j) = IF j = k THEN grant ELSE 0

LEMMA Refills ==
  ASSUME NEW k \in Windows, NEW before \in Int, NEW size \in Nat, NEW after, NEW r,
         after = Replenish(before, size), r = Refill(k, before, size, after)
  PROVE  after \in Int /\ Grows(r, k, after - (before - size))
<1>1. CASE before - size < Threshold
  <2> DEFINE grant == after - (before - size)
             f == WindowUpdate(k, grant)
  <2>1. after = DefaultWindow /\ grant \in Nat
    BY <1>1, WindowsAssumption DEF Replenish
  <2>2. r = <<f>>
    BY <1>1 DEF Refill
  <2> HIDE DEF grant
  <2>3. f \in Frames /\ f.type = "WINDOW_UPDATE" /\ f.id = k /\ f.size = grant
    BY <2>1 DEF WindowUpdate, Frames
  <2> HIDE DEF f
  <2>4. /\ <<f>> \in Seq(Frames)
        /\ \A n \in DOMAIN <<f>> : <<f>>[n] = f
    BY <2>3
  <2>5. \A j \in Windows : GrantsIn(<<f>>, j) = IF j = k THEN grant ELSE 0
    BY <2>3, QueueSingle DEF Grants
  <2>6. after \in Int
    BY <2>1, WindowsAssumption
  <2> QED
    BY <2>2, <2>3, <2>4, <2>5, <2>6 DEF grant, Grows
<1>2. CASE ~(before - size < Threshold)
  <2>1. after = before - size /\ after \in Int
    BY <1>2 DEF Replenish
  <2>2. r = << >>
    BY <1>2 DEF Refill
  <2>3. \A j \in Windows : GrantsIn(<< >>, j) = 0
    BY QueueEmpty
  <2>4. << >> \in Seq(Frames) /\ \A n \in DOMAIN << >> : FALSE
    OBVIOUS
  <2>5. after - (before - size) = 0
    BY <2>1
  <2> QED
    BY <2>1, <2>2, <2>3, <2>4, <2>5 DEF Grows
<1> QED
  BY <1>1, <1>2

LEMMA DataStep ==
  ASSUME SInv, down # << >>, down' = Tail(down),
         Head(down).type = "DATA", ClientHandlesData(Head(down)),
         UNCHANGED <<serverVars, early>>
  PROVE  SInv'
<1> DEFINE id == Head(down).id
           size == Head(down).size
           pad == Head(down).pad
           end == Head(down).end
           s == streams[id]
           t == [s EXCEPT !.state = AfterIncoming("DATA", end, @),
                          !.recvWindow = Replenish(@, size)]
           r0 == Refill(0, recvWindow, size, recvWindow')
           rs == Refill(id, s.recvWindow, size, streams'[id].recvWindow)
           r == r0 \o rs
<1>1. /\ id \in StreamIds /\ end \in BOOLEAN /\ size \in Nat /\ pad \in Nat
      /\ Speaks(Head(down), id) /\ Concerns(Head(down), id)
      /\ id \in Known /\ s.state \in {OPEN, HALF_CLOSED_LOCAL}
      /\ id \in Windows /\ 0 \in Windows /\ id # 0
  <2>1. /\ id \in StreamIds /\ end \in BOOLEAN /\ size \in Nat /\ pad \in Nat
        /\ Speaks(Head(down), id) /\ Concerns(Head(down), id)
    BY AboutHead DEF Frames, Speaks, Concerns
  <2> QED
    BY <2>1, AboutHead, KnownIds DEF OpenForResponse
<1>2. s \in Streams /\ GetOrCreateStream(id) = s
  BY <1>1, KnownStreams DEF SInv, IInv, GetOrCreateStream
<1>3. /\ HandleData(id, size, end)
      /\ up' = up \o r0 \o rs
      /\ padding' = [padding EXCEPT ![0] = @ + pad, ![id] = @ + pad]
  BY DEF ClientHandlesData
<1>4. /\ s.state \in AcceptedIn("DATA")
      /\ \/ AfterIncoming("DATA", end, s.state) = s.state
         \/ end /\ Closes(s.state, AfterIncoming("DATA", end, s.state))
  BY <1>1, IncomingEnds
<1>5. ReceiveData(GetOrCreateStream(id), size, end) = t
  BY <1>2, <1>4 DEF ReceiveData
<1>6. /\ streams' = [streams EXCEPT ![id] = t]
      /\ \A k \in StreamIds \ {id} : wire'[k] = wire[k]
      /\ recvWindow' = Replenish(recvWindow, size)
      /\ UNCHANGED <<promisedStreamCache, sendWindow, settings>>
  <2>1. wire \in [StreamIds -> Wire]
    BY DEF SInv, IInv, TypeOK
  <2> HIDE DEF t, s, end, id, size, r0, rs
  <2> QED
    BY <1>1, <1>3, <1>5, <2>1 DEF HandleData, Received
<1>7. IInv'
  BY <1>1, <1>3, HandleDataStep DEF SInv
<1>8. /\ t \in Streams /\ t.pending = s.pending
      /\ t.sendWindow = s.sendWindow /\ t.recvWindow = Replenish(s.recvWindow, size)
      /\ t.state = AfterIncoming("DATA", end, s.state)
  <2>1. Replenish(s.recvWindow, size) \in Int
    BY <1>1, <1>2, WindowsAssumption DEF Replenish, Streams
  <2>2. AfterIncoming("DATA", end, s.state) \in StreamStates
    BY <1>2, StatesType DEF Streams
  <2> DEFINE after == AfterIncoming("DATA", end, s.state)
             window == Replenish(s.recvWindow, size)
  <2> HIDE DEF after, window, s
  <2>3. t = [s EXCEPT !.state = after, !.recvWindow = window]
    BY DEF after, window
  <2> HIDE DEF t
  <2> QED
    BY <1>2, <2>1, <2>2, <2>3 DEF Streams, after, window
<1> HIDE DEF t
<1>9. /\ Known' = Known /\ streams'[id] = t
      /\ \A k \in Known \ {id} : streams'[k] = streams[k]
  BY <1>1, <1>6, <1>8, StreamAssumption DEF SInv, IInv, TypeOK, Known
<1>10. /\ recvWindow \in Int /\ s.recvWindow \in Int
  BY <1>2 DEF SInv, IInv, TypeOK, Streams
<1>11. /\ r0 \in Seq(Frames) /\ rs \in Seq(Frames)
       /\ \A n \in DOMAIN r0 : r0[n].type = "WINDOW_UPDATE" /\ r0[n].id = 0
       /\ \A n \in DOMAIN rs : rs[n].type = "WINDOW_UPDATE" /\ rs[n].id = id
       /\ \A k \in Windows :
            /\ GrantsIn(r0, k) = IF k = 0 THEN recvWindow' - (recvWindow - size) ELSE 0
            /\ GrantsIn(rs, k) = IF k = id THEN t.recvWindow - (s.recvWindow - size) ELSE 0
       /\ recvWindow' \in Int /\ t.recvWindow \in Int
  <2>1. /\ t.recvWindow = Replenish(s.recvWindow, size)
        /\ rs = Refill(id, s.recvWindow, size, t.recvWindow)
    BY <1>8, <1>9
  <2>2. /\ recvWindow' = Replenish(recvWindow, size)
        /\ r0 = Refill(0, recvWindow, size, recvWindow')
    BY <1>6
  <2>3. 0 \in Windows /\ id \in Windows /\ size \in Nat
    BY <1>1
  <2> HIDE DEF r0, rs, s, id, size
  <2>4. recvWindow' \in Int /\ Grows(r0, 0, recvWindow' - (recvWindow - size))
    BY <1>10, <2>2, <2>3, Refills
  <2>5. t.recvWindow \in Int /\ Grows(rs, id, t.recvWindow - (s.recvWindow - size))
    BY <1>10, <2>1, <2>3, Refills
  <2> QED
    BY <2>4, <2>5 DEF Grows
<1> HIDE DEF r0, rs
<1>12. /\ r \in Seq(Frames) /\ up' = up \o r
       /\ \A n \in DOMAIN r : r[n].type = "WINDOW_UPDATE" /\ r[n].id \in {0, id}
       /\ \A k \in Windows : GrantsIn(r, k) = GrantsIn(r0, k) + GrantsIn(rs, k)
  <2>1. r \in Seq(Frames) /\ \A k \in Windows : GrantsIn(r, k) = GrantsIn(r0, k) + GrantsIn(rs, k)
    BY <1>11, QueueJoined, Joined
  <2>2. up' = up \o r
    <3>1. up \in Seq(Frames)
      BY DEF SInv, SessionTypeOK
    <3> QED
      BY <1>3, <1>11, <3>1, ConcatAssociative
  <2>3. \A n \in DOMAIN r : \/ n \in DOMAIN r0 /\ r[n] = r0[n]
                            \/ n - Len(r0) \in DOMAIN rs /\ r[n] = rs[n - Len(r0)]
    BY <1>11, Joined
  <2> HIDE DEF r
  <2> QED
    BY <1>11, <2>1, <2>2, <2>3 DEF r
<1> HIDE DEF r
<1>13. Handles(r)
  <2>1. padding \in [Windows -> Nat]
    BY DEF SInv, SessionTypeOK
  <2>2. /\ padding' \in [Windows -> Nat]
        /\ \A k \in StreamIds : padding'[k] = padding[k] \/ Concerns(Head(down), k)
    BY <1>1, <1>3, <2>1, KnownIds
  <2>3. end => Ends(Head(down), id)
    BY <1>1 DEF Ends
  <2>4. ASSUME NEW k \in Known
        PROVE  /\ streams'[k].pending = streams[k].pending
               /\ \/ streams'[k].state = streams[k].state
                  \/ Ends(Head(down), k) /\ Closes(streams[k].state, streams'[k].state)
    <3>1. CASE k = id
      <4>1. /\ streams'[id].pending = streams[id].pending
            /\ \/ streams'[id].state = streams[id].state
               \/ Ends(Head(down), id) /\ Closes(streams[id].state, streams'[id].state)
        BY <1>4, <1>8, <1>9, <2>3
      <4> QED
        BY <3>1, <4>1
    <3>2. CASE k # id
      BY <1>9, <3>2
    <3> QED
      BY <3>1, <3>2
  <2>5. \A k \in StreamIds \ Known : wire'[k].out = wire[k].out
    BY <1>1, <1>6
  <2>6. \A n \in DOMAIN r, k \in StreamIds : Concerns(r[n], k) => Concerns(Head(down), k)
    BY <1>1, <1>12, KnownIds DEF Concerns
  <2> QED
    BY <1>6, <1>9, <1>12, <2>2, <2>4, <2>5, <2>6 DEF Handles
<1>14. SettingsFit'
  <2>1. \A n \in DOMAIN r : r[n].type # "ACK"
    BY <1>12
  <2> QED
    BY <1>6, <1>13, <2>1, HandledSettingsFit
<1>15. /\ SessionTypeOK' /\ StreamsFit' /\ RequestsFit' /\ ResponsesFit'
       /\ \A k \in Windows :
              /\ DataIn(down, k) = Takes(Head(down), k) + DataIn(down', k)
              /\ GrantsIn(down, k) = Grants(Head(down), k) + GrantsIn(down', k)
              /\ DataIn(up', k) = DataIn(up, k)
              /\ GrantsIn(up', k) = GrantsIn(up, k) + GrantsIn(r, k)
              /\ DataIn(up, k) \in Nat /\ GrantsIn(up, k) \in Nat
              /\ DataIn(down', k) \in Nat /\ GrantsIn(down', k) \in Nat
  BY <1>13, HandledFrame
<1>16. \A k \in Windows : /\ Takes(Head(down), k) = IF k \in {0, id} THEN size + pad ELSE 0
                          /\ Grants(Head(down), k) = 0
  BY DEF Takes, Grants
<1>17. UNCHANGED <<announced, acked, recv, send, request, early>>
  BY DEF serverVars
<1>18. UploadFits'
  <2>1. \A k \in StreamIds : Granted(k)' = Granted(k)
    BY <1>17 DEF Granted, Drift
  <2>2. \A k \in Windows : GrantsIn(down', k) = GrantsIn(down, k) /\ DataIn(up', k) = DataIn(up, k)
    BY <1>15, <1>16
  <2>3. \A k \in Known : streams'[k].sendWindow = streams[k].sendWindow
    BY <1>8, <1>9
  <2> QED
    BY <1>6, <1>9, <1>17, <2>1, <2>2, <2>3, KnownIds DEF SInv, UploadFits
<1>19. DownloadWindowsAgree'
  <2>1. padding'[0] = padding[0] + pad /\ padding'[id] = padding[id] + pad
        /\ \A k \in StreamIds \ {id} : padding'[k] = padding[k]
    <3>1. padding \in [Windows -> Nat]
      BY DEF SInv, SessionTypeOK
    <3> QED
      BY <1>1, <1>3, <3>1, KnownIds
  <2>2. \A k \in Windows : send[k] \in Int /\ padding[k] \in Nat
    BY DEF SInv, SessionTypeOK
  <2>3. recvWindow' = send[0] + DataIn(down', 0) + GrantsIn(up', 0) + padding'[0]
    <3>1. recvWindow = send[0] + DataIn(down, 0) + GrantsIn(up, 0) + padding[0]
      BY DEF SInv, DownloadWindowsAgree
    <3>2. /\ DataIn(down, 0) = size + pad + DataIn(down', 0)
          /\ GrantsIn(up', 0) = GrantsIn(up, 0) + (recvWindow' - (recvWindow - size))
      <4>1. GrantsIn(r0, 0) = recvWindow' - (recvWindow - size) /\ GrantsIn(rs, 0) = 0
        BY <1>1, <1>11
      <4>2. GrantsIn(r, 0) = recvWindow' - (recvWindow - size)
        BY <1>1, <1>10, <1>11, <1>12, <4>1
      <4> QED
        BY <1>1, <1>15, <1>16, <4>2
    <3>3. /\ send[0] \in Int /\ padding[0] \in Nat /\ recvWindow \in Int /\ recvWindow' \in Int
          /\ DataIn(down', 0) \in Nat /\ GrantsIn(up, 0) \in Nat /\ size \in Nat /\ pad \in Nat
      BY <1>1, <1>10, <1>11, <1>15, <2>2
    <3>4. padding'[0] = padding[0] + pad
      BY <2>1
    <3> HIDE DEF id, size, pad
    <3>5. recvWindow = send[0] + (size + pad + DataIn(down', 0)) + GrantsIn(up, 0) + padding[0]
      BY <3>1, <3>2
    <3> DEFINE a == recvWindow
               b == recvWindow'
               c == send[0]
               d == DataIn(down', 0)
               g == GrantsIn(up, 0)
               p == padding[0]
    <3>6. /\ a \in Int /\ b \in Int /\ c \in Int /\ d \in Nat /\ g \in Nat /\ p \in Nat
          /\ size \in Nat /\ pad \in Nat
          /\ a = c + (size + pad + d) + g + p
      BY <3>3, <3>5
    <3> HIDE DEF a, b, c, d, g, p
    <3>7. c + d + (g + (b - (a - size))) + (p + pad) = b
      BY <3>6
    <3> QED
      BY <3>2, <3>4, <3>7 DEF a, b, c, d, g, p
  <2>4. t.recvWindow = send[id] + DataIn(down', id) + GrantsIn(up', id) + padding'[id]
    <3>1. s.recvWindow = send[id] + DataIn(down, id) + GrantsIn(up, id) + padding[id]
      BY <1>1 DEF SInv, DownloadWindowsAgree
    <3>2. /\ DataIn(down, id) = size + pad + DataIn(down', id)
          /\ GrantsIn(up', id) = GrantsIn(up, id) + (t.recvWindow - (s.recvWindow - size))
      <4>1. GrantsIn(rs, id) = t.recvWindow - (s.recvWindow - size) /\ GrantsIn(r0, id) = 0
        BY <1>1, <1>11
      <4>2. GrantsIn(r, id) = t.recvWindow - (s.recvWindow - size)
        BY <1>1, <1>10, <1>11, <1>12, <4>1
      <4> QED
        BY <1>1, <1>15, <1>16, <4>2
    <3>3. /\ send[id] \in Int /\ padding[id] \in Nat /\ s.recvWindow \in Int /\ t.recvWindow \in Int
          /\ DataIn(down', id) \in Nat /\ GrantsIn(up, id) \in Nat /\ size \in Nat /\ pad \in Nat
      BY <1>1, <1>10, <1>11, <1>15, <2>2
    <3>4. padding'[id] = padding[id] + pad
      BY <2>1
    <3> HIDE DEF id, size, pad, s
    <3>5. s.recvWindow = send[id] + (size + pad + DataIn(down', id)) + GrantsIn(up, id) + padding[id]
      BY <3>1, <3>2
    <3> DEFINE a == s.recvWindow
               b == t.recvWindow
               c == send[id]
               d == DataIn(down', id)
               g == GrantsIn(up, id)
               p == padding[id]
    <3>6. /\ a \in Int /\ b \in Int /\ c \in Int /\ d \in Nat /\ g \in Nat /\ p \in Nat
          /\ size \in Nat /\ pad \in Nat
          /\ a = c + (size + pad + d) + g + p
      BY <3>3, <3>5
    <3> HIDE DEF a, b, c, d, g, p
    <3>7. c + d + (g + (b - (a - size))) + (p + pad) = b
      BY <3>6
    <3> QED
      BY <3>2, <3>4, <3>7 DEF a, b, c, d, g, p
  <2>5. ASSUME NEW k \in Known \ {id}
        PROVE  streams'[k].recvWindow = send[k] + DataIn(down', k) + GrantsIn(up', k) + padding'[k]
    <3>1. k \in Windows /\ k # 0 /\ k \in StreamIds
      BY KnownIds
    <3>2. streams[k].recvWindow = send[k] + DataIn(down, k) + GrantsIn(up, k) + padding[k]
      BY DEF SInv, DownloadWindowsAgree
    <3>3. DataIn(down', k) = DataIn(down, k) /\ GrantsIn(up', k) = GrantsIn(up, k)
      BY <1>11, <1>12, <1>15, <1>16, <3>1
    <3> QED
      BY <1>9, <2>1, <3>1, <3>2, <3>3
  <2> HIDE DEF s, id
  <2> QED
    BY <1>9, <1>17, <2>3, <2>4, <2>5 DEF DownloadWindowsAgree
<1> QED
  BY <1>7, <1>14, <1>15, <1>18, <1>19 DEF SInv

--------------------------------------------------------------------------------
(* The step in which the client opens a stream                              *)

(* newStream gives an odd identifier that is not in use.                    *)
LEMMA NewStreamIsUnknown ==
  ASSUME SInv, NEW id \in StreamIds, IsNextStreamId(id)
  PROVE  id \notin Known /\ Odd(id)
<1>1. CASE Known = {}
  BY <1>1 DEF IsNextStreamId, Odd
<1>2. CASE Known # {}
  <2> DEFINE inUse == {0} \cup {k \in Known : Odd(k)}
  <2>1. PICK k \in inUse : id = k + 2 /\ \A j \in inUse : j <= k
    BY <1>2 DEF IsNextStreamId
  <2>2. Known \subseteq Nat \ {0} /\ \A j \in Known : Odd(j)
    BY DEF SInv, StreamsFit, Known, StreamIds
  <2>3. PICK i \in Known : TRUE
    BY <1>2
  <2>4. k \in Nat /\ k # 0
    BY <2>1, <2>2, <2>3
  <2>5. k \in Known /\ Odd(k)
    BY <2>1, <2>4
  <2>6. Odd(id)
    BY <2>1, <2>4, <2>5 DEF Odd
  <2>7. ASSUME id \in Known PROVE FALSE
    <3>1. id <= k
      BY <2>1, <2>6, <2>7
    <3> QED
      BY <2>1, <2>4, <3>1
  <2> QED
    BY <2>6, <2>7
<1> QED
  BY <1>1, <1>2

(* An unknown stream leaves no trace.                                       *)
LEMMA UnknownStream ==
  ASSUME SInv, NEW id \in StreamIds, id \notin Known
  PROVE  /\ request[id] = "none" /\ response[id] = "none" /\ id \notin early
         /\ wire[id].out = 0
         /\ send[id] = DefaultWindow /\ recv[id] = DefaultWindow /\ padding[id] = 0
         /\ \A n \in DOMAIN up : ~Concerns(up[n], id)
         /\ \A n \in DOMAIN down : ~Concerns(down[n], id)
         /\ DataIn(up, id) = 0 /\ GrantsIn(up, id) = 0
         /\ DataIn(down, id) = 0 /\ GrantsIn(down, id) = 0
<1>1. /\ request[id] = "none" /\ response[id] = "none" /\ id \notin early
      /\ wire[id].out = 0
      /\ send[id] = DefaultWindow /\ recv[id] = DefaultWindow /\ padding[id] = 0
      /\ \A n \in DOMAIN up : ~Concerns(up[n], id)
      /\ \A n \in DOMAIN down : ~Concerns(down[n], id)
  BY DEF SInv, RequestsFit
<1>2. up \in Seq(Frames) /\ down \in Seq(Frames) /\ id \in Windows /\ id # 0
  BY KnownIds DEF SInv, SessionTypeOK
<1>3. ASSUME NEW f, ~Concerns(f, id) PROVE Takes(f, id) = 0 /\ Grants(f, id) = 0
  BY <1>2, <1>3 DEF Concerns, Takes, Grants
<1> QED
  BY <1>1, <1>2, <1>3, NothingInQueue

LEMMA ClientRequestsStep ==
  ASSUME SInv, NEW c \in Cmds, NEW req \in Requests, NEW body \in BodySizes \cup {0},
         NEW id \in StreamIds, ClientRequests(c, req, body, id)
  PROVE  SInv'
<1> DEFINE s == [SentHeaders(New(c, settings.initialSendWindow), req, body = 0)
                   EXCEPT !.pending = Chunks(body, settings.serverFrameSize)]
           h == [Untouched EXCEPT !.opener = "client",
                                  !.body   = body,
                                  !.credit = settings.initialSendWindow,
                                  !.outEnd = body = 0]
           f == Headers(id, body = 0)
           d == DataSent(id)
           r == <<f>> \o d
<1>1. /\ DoRequest(c, req, body, id)
      /\ up' = up \o <<f>> \o d
      /\ early' = IF Unsettled THEN early \cup {id} ELSE early
      /\ UNCHANGED <<down, padding>>
      /\ UNCHANGED <<announced, acked, recv, owed, send, request, response, left>>
  BY DEF ClientRequests, serverVars
<1>2. UNCHANGED <<promisedStreamCache, recvWindow, settings>> /\ IsNextStreamId(id)
  BY <1>1 DEF DoRequest
<1>3. /\ id \notin Known /\ Odd(id) /\ id \in Windows /\ id # 0
  BY <1>2, NewStreamIsUnknown, KnownIds
<1>4. IInv /\ IInv'
  BY <1>1, DoRequestStep DEF SInv
<1>5. PICK n \in 0 .. Len(s.pending) : SendPending(id, s, h, n, TRUE)
  BY <1>1 DEF DoRequest
<1>6. /\ s \in Streams
      /\ s.cmd = c /\ s.err = FALSE
      /\ s.state = IF body = 0 THEN HALF_CLOSED_LOCAL ELSE OPEN
      /\ s.pending = << >> <=> body = 0
      /\ h \in Wire
      /\ h.opener = "client" /\ h.body = body
      /\ h.outEnd <=> body = 0
      /\ ~h.outRst /\ ~h.inEnd /\ ~h.inRst
      /\ Sound(s, h)
  BY <1>4, RequestOpens
<1>7. /\ s.sendWindow = settings.initialSendWindow /\ s.recvWindow = DefaultWindow
      /\ h.out = 0
  BY DEF SentHeaders, New, Untouched
<1> HIDE DEF s, h
<1>8. /\ s.state \in {OPEN, HALF_CLOSED_LOCAL} /\ s.state \in Live
      /\ s.pending # << >> => s.state \in {OPEN, HALF_CLOSED_REMOTE}
  BY <1>6 DEF Live
<1>9. /\ request[id] = "none" /\ response[id] = "none" /\ id \notin early
      /\ wire[id].out = 0
      /\ send[id] = DefaultWindow /\ padding[id] = 0
      /\ \A m \in DOMAIN up : ~Concerns(up[m], id)
      /\ \A m \in DOMAIN down : ~Concerns(down[m], id)
      /\ DataIn(up, id) = 0 /\ GrantsIn(up, id) = 0
      /\ DataIn(down, id) = 0 /\ GrantsIn(down, id) = 0
  BY <1>3, UnknownStream
<1>10. PICK b \in Nat : Carries(id, s, Sent(s, n), b)
  BY <1>4, <1>5, <1>6, <1>7, <1>8, <1>9, SendsData
<1> DEFINE t == Sent(s, n)
<1> HIDE DEF t
<1>11. /\ streams' = [streams EXCEPT ![id] = t] /\ t \in Streams
       /\ t.sendWindow = settings.initialSendWindow - b /\ t.recvWindow = DefaultWindow
       /\ t.state \in Live /\ t.state \in {OPEN, HALF_CLOSED_LOCAL}
       /\ t.pending # << >> => t.state \in {OPEN, HALF_CLOSED_REMOTE}
       /\ sendWindow' = sendWindow - b
       /\ \A k \in StreamIds \ {id} : wire'[k] = wire[k]
       /\ d \in Seq(Frames)
       /\ \A m \in DOMAIN d : d[m].type = "DATA" /\ d[m].id = id /\ d[m].pad = 0
       /\ \A k \in Windows : /\ DataIn(d, k) = IF k \in {0, id} THEN b ELSE 0
                             /\ GrantsIn(d, k) = 0
  <2>1. Carries(id, s, t, b)
    BY <1>10 DEF t
  <2>2. /\ streams' = [streams EXCEPT ![id] = t] /\ t \in Streams
        /\ t.sendWindow = s.sendWindow - b /\ t.recvWindow = s.recvWindow
        /\ t.state \in Live
        /\ (s.state \in {OPEN, HALF_CLOSED_LOCAL} => t.state \in {OPEN, HALF_CLOSED_LOCAL})
        /\ (t.pending # << >> => t.state \in {OPEN, HALF_CLOSED_REMOTE})
        /\ sendWindow' = sendWindow - b
        /\ \A k \in StreamIds \ {id} : wire'[k] = wire[k]
        /\ d \in Seq(Frames)
        /\ \A m \in DOMAIN d : d[m].type = "DATA" /\ d[m].id = id /\ d[m].pad = 0
        /\ \A k \in Windows : /\ DataIn(d, k) = IF k \in {0, id} THEN b ELSE 0
                              /\ GrantsIn(d, k) = 0
    BY <2>1 DEF Carries
  <2> HIDE DEF d
  <2> QED
    BY <1>7, <1>8, <2>2
<1>12. f \in Frames /\ f.type = "HEADERS" /\ f.id = id
  BY DEF Headers, Frames
<1> HIDE DEF f, d
<1>13. /\ Known' = Known \cup {id} /\ streams'[id] = t
       /\ \A k \in Known : streams'[k] = streams[k]
  BY <1>3, <1>4, <1>11, StreamAssumption DEF IInv, TypeOK, Known
<1>14. up \in Seq(Frames) /\ down \in Seq(Frames) /\ <<f>> \in Seq(Frames)
  BY <1>12 DEF SInv, SessionTypeOK
<1>15. /\ r \in Seq(Frames) /\ up' = up \o r
       /\ Len(up) \in Nat /\ DOMAIN up = 1 .. Len(up)
       /\ 1 \in DOMAIN r /\ r[1] = f
       /\ \A m \in DOMAIN r : m \in Nat \ {0} /\ (m = 1 \/ (r[m].type = "DATA" /\ r[m].id = id /\ r[m].pad = 0))
  <2>1. r \in Seq(Frames) /\ up' = up \o r /\ Len(up) \in Nat /\ DOMAIN up = 1 .. Len(up)
    <3>1. d \in Seq(Frames) /\ <<f>> \in Seq(Frames) /\ up \in Seq(Frames)
      BY <1>11, <1>14
    <3>2. <<f>> \o d \in Seq(Frames) /\ up \o <<f>> \o d = up \o (<<f>> \o d)
      BY <3>1, ConcatAssociative
    <3>3. Len(up) \in Nat /\ DOMAIN up = 1 .. Len(up)
      BY <3>1
    <3>4. up' = up \o <<f>> \o d
      BY <1>1
    <3> QED
      BY <3>2, <3>3, <3>4
  <2>2. Len(<<f>>) = 1 /\ DOMAIN <<f>> = {1} /\ <<f>>[1] = f
    OBVIOUS
  <2>3. /\ \A m \in DOMAIN r : \/ m \in DOMAIN <<f>> /\ r[m] = <<f>>[m]
                               \/ m > 1 /\ m - 1 \in DOMAIN d /\ r[m] = d[m - 1]
        /\ \A m \in DOMAIN <<f>> : m \in DOMAIN r /\ r[m] = <<f>>[m]
        /\ DOMAIN r = 1 .. Len(<<f>>) + Len(d)
    BY <1>11, <1>14, <2>2, Joined
  <2>4. Len(d) \in Nat
    BY <1>11
  <2> HIDE DEF r
  <2>5. DOMAIN r \subseteq Nat \ {0}
    BY <2>2, <2>3, <2>4
  <2>6. 1 \in DOMAIN r /\ r[1] = f
    BY <2>2, <2>3
  <2>7. \A m \in DOMAIN r : m = 1 \/ (r[m].type = "DATA" /\ r[m].id = id /\ r[m].pad = 0)
    BY <1>11, <2>2, <2>3
  <2> QED
    BY <2>1, <2>5, <2>6, <2>7
<1>16. ASSUME NEW k \in Windows
       PROVE  /\ DataIn(up', k) = DataIn(up, k) + IF k \in {0, id} THEN b ELSE 0
              /\ GrantsIn(up', k) = GrantsIn(up, k)
              /\ DataIn(up, k) \in Nat /\ GrantsIn(up, k) \in Nat
              /\ DataIn(down, k) \in Nat /\ GrantsIn(down, k) \in Nat
  <2>1. /\ DataIn(up, k) \in Nat /\ GrantsIn(up, k) \in Nat
        /\ DataIn(down, k) \in Nat /\ GrantsIn(down, k) \in Nat
    BY <1>14, QueueAmounts
  <2>2. DataIn(<<f>>, k) = 0 /\ GrantsIn(<<f>>, k) = 0
    BY <1>12, QueueSingle DEF Takes, Grants
  <2>3. /\ DataIn(r, k) = DataIn(<<f>>, k) + DataIn(d, k)
        /\ GrantsIn(r, k) = GrantsIn(<<f>>, k) + GrantsIn(d, k)
    BY <1>11, <1>14, QueueJoined
  <2> HIDE DEF r
  <2>4. /\ DataIn(up', k) = DataIn(up, k) + DataIn(r, k)
        /\ GrantsIn(up', k) = GrantsIn(up, k) + GrantsIn(r, k)
    BY <1>14, <1>15, QueueJoined
  <2>5. DataIn(d, k) = (IF k \in {0, id} THEN b ELSE 0) /\ GrantsIn(d, k) = 0
    BY <1>11
  <2> QED
    BY <2>1, <2>2, <2>3, <2>4, <2>5
<1> HIDE DEF r
<1>17. /\ \A m \in DOMAIN up : m \in DOMAIN up' /\ up'[m] = up[m]
       /\ \A m \in DOMAIN up' :
            \/ m \in DOMAIN up /\ up'[m] = up[m]
            \/ m > Len(up) /\ m - Len(up) \in DOMAIN r /\ up'[m] = r[m - Len(up)]
       /\ up' \in Seq(Frames) /\ DOMAIN up' \subseteq Nat
       /\ Len(up) + 1 \in DOMAIN up' /\ up'[Len(up) + 1] = f
  <2>1. /\ \A m \in DOMAIN up : m \in DOMAIN up' /\ up'[m] = up[m]
        /\ \A m \in DOMAIN up' :
             \/ m \in DOMAIN up /\ up'[m] = up[m]
             \/ m > Len(up) /\ m - Len(up) \in DOMAIN r /\ up'[m] = r[m - Len(up)]
        /\ up' \in Seq(Frames)
        /\ DOMAIN up' = 1 .. Len(up) + Len(r) /\ DOMAIN r = 1 .. Len(r) /\ Len(r) \in Nat
    BY <1>14, <1>15, Joined
  <2>2. Len(up) + 1 \in DOMAIN up'
    BY <1>15, <2>1
  <2>3. up'[Len(up) + 1] = f
    <3>1. Len(up) + 1 \notin DOMAIN up /\ (Len(up) + 1) - Len(up) = 1
      BY <1>15
    <3> QED
      BY <1>15, <2>1, <2>2, <3>1
  <2> QED
    BY <2>1, <2>2, <2>3
<1>18. SessionTypeOK'
  <2>1. \A m \in DOMAIN up' : up'[m].type = "DATA" => up'[m].pad = 0
    BY <1>12, <1>15, <1>17 DEF SInv, SessionTypeOK
  <2>2. early' \subseteq StreamIds
    BY <1>1 DEF SInv, SessionTypeOK
  <2> QED
    BY <1>1, <1>17, <2>1, <2>2 DEF SInv, SessionTypeOK
<1>19. SettingsFit'
  <2>1. \A m \in DOMAIN r : r[m].type # "ACK"
    BY <1>12, <1>15
  <2>2. SameOf(up, up', "ACK")
    BY <1>14, <1>15, <2>1, SameJoined
  <2>3. SameOf(down, down', "SETTINGS")
    BY <1>1, SameQueue
  <2> QED
    BY <1>1, <1>2, <2>2, <2>3, SettingsKept DEF SInv
<1>20. StreamsFit'
  BY <1>2, <1>3, <1>11, <1>13 DEF SInv, StreamsFit, Live
<1>21. \A k \in StreamIds \ {id} : (k \in early' <=> k \in early) /\ (k \in Known' <=> k \in Known)
  BY <1>1, <1>13
<1>22. /\ id \in early' => Unsettled
       /\ id \notin early' => ~Unsettled
  BY <1>1, <1>9
<1>23. \A m \in DOMAIN r : /\ r[m].type \in {"HEADERS", "DATA"}
                           /\ \A k \in StreamIds : Concerns(r[m], k) => k = id
                           /\ Opens(r[m], id) => m = 1
  BY <1>12, <1>15 DEF Concerns, Opens
<1>24. RequestsFit'
  <2>1. ASSUME NEW k \in StreamIds \ {id}, NEW m \in DOMAIN up', Opens(up'[m], k)
        PROVE  /\ request'[k] = "none"
               /\ \A i \in DOMAIN up' : Concerns(up'[i], k) => i >= m
               /\ \A i \in DOMAIN up' : Opens(up'[i], k) => i = m
               /\ k \in early' => ~acked' /\ \A i \in DOMAIN up' : up'[i].type = "ACK" => i > m
               /\ k \notin early' => acked' \/ \E i \in DOMAIN up' : up'[i].type = "ACK" /\ i < m
    <3>1. OpeningFits(k)
      BY DEF SInv, RequestsFit
    <3>2. m \in DOMAIN up /\ up'[m] = up[m]
      BY <1>17, <1>23, <2>1 DEF Opens, Concerns
    <3>3. \A i \in DOMAIN up' : Concerns(up'[i], k) \/ Opens(up'[i], k) \/ up'[i].type = "ACK" =>
            i \in DOMAIN up /\ up'[i] = up[i]
      BY <1>17, <1>23 DEF Opens, Concerns
    <3> QED
      BY <1>1, <1>17, <1>21, <2>1, <3>1, <3>2, <3>3 DEF OpeningFits
  <2>2. ASSUME NEW m \in DOMAIN up', Opens(up'[m], id)
        PROVE  /\ request'[id] = "none"
               /\ \A i \in DOMAIN up' : Concerns(up'[i], id) => i >= m
               /\ \A i \in DOMAIN up' : Opens(up'[i], id) => i = m
               /\ id \in early' => ~acked' /\ \A i \in DOMAIN up' : up'[i].type = "ACK" => i > m
               /\ id \notin early' => acked' \/ \E i \in DOMAIN up' : up'[i].type = "ACK" /\ i < m
    <3>1. \A i \in DOMAIN up' : Concerns(up'[i], id) \/ Opens(up'[i], id) =>
            i > Len(up) /\ i - Len(up) \in DOMAIN r /\ up'[i] = r[i - Len(up)]
      BY <1>9, <1>17 DEF Opens, Concerns
    <3>2. \A i \in DOMAIN up' : Opens(up'[i], id) => i = Len(up) + 1
      <4>1. \A i \in DOMAIN up' : Opens(up'[i], id) => i - Len(up) = 1 /\ i \in Nat
        BY <1>17, <1>23, <3>1
      <4> QED
        BY <1>15, <4>1
    <3>3. m = Len(up) + 1
      BY <2>2, <3>2
    <3>4. \A i \in DOMAIN up' : Concerns(up'[i], id) => i >= m
      BY <1>15, <1>17, <3>1, <3>3
    <3>5. \A i \in DOMAIN up' : up'[i].type = "ACK" => i \in DOMAIN up /\ up'[i] = up[i]
      BY <1>17, <1>23
    <3>6. id \in early' => ~acked' /\ \A i \in DOMAIN up' : up'[i].type # "ACK"
      <4>1. ASSUME Unsettled PROVE ~acked /\ ~Has(up, "ACK")
        BY <4>1 DEF SInv, SettingsFit, Unsettled, Has
      <4> QED
        BY <1>1, <1>22, <3>5, <4>1 DEF Has
    <3>7. id \notin early' => acked' \/ \E i \in DOMAIN up' : up'[i].type = "ACK" /\ i < m
      <4>1. ASSUME ~Unsettled PROVE acked \/ \E i \in DOMAIN up : up[i].type = "ACK"
        BY <4>1 DEF SInv, SettingsFit, Unsettled, Has
      <4>2. \A i \in DOMAIN up : i < m
        BY <1>15, <3>3
      <4> QED
        BY <1>1, <1>17, <1>22, <4>1, <4>2
    <3> QED
      BY <1>1, <1>9, <3>2, <3>3, <3>4, <3>6, <3>7
  <2>3. \A k \in StreamIds : OpeningFits(k)'
    BY <2>1, <2>2 DEF OpeningFits
  <2>4. \E m \in DOMAIN up' : Opens(up'[m], id)
    BY <1>12, <1>17 DEF Opens
  <2>5. ASSUME NEW m \in DOMAIN up', Concerns(up'[m], id) PROVE up'[m].type # "WINDOW_UPDATE"
    BY <1>9, <1>17, <1>23, <2>5
  <2>6. ASSUME NEW k \in StreamIds \ {id}
        PROVE  \A m \in DOMAIN up' : Concerns(up'[m], k) => m \in DOMAIN up /\ up'[m] = up[m]
    BY <1>17, <1>23
  <2>7. ASSUME NEW k \in StreamIds
        PROVE  /\ k \notin Known' =>
                    /\ request'[k] = "none" /\ k \notin early' /\ wire'[k].out = 0
                    /\ \A m \in DOMAIN up' : ~Concerns(up'[m], k)
               /\ k \in Known' /\ request'[k] = "none" => \E m \in DOMAIN up' : Opens(up'[m], k)
               /\ request'[k] = "none" =>
                    /\ \A m \in DOMAIN down' : ~Concerns(down'[m], k)
                    /\ \A m \in DOMAIN up' : Concerns(up'[m], k) => up'[m].type # "WINDOW_UPDATE"
                    /\ response'[k] = "none"
                    /\ recv'[k] = DefaultWindow /\ send'[k] = DefaultWindow /\ padding'[k] = 0
               /\ request'[k] # "none" /\ k \notin early' => acked'
    <3>1. CASE k = id
      <4>1. k \in Known'
        BY <1>13, <3>1
      <4>2. recv[id] = DefaultWindow
        BY <1>3, UnknownStream
      <4> QED
        BY <1>1, <1>9, <2>4, <2>5, <3>1, <4>1, <4>2
    <3>2. CASE k # id
      <4>1. /\ k \notin Known' =>
                 /\ request'[k] = "none" /\ k \notin early' /\ wire'[k].out = 0
                 /\ \A m \in DOMAIN up' : ~Concerns(up'[m], k)
            /\ k \in Known' /\ request'[k] = "none" => \E m \in DOMAIN up' : Opens(up'[m], k)
        BY <1>1, <1>11, <1>17, <1>21, <2>6, <3>2 DEF SInv, RequestsFit
      <4>2. /\ request'[k] = "none" =>
                 /\ \A m \in DOMAIN down' : ~Concerns(down'[m], k)
                 /\ \A m \in DOMAIN up' : Concerns(up'[m], k) => up'[m].type # "WINDOW_UPDATE"
                 /\ response'[k] = "none"
                 /\ recv'[k] = DefaultWindow /\ send'[k] = DefaultWindow /\ padding'[k] = 0
            /\ request'[k] # "none" /\ k \notin early' => acked'
        BY <1>1, <1>21, <2>6, <3>2 DEF SInv, RequestsFit
      <4> QED
        BY <4>1, <4>2
    <3> QED
      BY <3>1, <3>2
  <2> QED
    BY <2>3, <2>7 DEF RequestsFit
<1>25. ResponsesFit'
  <2>1. \A k \in Known : OpenForResponse(k)' <=> OpenForResponse(k)
    BY <1>13 DEF OpenForResponse
  <2>2. OpenForResponse(id)'
    BY <1>11, <1>13 DEF OpenForResponse
  <2>3. \A k \in StreamIds : OpenForResponse(k) => OpenForResponse(k)'
    BY <2>1 DEF OpenForResponse
  <2> QED
    BY <1>1, <1>13, <2>2, <2>3 DEF SInv, ResponsesFit
<1>26. UploadFits'
  <2>1. sendWindow' = recv'[0] - GrantsIn(down', 0) - DataIn(up', 0)
    <3>1. /\ sendWindow = recv[0] - GrantsIn(down, 0) - DataIn(up, 0)
          /\ recv[0] \in Int /\ sendWindow \in Int
      BY KnownIds, WindowTypes DEF SInv, UploadFits
    <3>2. /\ DataIn(up', 0) = DataIn(up, 0) + b
          /\ GrantsIn(down, 0) \in Nat /\ DataIn(up, 0) \in Nat
      BY <1>16, KnownIds
    <3>3. sendWindow' = sendWindow - b
      BY <1>11
    <3> QED
      BY <1>1, <3>1, <3>2, <3>3
  <2>2. streams'[id].sendWindow = Granted(id)' - GrantsIn(down', id) - DataIn(up', id)
    <3>1. settings.initialSendWindow = Granted(id)'
      BY <1>1, <1>9, <1>22 DEF SInv, SettingsFit, Granted
    <3>2. DataIn(up', id) = b /\ GrantsIn(down', id) = 0
      BY <1>1, <1>3, <1>9, <1>16
    <3>3. settings.initialSendWindow \in Nat
      BY <1>4 DEF IInv, TypeOK, Settings
    <3>4. t.sendWindow = settings.initialSendWindow - b
      BY <1>11
    <3> QED
      BY <1>13, <3>1, <3>2, <3>3, <3>4
  <2>3. ASSUME NEW k \in Known
        PROVE  streams'[k].sendWindow = Granted(k)' - GrantsIn(down', k) - DataIn(up', k)
    <3>1. k \in StreamIds \ {id} /\ k \in Windows /\ k # 0
      BY <1>3, KnownIds
    <3>2. Granted(k)' = Granted(k)
      BY <1>1, <1>21, <3>1 DEF Granted, Drift
    <3>3. DataIn(up', k) = DataIn(up, k)
      BY <1>16, <3>1
    <3> QED
      BY <1>1, <1>13, <3>2, <3>3 DEF SInv, UploadFits
  <2> QED
    BY <1>13, <2>1, <2>2, <2>3 DEF UploadFits
<1>27. DownloadWindowsAgree'
  <2>1. \A k \in Windows : GrantsIn(up', k) = GrantsIn(up, k)
    BY <1>16
  <2>2. streams'[id].recvWindow = send'[id] + DataIn(down', id) + GrantsIn(up', id) + padding'[id]
    <3>1. streams'[id].recvWindow = DefaultWindow /\ DefaultWindow \in Nat
      BY <1>11, <1>13, WindowsAssumption
    <3> QED
      BY <1>1, <1>3, <1>9, <2>1, <3>1
  <2> QED
    BY <1>1, <1>2, <1>13, <2>1, <2>2, KnownIds DEF SInv, DownloadWindowsAgree
<1> QED
  BY <1>4, <1>18, <1>19, <1>20, <1>24, <1>25, <1>26, <1>27 DEF SInv

--------------------------------------------------------------------------------
(* The steps in which the server sends a frame                              *)

(* What holds whatever frame it is.                                         *)
LEMMA ServerSent ==
  ASSUME SInv, NEW f \in Frames, ServerSendsFrame(f)
  PROVE  /\ IInv' /\ down \in Seq(Frames) /\ up \in Seq(Frames)
         /\ down' = Append(down, f) /\ down' = down \o <<f>> /\ down' \in Seq(Frames)
         /\ <<f>> \in Seq(Frames) /\ \A n \in DOMAIN <<f>> : <<f>>[n] = f
         /\ UNCHANGED <<streams, promisedStreamCache, sendWindow, recvWindow, settings, wire>>
         /\ UNCHANGED <<up, acked, request, early, padding>>
         /\ Known' = Known
         /\ \A k \in Windows :
              /\ DataIn(down', k) = DataIn(down, k) + Takes(f, k)
              /\ GrantsIn(down', k) = GrantsIn(down, k) + Grants(f, k)
              /\ DataIn(up, k) \in Nat /\ GrantsIn(up, k) \in Nat
              /\ DataIn(down, k) \in Nat /\ GrantsIn(down, k) \in Nat
              /\ Takes(f, k) \in Nat /\ Grants(f, k) \in Nat
<1>1. /\ UNCHANGED vars /\ UNCHANGED <<up, acked, request, early, padding>>
      /\ down' = Append(down, f)
  BY DEF ServerSendsFrame, history
<1>2. IInv'
  BY <1>1, NextIInv DEF SInv
<1>3. UNCHANGED <<streams, promisedStreamCache, sendWindow, recvWindow, settings, wire>>
  BY <1>1 DEF vars
<1>4. /\ down \in Seq(Frames) /\ up \in Seq(Frames)
      /\ Append(down, f) = down \o <<f>> /\ Append(down, f) \in Seq(Frames)
      /\ <<f>> \in Seq(Frames) /\ \A n \in DOMAIN <<f>> : <<f>>[n] = f
  BY DEF SInv, SessionTypeOK
<1>5. \A k \in Windows :
        /\ DataIn(Append(down, f), k) = DataIn(down, k) + Takes(f, k)
        /\ GrantsIn(Append(down, f), k) = GrantsIn(down, k) + Grants(f, k)
  BY <1>4, QueueAppended
<1>6. \A k \in Windows :
        /\ DataIn(up, k) \in Nat /\ GrantsIn(up, k) \in Nat
        /\ DataIn(down, k) \in Nat /\ GrantsIn(down, k) \in Nat
        /\ Takes(f, k) \in Nat /\ Grants(f, k) \in Nat
  BY <1>4, QueueAmounts, FrameAmounts
<1> QED
  BY <1>1, <1>2, <1>3, <1>4, <1>5, <1>6 DEF Known

(* The server keeps its books, and its responses in order.                  *)
Books(f) ==
  /\ f \in Frames /\ f.type # "SETTINGS" /\ ServerSendsFrame(f)
  /\ announced' = announced
  /\ recv' \in [Windows -> Int] /\ owed' \in [Windows -> Nat] /\ send' \in [Windows -> Int]
  /\ response' \in [StreamIds -> {"none", "open", "ended"}] /\ left' \in [StreamIds -> Nat]
  /\ \A k \in Windows : recv'[k] = recv[k] + Grants(f, k) /\ send'[k] = send[k] - Takes(f, k)
  /\ \A id \in StreamIds :
       /\ Concerns(f, id) => request[id] # "none"
       /\ request[id] = "none" => response'[id] = response[id]
       /\ Speaks(f, id) => response[id] # "ended"
       /\ response'[id] # "ended" => response[id] # "ended" /\ ~Ends(f, id)

LEMMA BooksKept ==
  ASSUME SInv, NEW f, Books(f)
  PROVE  SInv'
<1>1. f \in Frames /\ f.type # "SETTINGS" /\ ServerSendsFrame(f) /\ announced' = announced
  BY DEF Books
<1>2. /\ IInv' /\ down \in Seq(Frames) /\ up \in Seq(Frames)
      /\ down' = down \o <<f>> /\ down' \in Seq(Frames)
      /\ <<f>> \in Seq(Frames) /\ \A n \in DOMAIN <<f>> : <<f>>[n] = f
      /\ UNCHANGED <<streams, promisedStreamCache, sendWindow, recvWindow, settings, wire>>
      /\ UNCHANGED <<up, acked, request, early, padding>>
      /\ Known' = Known
  BY <1>1, ServerSent
<1>3. \A k \in Windows :
        /\ DataIn(down', k) = DataIn(down, k) + Takes(f, k)
        /\ GrantsIn(down', k) = GrantsIn(down, k) + Grants(f, k)
        /\ DataIn(up, k) \in Nat /\ GrantsIn(up, k) \in Nat
        /\ DataIn(down, k) \in Nat /\ GrantsIn(down, k) \in Nat
        /\ Takes(f, k) \in Nat /\ Grants(f, k) \in Nat
  BY <1>1, ServerSent
<1>4. SessionTypeOK'
  BY <1>1, <1>2 DEF SInv, SessionTypeOK, Books
<1>5. SettingsFit'
  <2>1. SameOf(down, down', "SETTINGS")
    <3>1. \A n \in DOMAIN <<f>> : <<f>>[n].type # "SETTINGS"
      BY <1>1, <1>2
    <3> QED
      BY <1>2, <3>1, SameJoined
  <2>2. SameOf(up, up', "ACK")
    BY <1>2, SameQueue
  <2> QED
    BY <1>1, <1>2, <2>1, <2>2, SettingsKept DEF SInv
<1>6. StreamsFit'
  BY <1>2 DEF SInv, StreamsFit
<1>7. ASSUME NEW id \in StreamIds, request[id] = "none"
      PROVE  /\ ~Concerns(f, id) /\ Takes(f, id) = 0 /\ Grants(f, id) = 0
             /\ recv'[id] = recv[id] /\ send'[id] = send[id]
  <2>1. ~Concerns(f, id) /\ id \in Windows /\ id # 0
    BY <1>7, KnownIds DEF Books
  <2>2. Takes(f, id) = 0 /\ Grants(f, id) = 0
    BY <2>1 DEF Concerns, Takes, Grants
  <2>3. recv'[id] = recv[id] + Grants(f, id) /\ send'[id] = send[id] - Takes(f, id)
    BY <2>1 DEF Books
  <2>4. recv[id] \in Int /\ send[id] \in Int
    BY <2>1 DEF SInv, SessionTypeOK
  <2> QED
    BY <2>1, <2>2, <2>3, <2>4
<1>8. RequestsFit'
  <2>1. \A id \in StreamIds : request[id] = "none" =>
           /\ ~Concerns(f, id)
           /\ response'[id] = response[id] /\ recv'[id] = recv[id] /\ send'[id] = send[id]
    BY <1>7 DEF Books
  <2> QED
    BY <1>1, <1>2, <2>1, RequestsKeptByServer DEF SInv
<1>9. ResponsesFit'
  <2>1. ASSUME NEW id \in StreamIds
        PROVE  /\ Speaks(f, id) => OpenForResponse(id) /\ response[id] # "ended"
               /\ response'[id] # "ended" => response[id] # "ended" /\ ~Ends(f, id)
    <3>1. ASSUME Speaks(f, id) PROVE OpenForResponse(id) /\ response[id] # "ended"
      <4>1. response[id] # "ended"
        BY <3>1 DEF Books
      <4>2. request[id] # "none"
        BY <3>1 DEF Books, Speaks, Concerns
      <4>3. id \in Known
        BY <4>2 DEF SInv, RequestsFit
      <4> QED
        BY <4>1, <4>3 DEF SInv, ResponsesFit
    <3>2. response'[id] # "ended" => response[id] # "ended" /\ ~Ends(f, id)
      BY DEF Books
    <3> QED
      BY <3>1, <3>2
  <2> QED
    BY <1>1, <2>1, ResponsesKeptByServer DEF SInv
<1>10. UploadFits'
  <2>1. sendWindow' = recv'[0] - GrantsIn(down', 0) - DataIn(up', 0)
    <3>1. /\ sendWindow = recv[0] - GrantsIn(down, 0) - DataIn(up, 0)
          /\ recv[0] \in Int
      BY KnownIds, WindowTypes DEF SInv, UploadFits
    <3>2. recv'[0] = recv[0] + Grants(f, 0)
      BY KnownIds DEF Books
    <3> DEFINE a == recv[0]
               b == Grants(f, 0)
               c == GrantsIn(down, 0)
               d == DataIn(up, 0)
    <3>3. a \in Int /\ b \in Nat /\ c \in Nat /\ d \in Nat
      BY <1>3, <3>1, KnownIds
    <3> HIDE DEF a, b, c, d
    <3>4. a - c - d = (a + b) - (c + b) - d
      BY <3>3
    <3>5. /\ sendWindow' = a - c - d /\ recv'[0] = a + b
          /\ GrantsIn(down', 0) = c + b /\ DataIn(up', 0) = d
      BY <1>2, <1>3, <3>1, <3>2, KnownIds DEF a, b, c, d
    <3> QED
      BY <3>4, <3>5
  <2>2. ASSUME NEW id \in Known
        PROVE  streams[id].sendWindow = Granted(id)' - GrantsIn(down', id) - DataIn(up', id)
    <3>1. id \in StreamIds /\ id \in Windows
      BY KnownIds
    <3>2. /\ streams[id].sendWindow = Granted(id) - GrantsIn(down, id) - DataIn(up, id)
          /\ Granted(id) \in Int
      BY <3>1, WindowTypes DEF SInv, UploadFits
    <3>3. Granted(id)' = Granted(id) + Grants(f, id)
      <4>1. CASE request[id] = "none"
        <5>1. Granted(id)' = Granted(id) /\ Grants(f, id) = 0
          BY <1>1, <1>2, <1>7, <3>1, <4>1 DEF Granted
        <5> QED
          BY <3>2, <5>1
      <4>2. CASE request[id] # "none"
        <5>1. Granted(id) = recv[id] - Drift(id) /\ Granted(id)' = recv'[id] - Drift(id)
          BY <1>1, <1>2, <4>2 DEF Granted, Drift
        <5>2. recv'[id] = recv[id] + Grants(f, id)
          BY <3>1 DEF Books
        <5>3. recv[id] \in Int /\ Grants(f, id) \in Nat /\ announced \in Int
          BY <1>3, <3>1, WindowTypes DEF SInv
        <5>4. Drift(id) \in Int
          BY <5>3, WindowsAssumption DEF Drift
        <5> QED
          BY <5>1, <5>2, <5>3, <5>4
      <4> QED
        BY <4>1, <4>2
    <3> DEFINE a == Granted(id)
               b == Grants(f, id)
               c == GrantsIn(down, id)
               d == DataIn(up, id)
    <3>4. a \in Int /\ b \in Nat /\ c \in Nat /\ d \in Nat
      BY <1>3, <3>1, <3>2
    <3>5. /\ streams[id].sendWindow = a - c - d /\ Granted(id)' = a + b
          /\ GrantsIn(down', id) = c + b /\ DataIn(up', id) = d
      BY <1>2, <1>3, <3>1, <3>2, <3>3
    <3> HIDE DEF a, b, c, d
    <3>6. a - c - d = (a + b) - (c + b) - d
      BY <3>4
    <3> QED
      BY <3>5, <3>6
  <2> QED
    BY <1>2, <2>1, <2>2 DEF UploadFits
<1>11. DownloadWindowsAgree'
  <2>1. ASSUME NEW k \in Windows
        PROVE  send'[k] + DataIn(down', k) + GrantsIn(up', k) + padding'[k]
                 = send[k] + DataIn(down, k) + GrantsIn(up, k) + padding[k]
    <3> DEFINE a == send[k]
               b == Takes(f, k)
               c == DataIn(down, k)
               d == GrantsIn(up, k)
               e == padding[k]
    <3>1. a \in Int /\ b \in Nat /\ c \in Nat /\ d \in Nat /\ e \in Nat
      BY <1>3, WindowTypes DEF SInv
    <3>2. /\ send'[k] = a - b /\ DataIn(down', k) = c + b /\ GrantsIn(up', k) = d
          /\ padding'[k] = e
      BY <1>2, <1>3 DEF Books
    <3> HIDE DEF a, b, c, d, e
    <3>3. (a - b) + (c + b) + d + e = a + c + d + e
      BY <3>1
    <3> QED
      BY <3>2, <3>3 DEF a, b, c, d, e
  <2> QED
    BY <1>2, <2>1, KnownIds DEF SInv, DownloadWindowsAgree
<1> QED
  BY <1>2, <1>4, <1>5, <1>6, <1>8, <1>9, <1>10, <1>11 DEF SInv

LEMMA AnnounceStep ==
  ASSUME SInv, NEW window \in WindowSizes, Announce(window)
  PROVE  SInv'
<1> DEFINE f == InitialWindow(window)
<1>1. /\ announced = NotAnnounced /\ announced' = window
      /\ ServerSendsFrame(f)
      /\ UNCHANGED <<recv, owed, send, response, left>>
  BY DEF Announce
<1>2. window \in Nat /\ f \in Frames /\ f.type = "SETTINGS" /\ f.size = window
      /\ window # NotAnnounced
  BY NumbersAssumption DEF InitialWindow, Frames, NotAnnounced
<1> HIDE DEF f
<1>3. /\ IInv' /\ down \in Seq(Frames) /\ up \in Seq(Frames)
      /\ down' = Append(down, f) /\ down' \in Seq(Frames)
      /\ UNCHANGED <<streams, promisedStreamCache, sendWindow, recvWindow, settings, wire>>
      /\ UNCHANGED <<up, acked, request, early, padding>>
      /\ Known' = Known
  BY <1>1, <1>2, ServerSent
<1>4. \A k \in Windows :
        DataIn(down', k) = DataIn(down, k) /\ GrantsIn(down', k) = GrantsIn(down, k)
  <2>1. \A k \in Windows : Takes(f, k) = 0 /\ Grants(f, k) = 0
    BY <1>2 DEF Takes, Grants
  <2>2. \A k \in Windows :
          /\ DataIn(down', k) = DataIn(down, k) + Takes(f, k)
          /\ GrantsIn(down', k) = GrantsIn(down, k) + Grants(f, k)
          /\ DataIn(down, k) \in Nat /\ GrantsIn(down, k) \in Nat
    BY <1>1, <1>2, ServerSent
  <2> QED
    BY <2>1, <2>2
<1>5. ~acked /\ ~Has(down, "SETTINGS") /\ ~Has(up, "ACK")
  BY <1>1 DEF SInv, SettingsFit
<1>6. SessionTypeOK'
  BY <1>1, <1>2, <1>3 DEF SInv, SessionTypeOK
<1>7. SettingsFit'
  <2>1. /\ DOMAIN down = 1 .. Len(down) /\ Len(down) \in Nat
        /\ DOMAIN down' = 1 .. Len(down) + 1
        /\ \A n \in 1 .. Len(down) : down'[n] = down[n]
        /\ down'[Len(down) + 1] = f
    BY <1>3
  <2>2. \A n \in DOMAIN down' : down'[n].type = "SETTINGS" => n = Len(down) + 1
    BY <1>5, <2>1 DEF Has
  <2>3. Has(down', "SETTINGS") /\ Once(down', "SETTINGS")
        /\ \A n \in DOMAIN down' : down'[n].type = "SETTINGS" => down'[n].size = announced'
    BY <1>1, <1>2, <2>1, <2>2 DEF Has, Once
  <2>4. settings.initialSendWindow = DefaultWindow /\ Unsettled'
    BY <1>1, <2>3 DEF SInv, SettingsFit, Unsettled, Has
  <2>5. ~Has(up', "ACK") /\ Once(up', "ACK")
    BY <1>3, <1>5 DEF SInv, SettingsFit, Has
  <2> QED
    BY <1>1, <1>2, <1>3, <1>5, <2>3, <2>4, <2>5 DEF SettingsFit
<1>8. StreamsFit'
  BY <1>3 DEF SInv, StreamsFit
<1>9. \A id \in StreamIds : ~Concerns(f, id) /\ ~Speaks(f, id) /\ ~Ends(f, id)
  BY <1>2 DEF Concerns, Speaks, Ends
<1>10. RequestsFit'
  BY <1>1, <1>2, <1>3, <1>9, RequestsKeptByServer DEF SInv
<1>11. ResponsesFit'
  BY <1>1, <1>2, <1>9, ResponsesKeptByServer DEF SInv
<1>12. ASSUME NEW id \in Known PROVE id \in early
  <2>1. CASE request[id] = "none"
    <3>1. PICK n \in DOMAIN up : Opens(up[n], id)
      BY <2>1, KnownIds DEF SInv, RequestsFit
    <3>2. OpeningFits(id)
      BY KnownIds DEF SInv, RequestsFit
    <3> QED
      BY <1>5, <3>1, <3>2 DEF OpeningFits, Has
  <2>2. CASE request[id] # "none"
    BY <1>5, <2>2, KnownIds DEF SInv, RequestsFit
  <2> QED
    BY <2>1, <2>2
<1>13. UploadFits'
  <2>1. \A id \in Known : Granted(id)' = Granted(id)
    BY <1>1, <1>3, <1>5, <1>12 DEF Granted, Drift
  <2> QED
    BY <1>1, <1>3, <1>4, <2>1, KnownIds DEF SInv, UploadFits
<1>14. DownloadWindowsAgree'
  BY <1>1, <1>3, <1>4, KnownIds DEF SInv, DownloadWindowsAgree
<1> QED
  BY <1>3, <1>6, <1>7, <1>8, <1>10, <1>11, <1>13, <1>14 DEF SInv

LEMMA GiveBackStep ==
  ASSUME SInv, NEW k \in Windows, GiveBack(k)
  PROVE  SInv'
<1> DEFINE f == WindowUpdate(k, owed[k])
<1>1. /\ recv \in [Windows -> Int] /\ owed \in [Windows -> Nat] /\ send \in [Windows -> Int]
      /\ response \in [StreamIds -> {"none", "open", "ended"}] /\ left \in [StreamIds -> Nat]
  BY DEF SInv, SessionTypeOK
<1>2. /\ owed' = [owed EXCEPT ![k] = 0]
      /\ recv' = [recv EXCEPT ![k] = @ + owed[k]]
      /\ ServerSendsFrame(f)
      /\ UNCHANGED <<announced, send, response, left>>
      /\ k # 0 => request[k] = "open"
  BY DEF GiveBack
<1>3. f \in Frames /\ f.type = "WINDOW_UPDATE" /\ f.id = k /\ f.size = owed[k]
  BY <1>1 DEF WindowUpdate, Frames
<1> HIDE DEF f
<1>4. \A j \in Windows : Takes(f, j) = 0 /\ Grants(f, j) = IF j = k THEN owed[k] ELSE 0
  BY <1>3 DEF Takes, Grants
<1>5. \A j \in Windows : recv'[j] = recv[j] + Grants(f, j) /\ send'[j] = send[j] - Takes(f, j)
  BY <1>1, <1>2, <1>4
<1>6. recv' \in [Windows -> Int] /\ owed' \in [Windows -> Nat]
  BY <1>1, <1>2
<1>7. \A id \in StreamIds :
       /\ Concerns(f, id) => request[id] # "none"
       /\ ~Speaks(f, id) /\ ~Ends(f, id)
  BY <1>2, <1>3, KnownIds DEF Concerns, Speaks, Ends
<1>8. Books(f)
  BY <1>1, <1>2, <1>3, <1>5, <1>6, <1>7 DEF Books
<1> QED
  BY <1>8, BooksKept

LEMMA RespondStep ==
  ASSUME SInv, NEW id \in StreamIds, Respond(id)
  PROVE  SInv'
<1> DEFINE f == Headers(id, left[id] = 0)
<1>1. /\ recv \in [Windows -> Int] /\ owed \in [Windows -> Nat] /\ send \in [Windows -> Int]
      /\ response \in [StreamIds -> {"none", "open", "ended"}] /\ left \in [StreamIds -> Nat]
  BY DEF SInv, SessionTypeOK
<1>2. /\ request[id] # "none" /\ response[id] = "none"
      /\ response' = [response EXCEPT ![id] = IF left[id] = 0 THEN "ended" ELSE "open"]
      /\ ServerSendsFrame(f)
      /\ UNCHANGED <<announced, recv, owed, send, left>>
  BY DEF Respond
<1>3. f \in Frames /\ f.type = "HEADERS" /\ f.id = id /\ (f.end <=> left[id] = 0)
  BY DEF Headers, Frames
<1> HIDE DEF f
<1>4. \A j \in Windows : Takes(f, j) = 0 /\ Grants(f, j) = 0
  BY <1>3 DEF Takes, Grants
<1>5. \A j \in Windows : recv'[j] = recv[j] + Grants(f, j) /\ send'[j] = send[j] - Takes(f, j)
  BY <1>1, <1>2, <1>4
<1>6. response' \in [StreamIds -> {"none", "open", "ended"}]
  BY <1>1, <1>2
<1>7. ASSUME NEW k \in StreamIds
      PROVE  /\ Concerns(f, k) => request[k] # "none"
             /\ request[k] = "none" => response'[k] = response[k]
             /\ Speaks(f, k) => response[k] # "ended"
             /\ response'[k] # "ended" => response[k] # "ended" /\ ~Ends(f, k)
  BY <1>1, <1>2, <1>3 DEF Concerns, Speaks, Ends
<1>8. Books(f)
  BY <1>1, <1>2, <1>3, <1>5, <1>6, <1>7 DEF Books
<1> QED
  BY <1>8, BooksKept

LEMMA RespondWithDataStep ==
  ASSUME SInv, NEW id \in StreamIds, NEW size \in DataSizes \ {0}, NEW pad \in Pads,
         RespondWithData(id, size, pad)
  PROVE  SInv'
<1> DEFINE f == Data(id, size, pad, size = left[id])
<1>1. /\ recv \in [Windows -> Int] /\ owed \in [Windows -> Nat] /\ send \in [Windows -> Int]
      /\ response \in [StreamIds -> {"none", "open", "ended"}] /\ left \in [StreamIds -> Nat]
      /\ size \in Nat /\ pad \in Nat
      /\ id \in Windows /\ 0 \in Windows /\ id # 0
  BY KnownIds, NumbersAssumption, ResponseAssumption DEF SInv, SessionTypeOK
<1>2. /\ response[id] = "open" /\ size <= left[id]
      /\ left' = [left EXCEPT ![id] = @ - size]
      /\ send' = [send EXCEPT ![id] = @ - size - pad, ![0] = @ - size - pad]
      /\ response' = [response EXCEPT ![id] = IF size = left[id] THEN "ended" ELSE @]
      /\ ServerSendsFrame(f)
      /\ UNCHANGED <<announced, recv, owed>>
  BY DEF RespondWithData
<1>3. /\ f \in Frames /\ f.type = "DATA" /\ f.id = id /\ f.size = size /\ f.pad = pad
      /\ f.end <=> size = left[id]
  BY <1>1 DEF Data, Frames
<1> HIDE DEF f
<1>4. \A j \in Windows : Grants(f, j) = 0 /\ Takes(f, j) = IF j \in {0, id} THEN size + pad ELSE 0
  BY <1>3 DEF Takes, Grants
<1>5. ASSUME NEW j \in Windows
      PROVE  recv'[j] = recv[j] + Grants(f, j) /\ send'[j] = send[j] - Takes(f, j)
  <2>1. recv'[j] = recv[j] + Grants(f, j)
    BY <1>1, <1>2, <1>4
  <2>2. CASE j \in {0, id}
    <3>1. send'[j] = send[j] - size - pad /\ Takes(f, j) = size + pad
      BY <1>1, <1>2, <1>4, <2>2
    <3>2. send[j] \in Int
      BY <1>1
    <3> QED
      BY <1>1, <2>1, <3>1, <3>2
  <2>3. CASE j \notin {0, id}
    <3>1. send'[j] = send[j] /\ Takes(f, j) = 0 /\ send[j] \in Int
      BY <1>1, <1>2, <1>4, <2>3
    <3> QED
      BY <2>1, <3>1
  <2> QED
    BY <2>2, <2>3
<1>6. /\ response' \in [StreamIds -> {"none", "open", "ended"}]
      /\ left' \in [StreamIds -> Nat] /\ send' \in [Windows -> Int]
  BY <1>1, <1>2
<1>7. request[id] # "none"
  BY <1>2 DEF SInv, RequestsFit
<1>8. ASSUME NEW k \in StreamIds
      PROVE  /\ Concerns(f, k) => request[k] # "none"
             /\ request[k] = "none" => response'[k] = response[k]
             /\ Speaks(f, k) => response[k] # "ended"
             /\ response'[k] # "ended" => response[k] # "ended" /\ ~Ends(f, k)
  BY <1>1, <1>2, <1>3, <1>7 DEF Concerns, Speaks, Ends
<1>9. Books(f)
  BY <1>1, <1>2, <1>3, <1>5, <1>6, <1>8 DEF Books
<1> QED
  BY <1>9, BooksKept

--------------------------------------------------------------------------------
(* The steps in which the server receives a frame                           *)

(* The head of the queue opens its stream, or another frame did before.     *)
LEMMA AboutUp ==
  ASSUME SInv, up # << >>
  PROVE  /\ Head(up) \in Frames /\ Tail(up) \in Seq(Frames) /\ up \in Seq(Frames)
         /\ Head(up).type = "ACK" => Has(up, "ACK")
         /\ Head(up).type = "DATA" => Head(up).pad = 0
         /\ \A id \in StreamIds :
              /\ Concerns(Head(up), id) => id \in Known
              /\ Concerns(Head(up), id) /\ ~Opens(Head(up), id) => request[id] # "none"
              /\ Opens(Head(up), id) => /\ request[id] = "none"
                                        /\ id \in early => ~acked
                                        /\ id \notin early => acked
<1>1. up \in Seq(Frames)
  BY DEF SInv, SessionTypeOK
<1>2. /\ Head(up) \in Frames /\ Tail(up) \in Seq(Frames) /\ Head(up) = up[1] /\ 1 \in DOMAIN up
      /\ DOMAIN up = 1 .. Len(up) /\ Len(up) \in Nat
  BY <1>1, Shortened
<1>3. /\ Head(up).type = "ACK" => Has(up, "ACK")
      /\ Head(up).type = "DATA" => Head(up).pad = 0
  BY <1>2 DEF SInv, SessionTypeOK, Has
<1>4. ASSUME NEW id \in StreamIds, Concerns(Head(up), id) PROVE id \in Known
  BY <1>2, <1>4 DEF SInv, RequestsFit
<1>5. ASSUME NEW id \in StreamIds, Concerns(Head(up), id), ~Opens(Head(up), id)
      PROVE  request[id] # "none"
  <2> SUFFICES ASSUME request[id] = "none" PROVE FALSE
    OBVIOUS
  <2>1. PICK n \in DOMAIN up : Opens(up[n], id)
    BY <1>4, <1>5 DEF SInv, RequestsFit
  <2>2. 1 >= n
    BY <1>2, <1>5, <2>1 DEF SInv, RequestsFit, OpeningFits
  <2>3. n = 1
    BY <1>2, <2>2
  <2> QED
    BY <1>2, <1>5, <2>1, <2>3
<1>6. ASSUME NEW id \in StreamIds, Opens(Head(up), id)
      PROVE  /\ request[id] = "none"
             /\ id \in early => ~acked
             /\ id \notin early => acked
  <2>1. OpeningFits(id)
    BY DEF SInv, RequestsFit
  <2>2. \A m \in DOMAIN up : ~(m < 1)
    BY <1>2
  <2> QED
    BY <1>2, <1>6, <2>1, <2>2 DEF OpeningFits
<1> QED
  BY <1>1, <1>2, <1>3, <1>4, <1>5, <1>6

(* The server's view of the requests, after it took a frame.                *)
LEMMA RequestsKeptOnReceipt ==
  ASSUME SessionTypeOK, RequestsFit, up # << >>, up' = Tail(up),
         UNCHANGED <<streams, wire, down, response, early, padding>>,
         Head(up).type = "ACK" => acked',
         Head(up).type # "ACK" => acked' = acked,
         acked => acked',
         \A id \in StreamIds :
           /\ request'[id] = "none" <=> request[id] = "none" /\ ~Opens(Head(up), id)
           /\ request'[id] = "none" => recv'[id] = recv[id] /\ send'[id] = send[id]
           /\ request'[id] # "none" /\ id \notin early => acked'
           /\ id \notin Known => ~Opens(Head(up), id)
  PROVE  RequestsFit'
<1> DEFINE f == Head(up)
<1>1. /\ f = up[1] /\ 1 \in DOMAIN up /\ DOMAIN up \subseteq Nat \ {0}
      /\ \A n \in DOMAIN up' : n >= 1 /\ n \in Nat /\ n + 1 \in DOMAIN up /\ up'[n] = up[n + 1]
      /\ \A n \in DOMAIN up : n = 1 \/ (n - 1 \in DOMAIN up' /\ up'[n - 1] = up[n])
  <2>1. up \in Seq(Frames)
    BY DEF SessionTypeOK
  <2> QED
    BY <2>1, Shortened
<1>2. Known' = Known
  BY DEF Known
<1> HIDE DEF f
<1> SUFFICES ASSUME NEW id \in StreamIds
             PROVE  /\ id \notin Known' =>
                         /\ request'[id] = "none" /\ id \notin early' /\ wire'[id].out = 0
                         /\ \A n \in DOMAIN up' : ~Concerns(up'[n], id)
                    /\ id \in Known' /\ request'[id] = "none" =>
                         \E n \in DOMAIN up' : Opens(up'[n], id)
                    /\ request'[id] = "none" =>
                         /\ \A n \in DOMAIN down' : ~Concerns(down'[n], id)
                         /\ \A n \in DOMAIN up' : Concerns(up'[n], id) =>
                              up'[n].type # "WINDOW_UPDATE"
                         /\ response'[id] = "none"
                         /\ recv'[id] = DefaultWindow /\ send'[id] = DefaultWindow
                         /\ padding'[id] = 0
                    /\ request'[id] # "none" /\ id \notin early' => acked'
                    /\ OpeningFits(id)'
  BY DEF RequestsFit
<1>3. /\ request'[id] = "none" <=> request[id] = "none" /\ ~Opens(f, id)
      /\ request'[id] = "none" => recv'[id] = recv[id] /\ send'[id] = send[id]
      /\ request'[id] # "none" /\ id \notin early => acked'
      /\ id \notin Known => ~Opens(f, id)
  BY DEF f
<1>4. id \notin Known' =>
        /\ request'[id] = "none" /\ id \notin early' /\ wire'[id].out = 0
        /\ \A n \in DOMAIN up' : ~Concerns(up'[n], id)
  BY <1>1, <1>2, <1>3 DEF RequestsFit
<1>5. ASSUME id \in Known', request'[id] = "none" PROVE \E n \in DOMAIN up' : Opens(up'[n], id)
  <2>1. PICK n \in DOMAIN up : Opens(up[n], id)
    BY <1>2, <1>3, <1>5 DEF RequestsFit
  <2>2. n # 1
    BY <1>1, <1>3, <1>5, <2>1
  <2> QED
    BY <1>1, <2>1, <2>2
<1>6. request'[id] = "none" =>
        /\ \A n \in DOMAIN down' : ~Concerns(down'[n], id)
        /\ \A n \in DOMAIN up' : Concerns(up'[n], id) => up'[n].type # "WINDOW_UPDATE"
        /\ response'[id] = "none"
        /\ recv'[id] = DefaultWindow /\ send'[id] = DefaultWindow /\ padding'[id] = 0
  BY <1>1, <1>3 DEF RequestsFit
<1>7. request'[id] # "none" /\ id \notin early' => acked'
  BY <1>3
<1>8. ASSUME NEW n \in DOMAIN up', Opens(up'[n], id)
      PROVE  /\ request'[id] = "none"
             /\ \A m \in DOMAIN up' : Concerns(up'[m], id) => m >= n
             /\ \A m \in DOMAIN up' : Opens(up'[m], id) => m = n
             /\ id \in early' => ~acked' /\ \A m \in DOMAIN up' : up'[m].type = "ACK" => m > n
             /\ id \notin early' => acked' \/ \E m \in DOMAIN up' : up'[m].type = "ACK" /\ m < n
  <2>1. n + 1 \in DOMAIN up /\ up'[n] = up[n + 1] /\ n >= 1 /\ n \in Nat
    BY <1>1
  <2>2. /\ request[id] = "none"
        /\ \A m \in DOMAIN up : Concerns(up[m], id) => m >= n + 1
        /\ \A m \in DOMAIN up : Opens(up[m], id) => m = n + 1
        /\ id \in early => ~acked /\ \A m \in DOMAIN up : up[m].type = "ACK" => m > n + 1
        /\ id \notin early => acked \/ \E m \in DOMAIN up : up[m].type = "ACK" /\ m < n + 1
    BY <1>8, <2>1 DEF RequestsFit, OpeningFits
  <2>3. ~Opens(f, id)
    <3>1. Opens(f, id) => 1 = n + 1
      BY <1>1, <2>2
    <3> QED
      BY <2>1, <3>1
  <2>4. ASSUME NEW m \in DOMAIN up'
        PROVE  /\ Concerns(up'[m], id) => m >= n
               /\ Opens(up'[m], id) => m = n
               /\ id \in early /\ up'[m].type = "ACK" => m > n
    <3>1. m + 1 \in DOMAIN up /\ up'[m] = up[m + 1] /\ m \in Nat
      BY <1>1
    <3>2. /\ Concerns(up'[m], id) => m + 1 >= n + 1
          /\ Opens(up'[m], id) => m + 1 = n + 1
          /\ id \in early /\ up'[m].type = "ACK" => m + 1 > n + 1
      BY <2>2, <3>1
    <3> QED
      BY <2>1, <3>1, <3>2
  <2>5. id \in early => ~acked'
    <3>1. id \in early => f.type # "ACK"
      <4>1. id \in early /\ f.type = "ACK" => 1 > n + 1
        BY <1>1, <2>2
      <4> QED
        BY <2>1, <4>1
    <3> QED
      BY <2>2, <3>1 DEF f
  <2>6. id \notin early => acked' \/ \E m \in DOMAIN up' : up'[m].type = "ACK" /\ m < n
    <3>1. ASSUME NEW m \in DOMAIN up, up[m].type = "ACK", m < n + 1
          PROVE  acked' \/ \E i \in DOMAIN up' : up'[i].type = "ACK" /\ i < n
      <4>1. CASE m = 1
        BY <1>1, <3>1, <4>1 DEF f
      <4>2. CASE m # 1
        <5>1. m - 1 \in DOMAIN up' /\ up'[m - 1].type = "ACK" /\ m - 1 < n
          BY <1>1, <2>1, <3>1, <4>2
        <5> QED
          BY <5>1
      <4> QED
        BY <4>1, <4>2
    <3> QED
      BY <2>2, <3>1
  <2> QED
    BY <1>3, <2>2, <2>3, <2>4, <2>5, <2>6
<1>9. OpeningFits(id)'
  BY <1>8 DEF OpeningFits
<1> QED
  BY <1>4, <1>5, <1>6, <1>7, <1>9

(* The server takes the head of its queue and keeps its books.              *)
Receipt ==
  /\ up # << >> /\ up' = Tail(up)
  /\ UNCHANGED <<vars, down, announced, response, history>>
  /\ acked' \in BOOLEAN /\ recv' \in [Windows -> Int] /\ owed' \in [Windows -> Nat]
  /\ send' \in [Windows -> Int] /\ left' \in [StreamIds -> Nat]
  /\ request' \in [StreamIds -> {"none", "open", "ended"}]
  /\ Head(up).type = "ACK" => acked'
  /\ Head(up).type # "ACK" => acked' = acked
  /\ \A id \in StreamIds :
       /\ request'[id] = "none" <=> request[id] = "none" /\ ~Opens(Head(up), id)
       /\ request'[id] = "none" => recv'[id] = recv[id]
  /\ recv'[0] = recv[0] - Takes(Head(up), 0)
  /\ \A id \in Known : Granted(id)' = Granted(id) - Takes(Head(up), id)
  /\ \A k \in Windows : send'[k] = send[k] + Grants(Head(up), k)

LEMMA ReceiptKept ==
  ASSUME SInv, Receipt, SettingsFit'
  PROVE  SInv'
<1> DEFINE f == Head(up)
<1>1. /\ up # << >> /\ up' = Tail(up)
      /\ UNCHANGED <<announced, down, response>>
      /\ UNCHANGED vars /\ UNCHANGED <<early, padding>>
  BY DEF Receipt, history
<1>2. /\ UNCHANGED <<streams, promisedStreamCache, sendWindow, recvWindow, settings, wire>>
      /\ Known' = Known
  BY <1>1 DEF vars, Known
<1>3. IInv'
  BY <1>1, NextIInv DEF SInv
<1>4. /\ f \in Frames /\ up \in Seq(Frames) /\ up' \in Seq(Frames) /\ down \in Seq(Frames)
      /\ \A id \in StreamIds :
           /\ Concerns(f, id) => id \in Known
           /\ Concerns(f, id) /\ ~Opens(f, id) => request[id] # "none"
           /\ Opens(f, id) => (id \notin early => acked)
  BY <1>1, AboutUp DEF SInv, SessionTypeOK
<1>5. \A k \in Windows :
        /\ DataIn(up, k) = Takes(f, k) + DataIn(up', k)
        /\ GrantsIn(up, k) = Grants(f, k) + GrantsIn(up', k)
        /\ DataIn(up', k) \in Nat /\ GrantsIn(up', k) \in Nat
        /\ DataIn(down, k) \in Nat /\ GrantsIn(down, k) \in Nat
        /\ Takes(f, k) \in Nat /\ Grants(f, k) \in Nat
  BY <1>1, <1>4, QueueShortened, QueueAmounts, FrameAmounts
<1>6. SessionTypeOK'
  <2>1. \A n \in DOMAIN up' : up'[n].type = "DATA" => up'[n].pad = 0
    <3>1. \A n \in DOMAIN Tail(up) : n + 1 \in DOMAIN up /\ Tail(up)[n] = up[n + 1]
      BY <1>1, <1>4, Shortened
    <3> QED
      BY <1>1, <3>1 DEF SInv, SessionTypeOK
  <2> QED
    BY <1>1, <1>4, <2>1 DEF SInv, SessionTypeOK, Receipt
<1>7. StreamsFit'
  BY <1>2 DEF SInv, StreamsFit
<1>8. RequestsFit'
  <2>1. /\ f.type = "ACK" => acked'
        /\ f.type # "ACK" => acked' = acked
        /\ acked => acked'
    BY DEF Receipt
  <2>2. ASSUME NEW id \in StreamIds
        PROVE  /\ request'[id] = "none" <=> request[id] = "none" /\ ~Opens(f, id)
               /\ request'[id] = "none" => recv'[id] = recv[id] /\ send'[id] = send[id]
               /\ request'[id] # "none" /\ id \notin early => acked'
               /\ id \notin Known => ~Opens(f, id)
    <3>1. request'[id] = "none" <=> request[id] = "none" /\ ~Opens(f, id)
      BY DEF Receipt
    <3>2. ASSUME request'[id] = "none" PROVE recv'[id] = recv[id] /\ send'[id] = send[id]
      <4>1. id \in Windows /\ ~Concerns(f, id) /\ id # 0
        BY <1>4, <3>1, <3>2, KnownIds
      <4>2. Grants(f, id) = 0 /\ send[id] \in Int
        BY <4>1, WindowTypes DEF Concerns, Grants, SInv
      <4>3. send'[id] = send[id] + Grants(f, id) /\ recv'[id] = recv[id]
        BY <3>2, <4>1 DEF Receipt
      <4> QED
        BY <4>2, <4>3
    <3>3. request'[id] # "none" /\ id \notin early => acked'
      <4>1. request[id] # "none" /\ id \notin early => acked
        BY DEF SInv, RequestsFit
      <4>2. Opens(f, id) /\ id \notin early => acked
        BY <1>4
      <4> QED
        BY <2>1, <3>1, <4>1, <4>2
    <3>4. id \notin Known => ~Opens(f, id)
      BY <1>4 DEF Opens, Concerns
    <3> QED
      BY <3>1, <3>2, <3>3, <3>4
  <2> QED
    BY <1>1, <1>2, <2>1, <2>2, RequestsKeptOnReceipt DEF SInv
<1>9. ResponsesFit'
  BY <1>1, <1>2 DEF SInv, ResponsesFit, OpenForResponse
<1> HIDE DEF f
<1>10. UploadFits'
  <2>1. ASSUME NEW k \in Windows, NEW a \in Int, NEW w,
               w = a - GrantsIn(down, k) - DataIn(up, k)
        PROVE  w = (a - Takes(f, k)) - GrantsIn(down', k) - DataIn(up', k)
    <3> DEFINE b == Takes(f, k)
               c == GrantsIn(down, k)
               d == DataIn(up', k)
    <3>1. b \in Nat /\ c \in Nat /\ d \in Nat
      BY <1>5
    <3>2. w = a - c - (b + d) /\ GrantsIn(down', k) = c
      BY <1>1, <1>5, <2>1
    <3> HIDE DEF b, c, d
    <3>3. a - c - (b + d) = (a - b) - c - d
      BY <2>1, <3>1
    <3> QED
      BY <3>2, <3>3 DEF b, c, d
  <2>2. sendWindow' = recv'[0] - GrantsIn(down', 0) - DataIn(up', 0)
    <3>1. /\ sendWindow = recv[0] - GrantsIn(down, 0) - DataIn(up, 0)
          /\ recv[0] \in Int /\ 0 \in Windows
      BY KnownIds, WindowTypes DEF SInv, UploadFits
    <3>2. recv'[0] = recv[0] - Takes(f, 0)
      BY DEF Receipt, f
    <3>3. sendWindow = (recv[0] - Takes(f, 0)) - GrantsIn(down', 0) - DataIn(up', 0)
      BY <2>1, <3>1
    <3> QED
      BY <1>2, <3>2, <3>3
  <2>3. ASSUME NEW id \in Known
        PROVE  streams'[id].sendWindow = Granted(id)' - GrantsIn(down', id) - DataIn(up', id)
    <3>1. id \in StreamIds /\ id \in Windows
      BY KnownIds
    <3>2. /\ streams[id].sendWindow = Granted(id) - GrantsIn(down, id) - DataIn(up, id)
          /\ Granted(id) \in Int
      BY <3>1, WindowTypes DEF SInv, UploadFits
    <3>3. Granted(id)' = Granted(id) - Takes(f, id)
      BY DEF Receipt, f
    <3>4. streams[id].sendWindow
            = (Granted(id) - Takes(f, id)) - GrantsIn(down', id) - DataIn(up', id)
      BY <2>1, <3>1, <3>2
    <3> QED
      BY <1>2, <3>3, <3>4
  <2> QED
    BY <1>2, <2>2, <2>3 DEF UploadFits
<1>11. DownloadWindowsAgree'
  <2>1. ASSUME NEW k \in Windows
        PROVE  send'[k] + DataIn(down', k) + GrantsIn(up', k) + padding'[k]
                 = send[k] + DataIn(down, k) + GrantsIn(up, k) + padding[k]
    <3> DEFINE a == send[k]
               b == Grants(f, k)
               c == DataIn(down, k)
               d == GrantsIn(up', k)
               e == padding[k]
    <3>1. a \in Int /\ b \in Nat /\ c \in Nat /\ d \in Nat /\ e \in Nat
      BY <1>5, WindowTypes DEF SInv
    <3>2. /\ send'[k] = a + b /\ DataIn(down', k) = c /\ GrantsIn(up, k) = b + d
          /\ padding'[k] = e
      BY <1>1, <1>5 DEF Receipt, f
    <3> HIDE DEF a, b, c, d, e
    <3>3. (a + b) + c + d + e = a + c + (b + d) + e
      BY <3>1
    <3> QED
      BY <3>2, <3>3 DEF a, b, c, d, e
  <2> QED
    BY <1>2, <2>1, KnownIds DEF SInv, DownloadWindowsAgree
<1> QED
  BY <1>3, <1>6, <1>7, <1>8, <1>9, <1>10, <1>11 DEF SInv

(* A frame other than an acknowledgement.                                   *)
LEMMA ReceiptSettingsFit ==
  ASSUME SInv, Receipt, Head(up).type # "ACK"
  PROVE  SettingsFit'
<1>1. /\ up \in Seq(Frames) /\ up # << >> /\ up' = Tail(up)
      /\ UNCHANGED <<announced, acked, settings, down>>
  BY DEF Receipt, vars, SInv, SessionTypeOK
<1>2. SameOf(up, up', "ACK") /\ SameOf(down, down', "SETTINGS")
  BY <1>1, SameShortened, SameQueue
<1> QED
  BY <1>1, <1>2, SettingsKept DEF SInv

LEMMA ReceivesAckStep ==
  ASSUME SInv, up # << >>, up' = Tail(up), Head(up).type = "ACK", ServerReceivesAck,
         UNCHANGED <<vars, down, announced, response, history>>
  PROVE  SInv'
<1> DEFINE f == Head(up)
<1>1. /\ acked' = TRUE
      /\ recv' = [k \in Windows |-> IF k # 0 /\ request[k] # "none"
                                    THEN recv[k] + announced - DefaultWindow ELSE recv[k]]
      /\ UNCHANGED <<owed, send, request, left>>
  BY DEF ServerReceivesAck
<1>2. /\ recv \in [Windows -> Int] /\ owed \in [Windows -> Nat] /\ send \in [Windows -> Int]
      /\ left \in [StreamIds -> Nat] /\ announced \in Int /\ DefaultWindow \in Int
      /\ request \in [StreamIds -> {"none", "open", "ended"}]
      /\ up \in Seq(Frames)
  BY WindowTypes, WindowsAssumption DEF SInv, SessionTypeOK
<1>3. Has(up, "ACK")
  BY AboutUp
<1>4. ~acked /\ ~Has(down, "SETTINGS") /\ announced # NotAnnounced /\ Once(up, "ACK")
  BY <1>3 DEF SInv, SettingsFit
<1>5. \A k \in Windows : Takes(f, k) = 0 /\ Grants(f, k) = 0
  BY DEF Takes, Grants
<1>6. recv' \in [Windows -> Int]
  <2>1. \A k \in Windows : recv[k] \in Int /\ recv[k] + announced - DefaultWindow \in Int
    BY <1>2
  <2> QED
    BY <1>1, <2>1
<1>7. \A k \in Windows : send'[k] = send[k] + Grants(f, k)
  BY <1>1, <1>2, <1>5
<1>8. recv'[0] = recv[0] - Takes(f, 0)
  <2>1. recv'[0] = recv[0] /\ Takes(f, 0) = 0 /\ recv[0] \in Int
    BY <1>1, <1>2, <1>5, KnownIds
  <2> QED
    BY <2>1
<1>9. ASSUME NEW id \in Known PROVE Granted(id)' = Granted(id) - Takes(f, id)
  <2>1. id \in StreamIds /\ id \in Windows /\ id # 0 /\ UNCHANGED <<announced, early>>
    BY KnownIds DEF history
  <2>2. Takes(f, id) = 0 /\ Granted(id) \in Int /\ recv[id] \in Int
    BY <1>2, <1>5, <2>1, WindowTypes DEF SInv
  <2>3. CASE request[id] = "none"
    <3>1. Granted(id)' = Granted(id)
      BY <1>1, <2>1, <2>3 DEF Granted
    <3> QED
      BY <2>2, <3>1
  <2>4. CASE request[id] # "none"
    <3>1. id \in early
      BY <1>4, <2>1, <2>4 DEF SInv, RequestsFit
    <3>2. Granted(id) = recv[id] - 0
      BY <1>4, <2>4 DEF Granted, Drift
    <3>3. Granted(id)' = recv'[id] - (announced - DefaultWindow)
      BY <1>1, <2>1, <2>4, <3>1 DEF Granted, Drift
    <3>4. recv'[id] = recv[id] + announced - DefaultWindow
      BY <1>1, <2>1, <2>4
    <3> QED
      BY <1>2, <2>2, <3>2, <3>3, <3>4
  <2> QED
    BY <2>3, <2>4
<1>10. \A id \in StreamIds :
        /\ request'[id] = "none" <=> request[id] = "none" /\ ~Opens(f, id)
        /\ request'[id] = "none" => recv'[id] = recv[id]
  BY <1>1, KnownIds DEF Opens
<1>11. Receipt
  BY <1>1, <1>2, <1>6, <1>7, <1>8, <1>9, <1>10 DEF Receipt
<1>12. SettingsFit'
  <2>1. \A n \in DOMAIN up' : up'[n].type # "ACK"
    <3>1. /\ Head(up) = up[1] /\ 1 \in DOMAIN up
          /\ \A n \in DOMAIN Tail(up) : n >= 1 /\ n \in Nat /\ n + 1 \in DOMAIN up
                                        /\ Tail(up)[n] = up[n + 1]
      BY <1>2, Shortened
    <3>2. ASSUME NEW n \in DOMAIN Tail(up), Tail(up)[n].type = "ACK" PROVE FALSE
      <4>1. n + 1 = 1
        BY <1>4, <3>1, <3>2 DEF Once
      <4> QED
        BY <3>1, <4>1
    <3> QED
      BY <3>2
  <2>2. UNCHANGED <<announced, settings, down>>
    BY DEF vars
  <2> QED
    BY <1>1, <1>4, <2>1, <2>2 DEF SInv, SettingsFit, Unsettled, Has, Once
<1> QED
  BY <1>11, <1>12, ReceiptKept

LEMMA ReceivesHeadersStep ==
  ASSUME SInv, up # << >>, up' = Tail(up), Head(up).type = "HEADERS",
         ServerReceivesHeaders(Head(up)),
         UNCHANGED <<vars, down, announced, response, history>>
  PROVE  SInv'
<1> DEFINE f == Head(up)
           id == f.id
<1>1. id \in StreamIds /\ id \in Windows /\ id # 0 /\ f.end \in BOOLEAN /\ Opens(f, id)
      /\ \A k \in StreamIds : Opens(f, k) <=> k = id
  BY AboutUp, KnownIds DEF Frames, Opens
<1>2. request[id] = "none" /\ (id \in early => ~acked) /\ (id \notin early => acked)
  BY <1>1, AboutUp
<1>3. /\ request' = [request EXCEPT ![id] = IF f.end THEN "ended" ELSE "open"]
      /\ recv' = [recv EXCEPT ![id] = IF acked THEN announced ELSE DefaultWindow]
      /\ left' = [left EXCEPT ![id] = IF f.end THEN ResponseSize ELSE ReceiptSize]
      /\ UNCHANGED <<acked, owed, send>>
  BY DEF ServerReceivesHeaders
<1>4. /\ recv \in [Windows -> Int] /\ owed \in [Windows -> Nat] /\ send \in [Windows -> Int]
      /\ left \in [StreamIds -> Nat] /\ announced \in Int /\ DefaultWindow \in Int
      /\ request \in [StreamIds -> {"none", "open", "ended"}] /\ acked \in BOOLEAN
  BY WindowTypes, WindowsAssumption DEF SInv, SessionTypeOK
<1>5. \A k \in Windows : Takes(f, k) = 0 /\ Grants(f, k) = 0
  BY DEF Takes, Grants
<1> HIDE DEF f, id
<1>6. /\ recv' \in [Windows -> Int] /\ left' \in [StreamIds -> Nat]
      /\ request' \in [StreamIds -> {"none", "open", "ended"}]
  BY <1>3, <1>4, ResponseAssumption
<1>7. \A k \in Windows : send'[k] = send[k] + Grants(f, k)
  BY <1>3, <1>4, <1>5
<1>8. recv'[0] = recv[0] - Takes(f, 0)
  <2>1. recv'[0] = recv[0] /\ Takes(f, 0) = 0 /\ recv[0] \in Int
    BY <1>1, <1>3, <1>4, <1>5, KnownIds
  <2> QED
    BY <2>1
<1>9. \A k \in StreamIds \ {id} : request'[k] = request[k] /\ recv'[k] = recv[k]
  BY <1>3, <1>4, KnownIds
<1>10. request'[id] # "none" /\ recv'[id] = IF acked THEN announced ELSE DefaultWindow
  BY <1>1, <1>3, <1>4
<1>11. ASSUME NEW k \in Known PROVE Granted(k)' = Granted(k) - Takes(f, k)
  <2>1. k \in StreamIds /\ k \in Windows /\ UNCHANGED <<announced, early, acked>>
    BY <1>3, KnownIds DEF history
  <2>2. Takes(f, k) = 0 /\ Granted(k) \in Int
    BY <1>5, <2>1, WindowTypes DEF SInv
  <2>3. Granted(k)' = Granted(k)
    <3>1. CASE k = id
      <4>1. /\ request[k] = "none" /\ request'[k] # "none"
            /\ recv'[k] = IF acked THEN announced ELSE DefaultWindow
            /\ (k \in early => ~acked) /\ (k \notin early => acked)
        BY <1>2, <1>10, <3>1
      <4>2. Granted(k) = IF k \in early THEN DefaultWindow ELSE announced
        BY <4>1 DEF Granted
      <4>3. Granted(k)' = recv'[k] - Drift(k)' /\ Drift(k)' = 0
        BY <2>1, <4>1 DEF Granted, Drift
      <4>4. recv'[k] \in Int /\ Granted(k) = recv'[k]
        BY <1>4, <4>1, <4>2
      <4> QED
        BY <4>3, <4>4
    <3>2. CASE k # id
      BY <1>9, <2>1, <3>2 DEF Granted, Drift
    <3> QED
      BY <3>1, <3>2
  <2> QED
    BY <2>2, <2>3
<1>12. \A k \in StreamIds :
        /\ request'[k] = "none" <=> request[k] = "none" /\ ~Opens(f, k)
        /\ request'[k] = "none" => recv'[k] = recv[k]
  BY <1>1, <1>9, <1>10
<1>13. Receipt
  BY <1>3, <1>4, <1>6, <1>7, <1>8, <1>11, <1>12 DEF Receipt, f
<1> QED
  BY <1>13, ReceiptSettingsFit, ReceiptKept

LEMMA ReceivesDataStep ==
  ASSUME SInv, up # << >>, up' = Tail(up), Head(up).type = "DATA",
         ServerReceivesData(Head(up)),
         UNCHANGED <<vars, down, announced, response, history>>
  PROVE  SInv'
<1> DEFINE f == Head(up)
           id == f.id
           size == f.size
<1>1. /\ id \in StreamIds /\ id \in Windows /\ 0 \in Windows /\ id # 0
      /\ size \in Nat /\ f.pad = 0 /\ f.end \in BOOLEAN
      /\ Concerns(f, id) /\ \A k \in StreamIds : ~Opens(f, k)
  BY AboutUp, KnownIds DEF Frames, Opens, Concerns
<1>2. request[id] # "none"
  BY <1>1, AboutUp
<1>3. /\ recv' = [recv EXCEPT ![0] = @ - size, ![id] = @ - size]
      /\ owed' = [owed EXCEPT ![0] = @ + size, ![id] = @ + size]
      /\ request' = [request EXCEPT ![id] = IF f.end THEN "ended" ELSE @]
      /\ UNCHANGED <<acked, send, left>>
  BY DEF ServerReceivesData
<1>4. /\ recv \in [Windows -> Int] /\ owed \in [Windows -> Nat] /\ send \in [Windows -> Int]
      /\ left \in [StreamIds -> Nat] /\ announced \in Int /\ DefaultWindow \in Int
      /\ request \in [StreamIds -> {"none", "open", "ended"}] /\ acked \in BOOLEAN
  BY WindowTypes, WindowsAssumption DEF SInv, SessionTypeOK
<1>5. \A k \in Windows : Grants(f, k) = 0 /\ Takes(f, k) = IF k \in {0, id} THEN size ELSE 0
  BY <1>1 DEF Takes, Grants
<1> HIDE DEF f, id, size
<1>6. /\ recv' \in [Windows -> Int] /\ owed' \in [Windows -> Nat]
      /\ request' \in [StreamIds -> {"none", "open", "ended"}]
  <2>1. /\ recv[0] - size \in Int /\ recv[id] - size \in Int
        /\ owed[0] + size \in Nat /\ owed[id] + size \in Nat
    BY <1>1, <1>4
  <2>2. recv' \in [Windows -> Int]
    BY <1>1, <1>3, <1>4, <2>1
  <2>3. owed' \in [Windows -> Nat]
    BY <1>1, <1>3, <1>4, <2>1
  <2>4. request' \in [StreamIds -> {"none", "open", "ended"}]
    BY <1>1, <1>3, <1>4
  <2> QED
    BY <2>2, <2>3, <2>4
<1>7. \A k \in Windows : send'[k] = send[k] + Grants(f, k)
  BY <1>3, <1>4, <1>5
<1>8. /\ recv'[0] = recv[0] - size /\ recv'[id] = recv[id] - size
      /\ \A k \in StreamIds \ {id} : recv'[k] = recv[k] /\ request'[k] = request[k]
      /\ request'[id] # "none"
  BY <1>1, <1>2, <1>3, <1>4, KnownIds
<1>9. recv'[0] = recv[0] - Takes(f, 0)
  BY <1>1, <1>5, <1>8
<1>10. ASSUME NEW k \in Known PROVE Granted(k)' = Granted(k) - Takes(f, k)
  <2>1. k \in StreamIds /\ k \in Windows /\ k # 0 /\ UNCHANGED <<announced, early, acked>>
    BY <1>3, KnownIds DEF history
  <2>2. CASE k = id
    <3>1. request[k] # "none" /\ request'[k] # "none" /\ recv'[k] = recv[k] - size
      BY <1>2, <1>8, <2>2
    <3>2. /\ Granted(k) = recv[k] - Drift(k)
          /\ Granted(k)' = recv'[k] - Drift(k)'
          /\ Drift(k)' = Drift(k)
      BY <2>1, <3>1 DEF Granted, Drift
    <3>3. Drift(k) \in Int /\ recv[k] \in Int
      BY <1>4, <2>1 DEF Drift
    <3>4. Takes(f, k) = size
      BY <1>5, <2>1, <2>2
    <3>5. (recv[k] - size) - Drift(k) = (recv[k] - Drift(k)) - size
      BY <1>1, <3>3
    <3> QED
      BY <3>1, <3>2, <3>4, <3>5
  <2>3. CASE k # id
    <3>1. Granted(k)' = Granted(k)
      BY <1>8, <2>1, <2>3 DEF Granted, Drift
    <3>2. Takes(f, k) = 0 /\ Granted(k) \in Int
      BY <1>5, <2>1, <2>3, WindowTypes DEF SInv
    <3> QED
      BY <3>1, <3>2
  <2> QED
    BY <2>2, <2>3
<1>11. \A k \in StreamIds :
        /\ request'[k] = "none" <=> request[k] = "none" /\ ~Opens(f, k)
        /\ request'[k] = "none" => recv'[k] = recv[k]
  BY <1>1, <1>2, <1>8
<1>12. Receipt
  BY <1>3, <1>4, <1>6, <1>7, <1>9, <1>10, <1>11 DEF Receipt, f
<1> QED
  BY <1>12, ReceiptSettingsFit, ReceiptKept

LEMMA ReceivesWindowUpdateStep ==
  ASSUME SInv, up # << >>, up' = Tail(up), Head(up).type = "WINDOW_UPDATE",
         ServerReceivesWindowUpdate(Head(up)),
         UNCHANGED <<vars, down, announced, response, history>>
  PROVE  SInv'
<1> DEFINE f == Head(up)
           j == f.id
           size == f.size
<1>1. j \in Windows /\ size \in Nat /\ \A k \in StreamIds : ~Opens(f, k)
  BY AboutUp DEF Frames, Opens
<1>2. /\ send' = [send EXCEPT ![j] = @ + size]
      /\ UNCHANGED <<acked, recv, owed, request, left>>
  BY DEF ServerReceivesWindowUpdate
<1>3. /\ recv \in [Windows -> Int] /\ owed \in [Windows -> Nat] /\ send \in [Windows -> Int]
      /\ left \in [StreamIds -> Nat] /\ acked \in BOOLEAN
      /\ request \in [StreamIds -> {"none", "open", "ended"}]
  BY DEF SInv, SessionTypeOK
<1>4. \A k \in Windows : Takes(f, k) = 0 /\ Grants(f, k) = IF k = j THEN size ELSE 0
  BY DEF Takes, Grants
<1> HIDE DEF f, j, size
<1>5. send' \in [Windows -> Int] /\ \A k \in Windows : send'[k] = send[k] + Grants(f, k)
  BY <1>1, <1>2, <1>3, <1>4
<1>6. recv'[0] = recv[0] - Takes(f, 0)
  <2>1. recv'[0] = recv[0] /\ Takes(f, 0) = 0 /\ recv[0] \in Int
    BY <1>2, <1>3, <1>4, KnownIds
  <2> QED
    BY <2>1
<1>7. ASSUME NEW k \in Known PROVE Granted(k)' = Granted(k) - Takes(f, k)
  <2>1. k \in StreamIds /\ k \in Windows /\ UNCHANGED <<announced, early, acked, recv, request>>
    BY <1>2, KnownIds DEF history
  <2>2. Takes(f, k) = 0 /\ Granted(k) \in Int
    BY <1>4, <2>1, WindowTypes DEF SInv
  <2>3. Granted(k)' = Granted(k)
    BY <2>1 DEF Granted, Drift
  <2> QED
    BY <2>2, <2>3
<1>8. \A k \in StreamIds :
        /\ request'[k] = "none" <=> request[k] = "none" /\ ~Opens(f, k)
        /\ request'[k] = "none" => recv'[k] = recv[k]
  BY <1>1, <1>2
<1>9. Receipt
  BY <1>2, <1>3, <1>5, <1>6, <1>7, <1>8 DEF Receipt, f
<1> QED
  BY <1>9, ReceiptSettingsFit, ReceiptKept

(* Each frame the server takes from the network.                            *)
LEMMA ServerReceivesStep ==
  ASSUME SInv, ServerReceives
  PROVE  SInv'
<1>1. /\ up # << >> /\ up' = Tail(up)
      /\ UNCHANGED <<vars, down, announced, response, history>>
  BY DEF ServerReceives
<1>2. CASE Head(up).type = "ACK" /\ ServerReceivesAck
  BY <1>1, <1>2, ReceivesAckStep
<1>3. CASE Head(up).type = "HEADERS" /\ ServerReceivesHeaders(Head(up))
  BY <1>1, <1>3, ReceivesHeadersStep
<1>4. CASE Head(up).type = "DATA" /\ ServerReceivesData(Head(up))
  BY <1>1, <1>4, ReceivesDataStep
<1>5. CASE Head(up).type = "WINDOW_UPDATE" /\ ServerReceivesWindowUpdate(Head(up))
  BY <1>1, <1>5, ReceivesWindowUpdateStep
<1> QED
  BY <1>2, <1>3, <1>4, <1>5 DEF ServerReceives

(* Each frame the client takes from the network.                            *)
LEMMA ClientHandlesFrameStep ==
  ASSUME SInv, ClientHandlesFrame
  PROVE  SInv'
<1>1. down # << >> /\ down' = Tail(down) /\ UNCHANGED <<serverVars, early>>
  BY DEF ClientHandlesFrame
<1>2. CASE Head(down).type = "SETTINGS" /\ ClientHandlesSettings(Head(down))
  BY <1>1, <1>2, SettingsStep
<1>3. CASE Head(down).type = "WINDOW_UPDATE" /\ ClientHandlesWindowUpdate(Head(down))
  BY <1>1, <1>3, StreamWindowUpdateStep, ConnectionWindowUpdateStep
<1>4. CASE Head(down).type = "HEADERS" /\ ClientHandlesHeaders(Head(down))
  BY <1>1, <1>4, HeadersStep
<1>5. CASE Head(down).type = "DATA" /\ ClientHandlesData(Head(down))
  BY <1>1, <1>5, DataStep
<1> QED
  BY <1>2, <1>3, <1>4, <1>5 DEF ClientHandlesFrame

--------------------------------------------------------------------------------
(* The invariant is inductive                                               *)

LEMMA InitSInv == SessionInit => SInv
<1> SUFFICES ASSUME SessionInit PROVE SInv
  OBVIOUS
<1>1. /\ Init /\ up = << >> /\ down = << >> /\ announced = NotAnnounced /\ acked = FALSE
      /\ recv = [k \in Windows |-> DefaultWindow]
      /\ owed = [k \in Windows |-> 0]
      /\ send = [k \in Windows |-> DefaultWindow]
      /\ request = [id \in StreamIds |-> "none"]
      /\ response = [id \in StreamIds |-> "none"]
      /\ left = [id \in StreamIds |-> 0]
      /\ early = {} /\ padding = [k \in Windows |-> 0]
  BY DEF SessionInit
<1>2. /\ Known = {} /\ promisedStreamCache = {}
      /\ sendWindow = DefaultWindow /\ recvWindow = DefaultWindow
      /\ settings.initialSendWindow = DefaultWindow
      /\ \A id \in StreamIds : wire[id].out = 0
  BY <1>1 DEF Init, Known, Untouched
<1>3. DefaultWindow \in Nat
  BY WindowsAssumption
<1>4. IInv
  BY <1>1, InitIInv
<1>5. /\ up \in Seq(Frames) /\ down \in Seq(Frames) /\ DOMAIN up = {} /\ DOMAIN down = {}
  BY <1>1
<1>6. SessionTypeOK
  <2>1. announced \in Nat \cup {NotAnnounced} /\ acked \in BOOLEAN /\ early \subseteq StreamIds
    BY <1>1
  <2>2. recv \in [Windows -> Int] /\ send \in [Windows -> Int]
    BY <1>1, <1>3
  <2>3. owed \in [Windows -> Nat] /\ padding \in [Windows -> Nat] /\ left \in [StreamIds -> Nat]
    BY <1>1
  <2>4. /\ request \in [StreamIds -> {"none", "open", "ended"}]
        /\ response \in [StreamIds -> {"none", "open", "ended"}]
    BY <1>1
  <2> QED
    BY <1>5, <2>1, <2>2, <2>3, <2>4 DEF SessionTypeOK
<1>7. SettingsFit
  BY <1>1, <1>2, <1>5 DEF SettingsFit, Has, Once, Unsettled
<1>8. StreamsFit
  BY <1>2 DEF StreamsFit
<1>9. RequestsFit
  BY <1>1, <1>2, <1>5, KnownIds DEF RequestsFit, OpeningFits
<1>10. ResponsesFit
  BY <1>2, <1>5 DEF ResponsesFit
<1>11. DataIn(up, 0) = 0 /\ DataIn(down, 0) = 0 /\ GrantsIn(up, 0) = 0 /\ GrantsIn(down, 0) = 0
  BY <1>1, QueueEmpty
<1>12. UploadFits
  <2>1. recv[0] = DefaultWindow
    BY <1>1, KnownIds
  <2> QED
    BY <1>2, <1>3, <1>11, <2>1 DEF UploadFits
<1>13. DownloadWindowsAgree
  <2>1. send[0] = DefaultWindow /\ padding[0] = 0
    BY <1>1, KnownIds
  <2> QED
    BY <1>2, <1>3, <1>11, <2>1 DEF DownloadWindowsAgree
<1> QED
  BY <1>4, <1>6, <1>7, <1>8, <1>9, <1>10, <1>12, <1>13 DEF SInv

(* A step of somebody else.                                                 *)
LEMMA StutteringStep ==
  ASSUME SInv, UNCHANGED sessionVars
  PROVE  SInv'
<1>1. /\ UNCHANGED vars /\ UNCHANGED <<up, down>>
      /\ UNCHANGED <<announced, acked, recv, owed, send, request, response, left>>
      /\ UNCHANGED <<early, padding>>
  BY DEF sessionVars, network, serverVars, history
<1>2. /\ UNCHANGED <<streams, promisedStreamCache, sendWindow, recvWindow, settings, wire>>
      /\ Known' = Known
  BY <1>1 DEF vars, Known
<1>3. IInv'
  BY <1>1, NextIInv DEF SInv
<1>4. SessionTypeOK'
  BY <1>1 DEF SInv, SessionTypeOK
<1>5. SettingsFit'
  BY <1>1, <1>2 DEF SInv, SettingsFit, Has, Once, Unsettled
<1>6. StreamsFit'
  BY <1>2 DEF SInv, StreamsFit
<1>7. RequestsFit'
  BY <1>1, <1>2 DEF SInv, RequestsFit, OpeningFits
<1>8. ResponsesFit'
  BY <1>1, <1>2 DEF SInv, ResponsesFit, OpenForResponse
<1>9. UploadFits'
  BY <1>1, <1>2 DEF SInv, UploadFits, Granted, Drift
<1>10. DownloadWindowsAgree'
  BY <1>1, <1>2 DEF SInv, DownloadWindowsAgree
<1> QED
  BY <1>3, <1>4, <1>5, <1>6, <1>7, <1>8, <1>9, <1>10 DEF SInv

LEMMA NextSInv == SInv /\ [SessionNext]_sessionVars => SInv'
<1> SUFFICES ASSUME SInv, [SessionNext]_sessionVars PROVE SInv'
  OBVIOUS
<1>1. ASSUME NEW c \in Cmds, NEW req \in Requests, NEW body \in BodySizes \cup {0},
             NEW id \in StreamIds, ClientRequests(c, req, body, id)
      PROVE  SInv'
  BY <1>1, ClientRequestsStep
<1>2. CASE ClientHandlesFrame
  BY <1>2, ClientHandlesFrameStep
<1>3. ASSUME NEW id \in toFlush, ClientFlushes(id) PROVE SInv'
  BY <1>3, ClientFlushesStep
<1>4. ASSUME NEW window \in WindowSizes, Announce(window) PROVE SInv'
  BY <1>4, AnnounceStep
<1>5. ASSUME NEW k \in Windows, GiveBack(k) PROVE SInv'
  BY <1>5, GiveBackStep
<1>6. ASSUME NEW id \in StreamIds, ServerResponds(id) PROVE SInv'
  <2>1. CASE Respond(id)
    BY <2>1, RespondStep
  <2>2. ASSUME NEW size \in DataSizes \ {0}, NEW pad \in Pads, RespondWithData(id, size, pad)
        PROVE  SInv'
    BY <2>2, RespondWithDataStep
  <2> QED
    BY <1>6, <2>1, <2>2 DEF ServerResponds
<1>7. CASE ServerReceives
  BY <1>7, ServerReceivesStep
<1>8. CASE UNCHANGED sessionVars
  BY <1>8, StutteringStep
<1> QED
  BY <1>1, <1>2, <1>3, <1>4, <1>5, <1>6, <1>7, <1>8 DEF SessionNext

(* What the two ends of a connection know of each other fits together in    *)
(* every reachable state, whatever the sizes of windows, bodies and frames  *)
(* are (streams and handlers of connection.go, and a server of RFC 7540).   *)
THEOREM SessionInvariance == SessionSpec => []SInv
<1> QED
  BY InitSInv, NextSInv, PTL DEF SessionSpec

--------------------------------------------------------------------------------
(* What follows                                                             *)

(* The client's send windows are the server's receive windows, but for the  *)
(* frames on their way: no grant is lost or counted twice, and every byte   *)
(* sent is counted once (DecreaseSendFlowControlWindow,                     *)
(* receiveWindowUpdateFrame, handleSettingsFrame).                          *)
THEOREM UploadWindowsStayInStep == SessionSpec => []UploadWindowsAgree
<1>1. SInv => UploadWindowsAgree
  BY DEF SInv, UploadFits, UploadWindowsAgree, Granted
<1> QED
  BY <1>1, SessionInvariance, PTL

(* The client's receive windows are the server's send windows, but for the  *)
(* frames on their way and the padding (flowControlForIncomingDataFrame).   *)
THEOREM DownloadWindowsStayInStep == SessionSpec => []DownloadWindowsAgree
<1>1. SInv => DownloadWindowsAgree
  BY DEF SInv
<1> QED
  BY <1>1, SessionInvariance, PTL

(* A conforming server never sees more DATA than it has given window for,   *)
(* unless it has shrunk the window of a stream opened before that was       *)
(* handled (RemainingSendFlowControlWindowIsEnough, sendDataFrame).         *)
THEOREM ServerIsNotOverrun == SessionSpec => []ServerNotOverrun
<1>1. ASSUME SInv, NEW k \in Windows
      PROVE  recv[k] >= 0 \/ (k \in early /\ announced < DefaultWindow)
  <2>1. up \in Seq(Frames) /\ down \in Seq(Frames)
    BY <1>1 DEF SInv, SessionTypeOK
  <2>2. DataIn(up, k) \in Nat /\ GrantsIn(down, k) \in Nat
    BY <2>1, QueueAmounts
  <2>3. recv[k] \in Int /\ announced \in Int /\ DefaultWindow \in Nat
    BY <1>1, WindowTypes, WindowsAssumption DEF SInv
  <2>4. CASE k = 0
    <3>1. sendWindow \in Int /\ sendWindow >= 0
      BY <1>1, WindowTypes DEF SInv, IInv, TypeOK
    <3>2. sendWindow = recv[k] - GrantsIn(down, k) - DataIn(up, k)
      BY <1>1, <2>4 DEF SInv, UploadFits
    <3> QED
      BY <2>2, <2>3, <3>1, <3>2
  <2>5. CASE k # 0 /\ request[k] = "none"
    <3>1. k \in StreamIds
      BY <2>5 DEF Windows
    <3> QED
      BY <1>1, <2>3, <2>5, <3>1 DEF SInv, RequestsFit
  <2>6. CASE k # 0 /\ request[k] # "none"
    <3>1. k \in Known
      BY <1>1, <2>6 DEF SInv, RequestsFit, Windows
    <3>2. streams[k].sendWindow \in Int /\ streams[k].sendWindow >= 0
      <4>1. /\ streams[k].sendWindow = wire[k].credit - wire[k].out
            /\ wire[k].out <= wire[k].credit
        BY <1>1, <3>1 DEF SInv, IInv, Sound
      <4>2. wire[k] \in Wire
        BY <1>1, <3>1, KnownIds DEF SInv, IInv, TypeOK
      <4> QED
        BY <4>1, <4>2 DEF Wire
    <3>3. streams[k].sendWindow = recv[k] - Drift(k) - GrantsIn(down, k) - DataIn(up, k)
      BY <1>1, <2>6, <3>1 DEF SInv, UploadFits, Granted
    <3>4. Drift(k) \in Int /\ (Drift(k) < 0 => k \in early /\ announced < DefaultWindow)
      BY <2>3 DEF Drift
    <3> QED
      BY <2>2, <2>3, <3>2, <3>3, <3>4
  <2> QED
    BY <2>4, <2>5, <2>6
<1>2. SInv => ServerNotOverrun
  BY <1>1 DEF ServerNotOverrun
<1> QED
  BY <1>2, SessionInvariance, PTL
================================================================================
