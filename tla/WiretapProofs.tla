------------------------------ MODULE WiretapProofs ------------------------------
(****************************************************************************)
(* Proofs about Wiretap: for any frames, however many of them and however   *)
(* the two sides close, the octets between two parties are frames laid end  *)
(* to end. From this follows that frames are forwarded intact and dumped in *)
(* order, as long as the receiver is in step.                               *)
(****************************************************************************)
EXTENDS Wiretap, FrameCodecProofs

(* q consists of pieces k + 1 to n, laid end to end: start[i] is the number *)
(* of octets up to the end of piece i.                                      *)
Laid(q, pieces, k, n) ==
  \E start \in [k..n -> Nat] :
    /\ start[k] = 0 /\ start[n] = Len(q)
    /\ \A i, j \in k..n : i <= j => start[i] <= start[j]
    /\ \A i \in (k + 1)..n :
         /\ Len(pieces[i]) \in Nat /\ start[i] = start[i - 1] + Len(pieces[i])
         /\ Holds(q, start[i - 1], pieces[i], Len(pieces[i]))

LEMMA LaidEmpty ==
  ASSUME NEW P, NEW k \in Nat
  PROVE  Laid(<< >>, P, k, k)
<1> DEFINE start == [i \in k..k |-> 0]
<1>1. start \in [k..k -> Nat] /\ start[k] = 0
  OBVIOUS
<1>2. \A i \in (k + 1)..k : FALSE
  OBVIOUS
<1>3. \A i, j \in k..k : i <= j => start[i] <= start[j]
  OBVIOUS
<1>4. Len(<< >>) = 0
  OBVIOUS
<1> HIDE DEF start
<1> QED
  BY <1>1, <1>2, <1>3, <1>4 DEF Laid

LEMMA LaidNothing ==
  ASSUME NEW q, NEW P, NEW k, Laid(q, P, k, k)
  PROVE  Len(q) = 0
BY DEF Laid

(* A reader takes the first piece away.                                     *)
LEMMA LaidFirst ==
  ASSUME NEW q \in Seq(Octet), NEW P, NEW k \in Nat, NEW n \in Nat, k < n, Laid(q, P, k, n),
         P[k + 1] \in Seq(Octet)
  PROVE  /\ Len(P[k + 1]) <= Len(q) /\ Bytes(q, 0, Len(P[k + 1])) = P[k + 1]
         /\ BytesFrom(q, Len(P[k + 1])) \in Seq(Octet)
         /\ Laid(BytesFrom(q, Len(P[k + 1])), P, k + 1, n)
<1> DEFINE m == Len(P[k + 1])
           rest == BytesFrom(q, m)
           length == Len(q)
<1>1. PICK start \in [k..n -> Nat] :
        /\ start[k] = 0 /\ start[n] = Len(q)
        /\ \A i, j \in k..n : i <= j => start[i] <= start[j]
        /\ \A i \in (k + 1)..n :
             /\ Len(P[i]) \in Nat /\ start[i] = start[i - 1] + Len(P[i])
             /\ Holds(q, start[i - 1], P[i], Len(P[i]))
  BY DEF Laid
<1>2. m \in Nat /\ length \in Nat
  OBVIOUS
<1>3. start[k + 1] = m /\ Holds(q, 0, P[k + 1], m)
  <2>1. k + 1 \in (k + 1)..n /\ (k + 1) - 1 = k
    OBVIOUS
  <2>2. start[k + 1] = start[(k + 1) - 1] + m /\ Holds(q, start[(k + 1) - 1], P[k + 1], m)
    BY <1>1, <2>1
  <2>3. start[k] = 0
    BY <1>1
  <2> QED
    BY <1>2, <2>1, <2>2, <2>3
<1>4. m <= length
  <2>1. k + 1 \in k..n /\ n \in k..n /\ k + 1 <= n
    OBVIOUS
  <2>2. start[k + 1] <= start[n]
    BY <1>1, <2>1
  <2> QED
    BY <1>1, <1>3, <2>2
<1>5. Sized(Octet, q, m + (length - m)) /\ Sized(Octet, P[k + 1], m)
  BY <1>2 DEF Sized
<1>6. Sized(Octet, rest, length - m) /\ Holds(q, m, rest, length - m)
  <2>1. length - m \in Nat
    BY <1>2, <1>4
  <2> HIDE DEF m, length
  <2> QED
    BY <1>2, <1>5, <2>1, Rest, Zenon
<1>7. Bytes(q, 0, m) = P[k + 1]
  <2>1. Sized(Octet, q, length)
    BY DEF Sized
  <2> HIDE DEF m, length
  <2>2. Sized(Octet, Bytes(q, 0, m), m) /\ Holds(q, 0, Bytes(q, 0, m), m)
    BY <1>2, <1>4, <2>1, FirstPart, Zenon
  <2> QED
    BY <1>3, <1>5, <2>2, SameSequence, Zenon
<1> DEFINE later == [i \in (k + 1)..n |-> start[i] - m]
<1>8. \A i \in (k + 1)..n : start[i] \in Nat /\ start[i] >= m /\ start[i] <= length
  <2> SUFFICES ASSUME NEW i \in (k + 1)..n
               PROVE  start[i] \in Nat /\ start[i] >= m /\ start[i] <= length
    OBVIOUS
  <2>1. i \in k..n /\ k + 1 \in k..n /\ n \in k..n /\ k + 1 <= i /\ i <= n
    OBVIOUS
  <2>2. start[k + 1] <= start[i] /\ start[i] <= start[n]
    BY <1>1, <2>1
  <2> QED
    BY <1>1, <1>3, <2>1, <2>2
<1> HIDE DEF m, rest, length
<1>9. later \in [(k + 1)..n -> Nat]
  BY <1>2, <1>8
<1>10. later[k + 1] = 0 /\ later[n] = Len(rest)
  <2>1. later[k + 1] = start[k + 1] - m /\ later[n] = start[n] - m
    OBVIOUS
  <2>2. Len(rest) = length - m
    BY <1>6 DEF Sized
  <2> QED
    BY <1>1, <1>2, <1>3, <2>1, <2>2 DEF length
<1>11. \A i, j \in (k + 1)..n : i <= j => later[i] <= later[j]
  <2>1. \A i, j \in (k + 1)..n : i <= j => start[i] <= start[j]
    BY <1>1
  <2> QED
    BY <1>2, <1>8, <2>1
<1>12. \A i \in ((k + 1) + 1)..n :
         /\ Len(P[i]) \in Nat /\ later[i] = later[i - 1] + Len(P[i])
         /\ Holds(rest, later[i - 1], P[i], Len(P[i]))
  <2> SUFFICES ASSUME NEW i \in ((k + 1) + 1)..n
               PROVE  /\ Len(P[i]) \in Nat /\ later[i] = later[i - 1] + Len(P[i])
                      /\ Holds(rest, later[i - 1], P[i], Len(P[i]))
    OBVIOUS
  <2>1. i \in (k + 1)..n /\ i - 1 \in (k + 1)..n
    OBVIOUS
  <2> DEFINE p == P[i]
             l == Len(P[i])
             a == start[i - 1]
             b == start[i]
  <2>2. l \in Nat /\ b = a + l /\ Holds(q, a, p, l)
    BY <1>1, <2>1
  <2>3. a \in Nat /\ b \in Nat /\ a >= m /\ b <= length
    BY <1>8, <2>1
  <2>4. later[i] = b - m /\ later[i - 1] = a - m
    BY <2>1
  <2>5. \A j \in 1..(length - m) : q[m + j] = rest[j]
    BY <1>6 DEF Holds
  <2>6. \A j \in 1..l : q[a + j] = p[j]
    BY <2>2 DEF Holds
  <2> HIDE DEF p, l, a, b, later
  <2>7. \A j \in 1..l : rest[(a - m) + j] = p[j]
    <3> SUFFICES ASSUME NEW j \in 1..l
                 PROVE  rest[(a - m) + j] = p[j]
      OBVIOUS
    <3>1. j \in Int /\ 1 <= j /\ a + j <= b
      BY <2>2, <2>3
    <3>2. (a - m) + j \in 1..(length - m) /\ m + ((a - m) + j) = a + j
      BY <1>2, <2>3, <3>1
    <3> QED
      BY <2>5, <2>6, <3>2
  <2>8. b - m = (a - m) + l
    BY <1>2, <2>2, <2>3
  <2> QED
    BY <2>2, <2>4, <2>7, <2>8 DEF Holds, p, l
<1>13. Laid(rest, P, k + 1, n)
  BY <1>9, <1>10, <1>11, <1>12 DEF Laid
<1>14. rest \in Seq(Octet)
  BY <1>6 DEF Sized
<1> QED
  BY <1>4, <1>7, <1>13, <1>14 DEF m, rest, length

(* A writer adds one at the end.                                            *)
LEMMA LaidLast ==
  ASSUME NEW q \in Seq(Octet), NEW p \in Seq(Octet), NEW P, NEW R, NEW k \in Nat, NEW n \in Nat, k <= n,
         Laid(q, P, k, n), \A i \in (k + 1)..n : R[i] = P[i], R[n + 1] = p
  PROVE  q \o p \in Seq(Octet) /\ Laid(q \o p, R, k, n + 1)
<1> DEFINE m == Len(p)
           length == Len(q)
           r == q \o p
<1>1. PICK start \in [k..n -> Nat] :
        /\ start[k] = 0 /\ start[n] = Len(q)
        /\ \A i, j \in k..n : i <= j => start[i] <= start[j]
        /\ \A i \in (k + 1)..n :
             /\ Len(P[i]) \in Nat /\ start[i] = start[i - 1] + Len(P[i])
             /\ Holds(q, start[i - 1], P[i], Len(P[i]))
  BY DEF Laid
<1>2. Sized(Octet, q, length) /\ Sized(Octet, p, m) /\ length \in Nat /\ m \in Nat
  BY DEF Sized
<1>3. start[n] = length
  BY <1>1
<1> HIDE DEF m, length
<1>4. Sized(Octet, r, length + m) /\ Holds(r, 0, q, length) /\ Holds(r, length, p, m)
  BY <1>2, Joined, Zenon
<1> HIDE DEF r
<1> DEFINE longer == [i \in k..(n + 1) |-> IF i = n + 1 THEN length + m ELSE start[i]]
<1>5. /\ longer[n + 1] = length + m
      /\ \A i \in k..n : longer[i] = start[i] /\ start[i] \in Nat /\ start[i] <= length
  BY <1>1, <1>3
<1>6. longer \in [k..(n + 1) -> Nat]
  BY <1>2
<1>7. longer[k] = 0 /\ longer[n + 1] = Len(r)
  BY <1>1, <1>4 DEF Sized
<1> HIDE DEF longer
<1>8. \A i, j \in k..(n + 1) : i <= j => longer[i] <= longer[j]
  <2> SUFFICES ASSUME NEW i \in k..(n + 1), NEW j \in k..(n + 1), i <= j
               PROVE  longer[i] <= longer[j]
    OBVIOUS
  <2>1. CASE j = n + 1 /\ i # n + 1
    BY <1>2, <1>5, <2>1
  <2>2. CASE j = n + 1 /\ i = n + 1
    BY <1>2, <1>5, <2>2
  <2>3. CASE j # n + 1
    <3>1. i \in k..n /\ j \in k..n
      BY <2>3
    <3>2. start[i] <= start[j]
      BY <1>1, <3>1
    <3> QED
      BY <1>5, <3>1, <3>2
  <2> QED
    BY <2>1, <2>2, <2>3
<1>9. \A i \in (k + 1)..(n + 1) :
        /\ Len(R[i]) \in Nat /\ longer[i] = longer[i - 1] + Len(R[i])
        /\ Holds(r, longer[i - 1], R[i], Len(R[i]))
  <2> SUFFICES ASSUME NEW i \in (k + 1)..(n + 1)
               PROVE  /\ Len(R[i]) \in Nat /\ longer[i] = longer[i - 1] + Len(R[i])
                      /\ Holds(r, longer[i - 1], R[i], Len(R[i]))
    OBVIOUS
  <2>1. CASE i = n + 1
    <3>1. R[i] = p /\ i - 1 \in k..n /\ i - 1 = n
      BY <2>1
    <3>2. longer[i] = length + m /\ longer[i - 1] = length /\ Len(R[i]) = m
      BY <1>3, <1>5, <2>1, <3>1 DEF m
    <3> QED
      BY <1>4, <3>1, <3>2
  <2>2. CASE i \in (k + 1)..n
    <3>1. i \in k..n /\ i - 1 \in k..n /\ R[i] = P[i]
      BY <2>2
    <3> DEFINE x == P[i]
               l == Len(P[i])
               a == start[i - 1]
               b == start[i]
    <3>2. longer[i] = b /\ longer[i - 1] = a /\ a \in Nat /\ b \in Nat /\ b <= length
      BY <1>5, <3>1
    <3>3. l \in Nat /\ b = a + l /\ Holds(q, a, x, l)
      BY <1>1, <2>2
    <3>4. \A j \in 1..length : r[0 + j] = q[j]
      BY <1>4 DEF Holds
    <3>5. \A j \in 1..l : q[a + j] = x[j]
      BY <3>3 DEF Holds
    <3> HIDE DEF x, l, a, b
    <3>6. \A j \in 1..l : r[a + j] = x[j]
      <4> SUFFICES ASSUME NEW j \in 1..l
                   PROVE  r[a + j] = x[j]
        OBVIOUS
      <4>1. a + j \in 1..length /\ 0 + (a + j) = a + j
        <5>1. j \in Nat /\ 1 <= j /\ j <= l /\ a \in Nat /\ l \in Nat /\ length \in Nat
          BY <1>2, <3>2, <3>3
        <5>2. a + l <= length
          BY <3>2, <3>3
        <5> QED
          BY <5>1, <5>2
      <4> QED
        BY <3>4, <3>5, <4>1
    <3> QED
      BY <3>1, <3>2, <3>3, <3>6 DEF Holds, x, l
  <2> QED
    BY <2>1, <2>2
<1>10. Laid(r, R, k, n + 1)
  BY <1>6, <1>7, <1>8, <1>9 DEF Laid
<1>11. r \in Seq(Octet)
  BY <1>4 DEF Sized
<1> QED
  BY <1>10, <1>11 DEF r

--------------------------------------------------------------------------------
(* Sequences, frames and their octets                                       *)

(* A sequence, whatever it is that it holds; what Append does to it.        *)
IsSeq(q) == Len(q) \in Nat /\ q = [n \in 1..Len(q) |-> q[n]]

LEMMA OfSequence ==
  ASSUME NEW S, NEW q \in Seq(S)
  PROVE  IsSeq(q)
BY DEF IsSeq

IsAppended(r, q, x, m) == m = Len(q) /\ r = Append(q, x)
Longer(r, q, x, m)     == Len(r) = m + 1 /\ r[m + 1] = x /\ \A n \in 1..m : r[n] = q[n]

LEMMA AppendedTo ==
  ASSUME NEW S, NEW q \in Seq(S), NEW x \in S, NEW m, NEW r, IsAppended(r, q, x, m)
  PROVE  r \in Seq(S) /\ Longer(r, q, x, m)
BY DEF IsAppended, Longer

LEMMA Appended ==
  ASSUME NEW q, NEW x, NEW m, NEW r, IsSeq(q), IsAppended(r, q, x, m)
  PROVE  IsSeq(r) /\ Longer(r, q, x, m)
<1> DEFINE S == {q[n] : n \in 1..m} \cup {x}
<1>1. m \in Nat /\ q = [n \in 1..m |-> q[n]]
  BY DEF IsSeq, IsAppended
<1>2. \A n \in 1..m : q[n] \in S
  OBVIOUS
<1>3. x \in S
  OBVIOUS
<1> HIDE DEF S
<1>4. q \in [1..m -> S]
  BY <1>1, <1>2
<1>5. q \in Seq(S)
  BY <1>1, <1>4, IsSequence, Zenon
<1> QED
  BY <1>3, <1>5, AppendedTo, OfSequence

(* The octets of one frame: the header says how many there are.             *)
LEMMA FrameTaken ==
  ASSUME NEW octets, IsFrame(octets)
  PROVE  LET h == DecodeHeader(SubSeq(octets, 1, HeaderSize))
         IN  /\ octets \in Seq(Octet) /\ h.length \in Nat /\ Len(octets) = 9 + h.length
             /\ h \in FrameHeaders /\ BytesFrom(octets, HeaderSize) \in Payloads
<1> DEFINE front == SubSeq(octets, 1, HeaderSize)
           h == DecodeHeader(front)
           length == Len(octets) - 9
           a == Bytes(front, 0, 3)
           c == Bytes(front, 5, 9)
<1>1. /\ octets \in Seq(Octet) /\ Len(octets) >= 9
      /\ Len(octets) = 9 + 65536 * octets[1] + 256 * octets[2] + octets[3]
  BY DEF IsFrame, HeaderSize
<1>2. length \in Nat /\ Sized(Octet, octets, 9 + length)
  BY <1>1 DEF Sized
<1>3. Sized(Octet, front, 9) /\ \A i \in 1..9 : front[i] = octets[i]
  BY <1>1 DEF HeaderSize, Sized
<1>4. Sized(Octet, BytesFrom(octets, 9), length)
  <2> HIDE DEF length
  <2> QED
    BY <1>2, 9 \in Nat, Rest, Zenon
<1> HIDE DEF front
<1>5. Sized(Octet, a, 3) /\ Holds(front, 0, a, 3)
  BY <1>3, FirstPart, 3 \in Nat, 3 <= 9
<1>6. Sized(Octet, c, 4)
  <2>1. Sized(Octet, front, 5 + 4)
    BY <1>3
  <2>2. Sized(Octet, BytesFrom(front, 5), 4)
    BY <2>1, Rest, 5 \in Nat, 4 \in Nat, Zenon
  <2>3. c = BytesFrom(front, 5)
    BY <1>3 DEF Bytes, BytesFrom, Sized
  <2> QED
    BY <2>2, <2>3
<1>7. a[1] = octets[1] /\ a[2] = octets[2] /\ a[3] = octets[3]
  BY <1>3, <1>5 DEF Holds
<1>8. h.length = Uint32IgnoreFirstBit(a) /\ h.id = Uint32IgnoreFirstBit(c)
  BY DEF DecodeHeader
<1>9. h = [length |-> h.length, type |-> front[4], flags |-> front[5], id |-> h.id]
  BY DEF DecodeHeader
<1> HIDE DEF a, c, h
<1>10. h.length = (a[1] * 256 + a[2]) * 256 + a[3] /\ h.length \in Sizes
  BY <1>5, <1>8, Numbers24 DEF Sized
<1>11. h.id \in Ids
  BY <1>6, <1>8, Numbers31 DEF Sized
<1>12. h.length = length
  <2>1. \A i \in 1..3 : octets[i] \in Octet
    BY <1>1, ElementsOf
  <2>2. octets[1] \in Int /\ octets[2] \in Int /\ octets[3] \in Int
    BY <2>1 DEF Octet
  <2>3. h.length = (octets[1] * 256 + octets[2]) * 256 + octets[3]
    BY <1>7, <1>10
  <2>4. (octets[1] * 256 + octets[2]) * 256 + octets[3] = 65536 * octets[1] + 256 * octets[2] + octets[3]
    BY <2>2
  <2> HIDE DEF length
  <2>5. length = 65536 * octets[1] + 256 * octets[2] + octets[3]
    BY <1>1, <2>2 DEF length
  <2> QED
    BY <2>3, <2>4, <2>5
<1>13. front[4] \in Octet /\ front[5] \in Octet
  <2>1. \A i \in 1..9 : front[i] \in Octet
    BY <1>3, ElementsOf DEF Sized
  <2> QED
    BY <2>1
<1>14. h \in FrameHeaders
  BY <1>9, <1>10, <1>11, <1>13 DEF FrameHeaders
<1>15. BytesFrom(octets, HeaderSize) \in Payloads
  BY <1>4, <1>10, <1>12 DEF Payloads, Sized, HeaderSize
<1> QED
  BY <1>1, <1>2, <1>12, <1>14, <1>15 DEF h, front

(* What a sample means is a frame, or it is refused.                        *)
LEMMA MeaningOfFrame ==
  ASSUME NEW octets, IsFrame(octets)
  PROVE  Meaning(octets) \in {Error, Panic} \cup Frames
BY FrameTaken, DecodesToFrames DEF Meaning

(* The header fields with another :authority, as Encode can write them:     *)
(* AuthoritiesAssumption is needed here.                                    *)
Renamed(headers, authority) ==
  [i \in DOMAIN headers |->
     IF headers[i].name = ":authority" THEN [headers[i] EXCEPT !.value = authority] ELSE headers[i]]

LEMMA FieldsFixed ==
  ASSUME NEW headers \in Blocks, NEW authority \in {Local, Remote}
  PROVE  /\ Renamed(headers, authority) \in Blocks
         /\ Len(Renamed(headers, authority)) = Len(headers)
         /\ Renamed(headers, authority) =
              [i \in DOMAIN headers |->
                 [name |-> headers[i].name,
                  value |-> IF headers[i].name = ":authority" THEN authority ELSE headers[i].value]]
<1> DEFINE n == Len(headers)
           fixed == Renamed(headers, authority)
           Field(i) == IF headers[i].name = ":authority" THEN [headers[i] EXCEPT !.value = authority]
                       ELSE headers[i]
<1>1. headers \in Seq(Fields) /\ n \in Sizes /\ n \in Nat /\ DOMAIN headers = 1..n
  BY DEF Blocks, Sizes
<1>2. ASSUME NEW i \in 1..n
      PROVE  /\ Field(i) \in Fields
             /\ Field(i) = [name |-> headers[i].name,
                            value |-> IF headers[i].name = ":authority" THEN authority ELSE headers[i].value]
  <2>1. PICK octet \in DOMAIN HeaderTable : headers[i] = HeaderTable[octet]
    BY <1>1, ElementsOf DEF Fields
  <2>2. HeaderTable[octet] = [name |-> HeaderTable[octet].name, value |-> HeaderTable[octet].value]
    BY TableAssumption
  <2>3. CASE headers[i].name = ":authority"
    <3>1. \E other \in DOMAIN HeaderTable :
            HeaderTable[other] = [HeaderTable[octet] EXCEPT !.value = authority]
      BY <2>1, <2>3, AuthoritiesAssumption
    <3>2. [headers[i] EXCEPT !.value = authority] \in Fields
      BY <2>1, <3>1 DEF Fields
    <3>3. [headers[i] EXCEPT !.value = authority] = [name |-> headers[i].name, value |-> authority]
      BY <2>1, <2>2
    <3> QED
      BY <2>3, <3>2, <3>3
  <2>4. CASE headers[i].name # ":authority"
    BY <2>1, <2>2, <2>4 DEF Fields
  <2> QED
    BY <2>3, <2>4
<1>3. fixed = [i \in 1..n |-> Field(i)]
  BY <1>1, Zenon DEF Renamed
<1> HIDE DEF n, fixed, Field
<1>4. fixed \in [1..n -> Fields]
  BY <1>2, <1>3
<1>5. fixed \in Seq(Fields) /\ Len(fixed) = n
  BY <1>1, <1>4, IsSequence
<1>6. fixed \in Blocks
  BY <1>1, <1>5 DEF Blocks
<1>7. fixed = [i \in 1..n |->
                 [name |-> headers[i].name,
                  value |-> IF headers[i].name = ":authority" THEN authority ELSE headers[i].value]]
  BY <1>2, <1>3
<1> QED
  BY <1>1, <1>5, <1>6, <1>7 DEF n, fixed

(* A frame is a frame of the same type after FixAuthorityHeader, and says   *)
(* what the receiver should read.                                           *)
LEMMA Fixed ==
  ASSUME NEW f \in Frames, NEW d \in Directions
  PROVE  /\ FixAuthorityHeader(f, Authority[d]) \in Frames
         /\ FixAuthorityHeader(f, Authority[d]).type = f.type
         /\ Reread(FixAuthorityHeader(f, Authority[d])) = Expected(d, f)
<1> DEFINE authority == Authority[d]
           headers == f.headers
           fixed == Renamed(headers, authority)
           g == FixAuthorityHeader(f, Authority[d])
<1>1. authority \in {Local, Remote}
  BY DEF Authority, Directions
<1>2. CASE f \in HeadersFrames
  <2>1. f.type = "HEADERS" /\ headers \in Blocks
    BY <1>2 DEF HeadersFrames
  <2>2. g = [f EXCEPT !.headers = fixed]
    BY <2>1 DEF FixAuthorityHeader, Renamed
  <2>3. /\ fixed \in Blocks
        /\ fixed = [i \in DOMAIN headers |->
                 [name |-> headers[i].name,
                  value |-> IF headers[i].name = ":authority" THEN authority ELSE headers[i].value]]
    BY <1>1, <2>1, FieldsFixed
  <2>4. Expected(d, f) = [f EXCEPT !.headers = fixed, !.priority = FALSE]
    BY <2>1, <2>3 DEF Expected
  <2> HIDE DEF fixed, g, headers
  <2>5. g \in HeadersFrames
    BY <1>2, <2>2, <2>3 DEF HeadersFrames
  <2>6. g.type = "HEADERS"
    BY <2>5 DEF HeadersFrames
  <2>7. Reread(g) = [g EXCEPT !.priority = FALSE]
    BY <2>6 DEF Reread
  <2>8. [g EXCEPT !.priority = FALSE] = [f EXCEPT !.headers = fixed, !.priority = FALSE]
    BY <1>2, <2>2 DEF HeadersFrames
  <2> QED
    BY <2>1, <2>4, <2>5, <2>6, <2>7, <2>8 DEF Frames, g
<1>3. CASE f \in PushPromiseFrames
  <2>1. f.type = "PUSH_PROMISE" /\ headers \in Blocks /\ 4 + Len(headers) \in Sizes
    BY <1>3 DEF PushPromiseFrames
  <2>2. g = [f EXCEPT !.headers = fixed]
    BY <2>1 DEF FixAuthorityHeader, Renamed
  <2>3. /\ fixed \in Blocks /\ Len(fixed) = Len(headers)
        /\ fixed = [i \in DOMAIN headers |->
                 [name |-> headers[i].name,
                  value |-> IF headers[i].name = ":authority" THEN authority ELSE headers[i].value]]
    BY <1>1, <2>1, FieldsFixed
  <2>4. Expected(d, f) = [f EXCEPT !.headers = fixed]
    BY <2>1, <2>3 DEF Expected
  <2> HIDE DEF fixed, g, headers
  <2>5. g \in PushPromiseFrames
    BY <1>3, <2>1, <2>2, <2>3 DEF PushPromiseFrames
  <2>6. g.type = "PUSH_PROMISE"
    BY <2>5 DEF PushPromiseFrames
  <2>7. Reread(g) = g
    BY <2>6 DEF Reread
  <2> QED
    BY <2>1, <2>2, <2>4, <2>5, <2>6, <2>7 DEF Frames, g
<1>4. CASE f \notin HeadersFrames \cup PushPromiseFrames
  <2>1. f.type \notin {"HEADERS", "PUSH_PROMISE"}
    BY <1>4 DEF Frames, DataFrames, PriorityFrames, RstStreamFrames, SettingsFrames, PingFrames,
       GoAwayFrames, WindowUpdateFrames
  <2> QED
    BY <2>1 DEF FixAuthorityHeader, Reread, Expected
<1> QED
  BY <1>2, <1>3, <1>4

LEMMA JoinedTwice ==
  ASSUME NEW S, NEW p \in Seq(S), NEW q \in Seq(S), NEW r \in Seq(S)
  PROVE  (p \o q) \o r = p \o (q \o r)
OBVIOUS

LEMMA InTwoParts ==
  ASSUME NEW octets, NEW m \in Nat, NEW l \in Nat, Sized(Octet, octets, m + l)
  PROVE  /\ Sized(Octet, Bytes(octets, 0, m), m) /\ Holds(octets, 0, Bytes(octets, 0, m), m)
         /\ Sized(Octet, BytesFrom(octets, m), l) /\ Holds(octets, m, BytesFrom(octets, m), l)
<1>1. m <= m + l
  OBVIOUS
<1> QED
  BY <1>1, FirstPart, Rest, Zenon

(* ReadHeader splits what has arrived.                                      *)
LEMMA HeaderTaken ==
  ASSUME NEW q \in Seq(Octet), Len(q) >= HeaderSize
  PROVE  /\ SubSeq(q, 1, HeaderSize) \in [1..HeaderSize -> Octet]
         /\ BytesFrom(q, HeaderSize) \in Seq(Octet)
         /\ SubSeq(q, 1, HeaderSize) \o BytesFrom(q, HeaderSize) = q
<1> DEFINE m == HeaderSize
           n == Len(q) - HeaderSize
           a == Bytes(q, 0, m)
           b == BytesFrom(q, m)
<1>1. m \in Nat /\ n \in Nat /\ Sized(Octet, q, m + n)
  BY DEF HeaderSize, Sized
<1>2. a = SubSeq(q, 1, HeaderSize)
  BY DEF Bytes
<1> HIDE DEF m, n
<1>3. Sized(Octet, a, m) /\ Holds(q, 0, a, m) /\ Sized(Octet, b, n) /\ Holds(q, m, b, n)
  BY <1>1, InTwoParts, Zenon
<1> HIDE DEF a, b
<1>4. a \o b = q
  <2> DEFINE r == a \o b
  <2>1. Sized(Octet, r, m + n) /\ Holds(r, 0, a, m) /\ Holds(r, m, b, n)
    BY <1>3, Joined, Zenon
  <2> HIDE DEF r
  <2>2. \A i \in 1..(m + n) : r[i] = q[i]
    <3> SUFFICES ASSUME NEW i \in 1..(m + n)
                 PROVE  r[i] = q[i]
      OBVIOUS
    <3>1. CASE i <= m
      <4>1. i \in 1..m /\ 0 + i = i
        BY <1>1, <3>1
      <4> QED
        BY <1>3, <2>1, <4>1 DEF Holds
    <3>2. CASE i > m
      <4>1. i - m \in 1..n /\ m + (i - m) = i
        BY <1>1, <3>2
      <4> QED
        BY <1>3, <2>1, <4>1 DEF Holds
    <3> QED
      BY <1>1, <3>1, <3>2
  <2>3. r = q
    BY <1>1, <2>1, <2>2 DEF Sized
  <2> QED
    BY <2>3 DEF r
<1>5. a \in [1..m -> Octet] /\ b \in Seq(Octet)
  BY <1>3, AsFunction DEF Sized
<1> QED
  BY <1>2, <1>4, <1>5 DEF m, b

(* ReadPayload decodes the payload of the frame whose header was read       *)
(* before it, and leaves the frames behind that one.                        *)
LEMMA PayloadTaken ==
  ASSUME NEW front \in [1..HeaderSize -> Octet], NEW rest \in Seq(Octet), NEW P,
         NEW k \in Nat, NEW n \in Nat, k < n, Laid(front \o rest, P, k, n), IsFrame(P[k + 1]),
         NEW h, h = DecodeHeader(front)
  PROVE  /\ Decode(h, SubSeq(rest, 1, h.length)) = Meaning(P[k + 1])
         /\ BytesFrom(rest, h.length) \in Seq(Octet)
         /\ Laid(BytesFrom(rest, h.length), P, k + 1, n)
<1> DEFINE m == HeaderSize
           octets == P[k + 1]
           l == DecodeHeader(SubSeq(octets, 1, HeaderSize)).length
           w == Len(rest)
           q == front \o rest
<1>1. m \in Nat /\ m = 9 /\ m = HeaderSize
  BY DEF HeaderSize
<1>2. l \in Nat /\ Sized(Octet, octets, m + l) /\ Len(octets) = m + l /\ octets \in Seq(Octet)
  <2>1. octets \in Seq(Octet) /\ l \in Nat /\ Len(octets) = 9 + l
    BY FrameTaken
  <2> QED
    BY <1>1, <2>1 DEF Sized
<1>3. w \in Nat /\ Sized(Octet, rest, w)
  BY DEF Sized
<1>4. front \in [1..m -> Octet]
  OBVIOUS
<1> HIDE DEF m
<1>5. Sized(Octet, front, m)
  BY <1>1, <1>4, IsSequence DEF Sized
<1> HIDE DEF w
<1>6. Sized(Octet, q, m + w) /\ Holds(q, 0, front, m) /\ Holds(q, m, rest, w)
  BY <1>3, <1>5, Joined, Zenon
<1>7. /\ Len(octets) <= Len(q) /\ Bytes(q, 0, Len(octets)) = octets
      /\ BytesFrom(q, Len(octets)) \in Seq(Octet)
      /\ Laid(BytesFrom(q, Len(octets)), P, k + 1, n)
  <2>1. q \in Seq(Octet) /\ Laid(q, P, k, n)
    BY <1>6 DEF Sized
  <2>2. P[k + 1] \in Seq(Octet)
    BY <1>2
  <2> HIDE DEF q
  <2> QED
    BY <2>1, <2>2, LaidFirst
<1> HIDE DEF q, octets, l
<1>8. l <= w /\ Bytes(q, 0, m + l) = octets /\ w - l \in Nat
  BY <1>1, <1>2, <1>3, <1>6, <1>7 DEF Sized
<1>9. /\ Sized(Octet, Bytes(octets, 0, m), m) /\ Holds(octets, 0, Bytes(octets, 0, m), m)
      /\ Sized(Octet, BytesFrom(octets, m), l) /\ Holds(octets, m, BytesFrom(octets, m), l)
  BY <1>1, <1>2, InTwoParts, Zenon
<1>10. /\ Sized(Octet, Bytes(rest, 0, l), l) /\ Holds(rest, 0, Bytes(rest, 0, l), l)
       /\ Sized(Octet, BytesFrom(rest, l), w - l) /\ Holds(rest, l, BytesFrom(rest, l), w - l)
  <2>1. Sized(Octet, rest, l + (w - l))
    BY <1>2, <1>3, <1>8
  <2> QED
    BY <1>2, <1>8, <2>1, InTwoParts, Zenon
<1>11. /\ Holds(q, 0, octets, m + l)
       /\ Sized(Octet, BytesFrom(q, m + l), w - l) /\ Holds(q, m + l, BytesFrom(q, m + l), w - l)
  <2>1. Sized(Octet, q, (m + l) + (w - l)) /\ m + l \in Nat
    BY <1>1, <1>2, <1>3, <1>6
  <2>2. /\ Holds(q, 0, Bytes(q, 0, m + l), m + l)
        /\ Sized(Octet, BytesFrom(q, m + l), w - l) /\ Holds(q, m + l, BytesFrom(q, m + l), w - l)
    BY <1>8, <2>1, InTwoParts, Zenon
  <2> QED
    BY <1>8, <2>2
<1>12. Bytes(octets, 0, m) = front
  <2>1. Holds(q, 0, Bytes(octets, 0, m), m)
    BY <1>1, <1>2, <1>9, <1>11 DEF Holds
  <2> QED
    BY <1>5, <1>6, <1>9, <2>1, SameSequence, Zenon
<1>13. BytesFrom(octets, m) = Bytes(rest, 0, l)
  <2> DEFINE x == BytesFrom(octets, m)
             y == Bytes(rest, 0, l)
  <2>1. Holds(q, m, x, l)
    <3>1. Holds(octets, m, x, l)
      BY <1>9
    <3> HIDE DEF x
    <3> QED
      <4> SUFFICES ASSUME NEW i \in 1..l
                   PROVE  q[m + i] = x[i]
        BY DEF Holds
      <4>1. m + i \in 1..(m + l) /\ 0 + (m + i) = m + i
        BY <1>1, <1>2
      <4> QED
        BY <1>11, <3>1, <4>1 DEF Holds
  <2>2. Holds(q, m, y, l)
    <3>1. Holds(rest, 0, y, l)
      BY <1>10
    <3> HIDE DEF y
    <3> QED
      <4> SUFFICES ASSUME NEW i \in 1..l
                   PROVE  q[m + i] = y[i]
        BY DEF Holds
      <4>1. i \in 1..w /\ 0 + i = i
        BY <1>2, <1>3, <1>8
      <4> QED
        BY <1>6, <3>1, <4>1 DEF Holds
  <2> QED
    BY <1>9, <1>10, <2>1, <2>2, SameSequence, Zenon
<1>14. BytesFrom(q, m + l) = BytesFrom(rest, l)
  <2> DEFINE x == BytesFrom(q, m + l)
             y == BytesFrom(rest, l)
  <2>1. Holds(q, m + l, y, w - l)
    <3>1. Holds(rest, l, y, w - l)
      BY <1>10
    <3> HIDE DEF y
    <3> QED
      <4> SUFFICES ASSUME NEW i \in 1..(w - l)
                   PROVE  q[(m + l) + i] = y[i]
        BY DEF Holds
      <4>1. l + i \in 1..w /\ m + (l + i) = (m + l) + i
        BY <1>1, <1>2, <1>3, <1>8
      <4> QED
        BY <1>6, <3>1, <4>1 DEF Holds
  <2> QED
    BY <1>10, <1>11, <2>1, SameSequence, Zenon
<1>15. Bytes(octets, 0, m) = SubSeq(octets, 1, m) /\ Bytes(rest, 0, l) = SubSeq(rest, 1, l)
  BY <1>1, <1>2 DEF Bytes
<1>16. h = DecodeHeader(SubSeq(octets, 1, HeaderSize)) /\ h.length = l
  BY <1>1, <1>12, <1>15 DEF l
<1>17. Decode(h, SubSeq(rest, 1, h.length)) = Meaning(octets)
  BY <1>1, <1>13, <1>15, <1>16 DEF Meaning
<1>18. BytesFrom(rest, h.length) \in Seq(Octet) /\ Laid(BytesFrom(rest, h.length), P, k + 1, n)
  BY <1>2, <1>7, <1>14, <1>16
<1> QED
  BY <1>17, <1>18 DEF octets

(* A receiver in step reads the next frame that was written, and leaves the *)
(* frames behind that one.                                                  *)
LEMMA FrameRead ==
  ASSUME NEW q \in Seq(Octet), NEW P, NEW k \in Nat, NEW n \in Nat, k < n, Laid(q, P, k, n),
         NEW g, Says(P[k + 1], g)
  PROVE  LET size == HeaderSize + FirstHeader(q).length
         IN  /\ Decode(FirstHeader(q), SubSeq(q, HeaderSize + 1, size)) = g
             /\ BytesFrom(q, size) \in Seq(Octet)
             /\ Laid(BytesFrom(q, size), P, k + 1, n)
<1> DEFINE m == HeaderSize
           octets == P[k + 1]
           h == DecodeHeader(SubSeq(octets, 1, HeaderSize))
           l == h.length
           w == Len(q)
           size == HeaderSize + FirstHeader(q).length
<1>1. m \in Nat /\ m = 9 /\ m = HeaderSize
  BY DEF HeaderSize
<1>2. h \in FrameHeaders /\ Sized(Octet, octets, m + l) /\ Decode(h, BytesFrom(octets, m)) = g
  BY <1>1 DEF Says
<1>3. l \in Nat
  <2> HIDE DEF h
  <2> QED
    BY <1>2 DEF FrameHeaders, Sizes
<1>4. octets \in Seq(Octet) /\ Len(octets) = m + l /\ w \in Nat
  BY <1>2 DEF Sized
<1>5. /\ Len(octets) <= w /\ Bytes(q, 0, Len(octets)) = octets
      /\ BytesFrom(q, Len(octets)) \in Seq(Octet)
      /\ Laid(BytesFrom(q, Len(octets)), P, k + 1, n)
  <2>1. P[k + 1] \in Seq(Octet)
    BY <1>4
  <2> QED
    BY <2>1, LaidFirst
<1>6. Sized(Octet, q, w)
  BY DEF Sized
<1> HIDE DEF m, octets, l, w
<1>7. m + l <= w /\ Bytes(q, 0, m + l) = octets /\ m + l \in Nat /\ m <= w
  BY <1>1, <1>3, <1>4, <1>5
<1>8. /\ Sized(Octet, Bytes(octets, 0, m), m) /\ Holds(octets, 0, Bytes(octets, 0, m), m)
      /\ Sized(Octet, BytesFrom(octets, m), l) /\ Holds(octets, m, BytesFrom(octets, m), l)
  BY <1>1, <1>2, <1>3, InTwoParts, Zenon
<1>9. Sized(Octet, Bytes(q, 0, m), m) /\ Holds(q, 0, Bytes(q, 0, m), m)
  BY <1>1, <1>6, <1>7, FirstPart, Zenon
<1>10. Holds(q, 0, octets, m + l)
  BY <1>6, <1>7, FirstPart, Zenon
<1>11. Bytes(octets, 0, m) = Bytes(q, 0, m)
  <2> DEFINE x == Bytes(octets, 0, m)
  <2>1. Holds(q, 0, x, m)
    <3>1. Holds(octets, 0, x, m)
      BY <1>8
    <3> HIDE DEF x
    <3> QED
      <4> SUFFICES ASSUME NEW i \in 1..m
                   PROVE  q[0 + i] = x[i]
        BY DEF Holds
      <4>1. i \in 1..(m + l) /\ 0 + i = i
        BY <1>1, <1>3
      <4> QED
        BY <1>10, <3>1, <4>1 DEF Holds
  <2> QED
    BY <1>8, <1>9, <2>1, SameSequence, Zenon
<1>12. Bytes(octets, 0, m) = SubSeq(octets, 1, HeaderSize) /\ Bytes(q, 0, m) = SubSeq(q, 1, HeaderSize)
  <2>1. \A r : Bytes(r, 0, m) = SubSeq(r, 1, HeaderSize)
    BY <1>1 DEF Bytes
  <2> QED
    BY <2>1, Zenon
<1>13. FirstHeader(q) = h
  BY <1>11, <1>12, Zenon DEF FirstHeader
<1>14. size = m + l
  BY <1>1, <1>13 DEF l
<1> HIDE DEF h, size
<1>15. SubSeq(q, m + 1, m + l) = BytesFrom(octets, m)
  <2> DEFINE x == BytesFrom(octets, m)
             y == SubSeq(q, m + 1, m + l)
  <2>1. Holds(q, m, x, l)
    <3>1. Holds(octets, m, x, l)
      BY <1>8
    <3> HIDE DEF x
    <3> QED
      <4> SUFFICES ASSUME NEW i \in 1..l
                   PROVE  q[m + i] = x[i]
        BY DEF Holds
      <4>1. m + i \in 1..(m + l) /\ 0 + (m + i) = m + i
        BY <1>1, <1>3
      <4> QED
        BY <1>10, <3>1, <4>1 DEF Holds
  <2>2. Sized(Octet, y, l) /\ Holds(q, m, y, l)
    BY <1>1, <1>3, <1>6, <1>7 DEF Sized, Holds
  <2> QED
    BY <1>8, <2>1, <2>2, SameSequence, Zenon
<1>16. Decode(FirstHeader(q), SubSeq(q, HeaderSize + 1, size)) = g
  BY <1>1, <1>2, <1>13, <1>14, <1>15
<1>17. BytesFrom(q, size) \in Seq(Octet) /\ Laid(BytesFrom(q, size), P, k + 1, n)
  BY <1>4, <1>5, <1>14
<1> QED
  BY <1>16, <1>17 DEF size

--------------------------------------------------------------------------------
(* The inductive invariant                                                  *)

(* The octets of the frames that a direction was given; what the decoders   *)
(* read in the nth of them, and what forwardFrames makes of that.           *)
SentOctets(d) == [n \in 1..Len(sent[d]) |-> sent[d][n].octets]

Means(d, n)     == Meaning(sent[d][n].octets)
Forwarded(d, n) == FixAuthorityHeader(Means(d, n), Authority[d])

(* What TypeOK does not say of the octets and the histories.                *)
Functions ==
  /\ fwd \in [Directions -> {"none", "header", "payload", "dump", "write", "ended"}]
  /\ written \in [Directions -> Nat] /\ dumped \in [Directions -> Nat]
  /\ arriving \in [Directions -> Seq(Octet)]
  /\ \A f \in {sent, got, header, frame, leaving} : DOMAIN f = Directions
  /\ \A d \in Directions : sent[d] \in Seq(Samples[d]) /\ IsSeq(got[d])

(* Nothing is forwarded before both connections are there.                  *)
PhaseFits == phase # "forward" => \A d \in Directions : fwd[d] = "none"

(* Every frame of the server has its cause, which is never more than the    *)
(* server has read by now.                                                  *)
CausesFit ==
  /\ IsSeq(cause) /\ Len(cause) = Len(sent["in"])
  /\ \A n \in 1..Len(cause) : cause[n] \in Nat /\ cause[n] <= Len(got["out"])

(* Frames are dumped and written one by one, one may be dumped and not yet  *)
(* written, and only frames that were sent.                                 *)
Counted(d) ==
  /\ written[d] <= dumped[d] /\ dumped[d] <= Len(sent[d])
  /\ fwd[d] \notin {"write", "ended"} => dumped[d] = written[d]
  /\ fwd[d] = "write" => dumped[d] = written[d] + 1
  /\ fwd[d] \in {"payload", "dump", "write"} => written[d] + 1 <= Len(sent[d])

(* The number of frames whose octets have been read.                        *)
Taken(d) == written[d] + (IF fwd[d] \in {"dump", "write"} THEN 1 ELSE 0)

(* The octets on their way to the wiretap, together with the header it has  *)
(* just read, are the frames sent and not yet taken, laid end to end.       *)
ArrivingFits(d) ==
  IF fwd[d] = "payload"
  THEN \E front \in [1..HeaderSize -> Octet] :
         /\ header[d] = DecodeHeader(front)
         /\ Laid(front \o arriving[d], SentOctets(d), Taken(d), Len(sent[d]))
  ELSE Laid(arriving[d], SentOctets(d), Taken(d), Len(sent[d]))

(* The frame in hand is the next one of those sent.                         *)
FrameFits(d) ==
  fwd[d] \in {"dump", "write"} =>
    Means(d, written[d] + 1) \in Frames /\ frame[d] = Forwarded(d, written[d] + 1)

(* Nobody reads on after a panic or an end, when some of a frame may be     *)
(* lost.                                                                    *)
InFits(d) == crashed \/ fwd[d] = "ended" \/ (ArrivingFits(d) /\ FrameFits(d))

(* The first n frames that were read are the first n sent.                  *)
AsExpected(d, n) ==
  \A m \in 1..n : Means(d, m).type \notin Headerless /\ got[d][m] = Expected(d, Means(d, m))

(* What may have been written for the frames written so far.                *)
Writings(d) ==
  {pieces \in [1..written[d] -> Seq(Octet)] :
     \A n \in 1..written[d] : pieces[n] \in Encodings(Forwarded(d, n))}

(* The receiver is in step: what it has read is as expected, and what is on *)
(* its way is the frames written and not yet read, laid end to end, of      *)
(* which some may have been written without a header.                       *)
Reading(d) ==
  /\ Len(got[d]) <= written[d] /\ AsExpected(d, Len(got[d]))
  /\ leaving[d] \in Seq(Octet)
  /\ \E pieces \in Writings(d) : Laid(leaving[d], pieces, Len(got[d]), written[d])

(* The receiver has read the octets of a frame without a header for those   *)
(* of a frame: from then on anything may follow, its history before that    *)
(* one is as expected.                                                      *)
OutOfStep(d) ==
  \E n \in 1..Len(got[d]) :
    n <= written[d] /\ Means(d, n).type \in Headerless /\ AsExpected(d, n - 1)

OutFits(d) ==
  /\ \A n \in 1..written[d] : Means(d, n) \in Frames
  /\ Reading(d) \/ OutOfStep(d)

(* The inductive invariant.                                                 *)
WInv ==
  /\ TypeOK /\ Functions /\ PhaseFits /\ CausesFit
  /\ \A d \in Directions : Counted(d) /\ InFits(d) /\ OutFits(d)
--------------------------------------------------------------------------------
(* Steps that leave a direction alone, or end it                            *)

(* Nothing of the direction changes.                                        *)
Untouched(d) ==
  /\ fwd'[d] = fwd[d] /\ header'[d] = header[d] /\ frame'[d] = frame[d]
  /\ arriving'[d] = arriving[d] /\ leaving'[d] = leaving[d]
  /\ sent'[d] = sent[d] /\ got'[d] = got[d]
  /\ written'[d] = written[d] /\ dumped'[d] = dumped[d]

LEMMA InKept ==
  ASSUME NEW d \in Directions, InFits(d), crashed => crashed',
         fwd'[d] = fwd[d], header'[d] = header[d], frame'[d] = frame[d],
         arriving'[d] = arriving[d], sent'[d] = sent[d], written'[d] = written[d]
  PROVE  InFits(d)'
BY DEF InFits, ArrivingFits, FrameFits, SentOctets, Taken, Means, Forwarded

LEMMA OutKept ==
  ASSUME NEW d \in Directions, OutFits(d),
         leaving'[d] = leaving[d], sent'[d] = sent[d], got'[d] = got[d], written'[d] = written[d]
  PROVE  OutFits(d)'
<1>1. /\ \A n \in 1..written[d] : Means(d, n) \in Frames
      /\ Reading(d) \/ OutOfStep(d)
  BY DEF OutFits
<1>2. \A n : Means(d, n)' = Means(d, n) /\ Forwarded(d, n)' = Forwarded(d, n)
  BY DEF Means, Forwarded
<1>3. \A n : AsExpected(d, n) => AsExpected(d, n)'
  BY <1>2 DEF AsExpected
<1>4. Writings(d)' = Writings(d)
  BY <1>2 DEF Writings
<1>5. Reading(d) => Reading(d)'
  BY <1>3, <1>4 DEF Reading
<1>6. OutOfStep(d) => OutOfStep(d)'
  BY <1>2, <1>3 DEF OutOfStep
<1> QED
  BY <1>1, <1>2, <1>5, <1>6 DEF OutFits

LEMMA Kept ==
  ASSUME NEW d \in Directions, Counted(d), InFits(d), OutFits(d), Untouched(d), crashed => crashed'
  PROVE  Counted(d)' /\ InFits(d)' /\ OutFits(d)'
<1>1. Counted(d)'
  BY DEF Counted, Untouched
<1> QED
  BY <1>1, InKept, OutKept DEF Untouched

(* A step of one direction: what it has to show of the others is nothing.   *)
LEMMA OneDirection ==
  ASSUME WInv, NEW d \in Directions, Functions', PhaseFits', CausesFit',
         phase' = phase, tapped' \in [Ends -> BOOLEAN], peer' \in [Ends -> BOOLEAN],
         crashed' \in BOOLEAN, crashed => crashed',
         \A e \in Directions : e # d => Untouched(e),
         Counted(d)', InFits(d)', OutFits(d)'
  PROVE  WInv'
<1>1. \A e \in Directions : Counted(e)' /\ InFits(e)' /\ OutFits(e)'
  <2> SUFFICES ASSUME NEW e \in Directions
               PROVE  Counted(e)' /\ InFits(e)' /\ OutFits(e)'
    OBVIOUS
  <2>1. CASE e = d
    BY <2>1
  <2>2. CASE e # d
    BY <2>2, Kept DEF WInv
  <2> QED
    BY <2>1, <2>2
<1>2. TypeOK'
  BY <1>1 DEF TypeOK, WInv, Functions, Counted
<1> QED
  BY <1>1, <1>2 DEF WInv

LEMMA CausesKept ==
  ASSUME CausesFit, cause' = cause, sent'["in"] = sent["in"], got'["out"] = got["out"]
  PROVE  CausesFit'
BY DEF CausesFit

(* A goroutine that returns leaves its frame behind, and closes both        *)
(* connections.                                                             *)
LEMMA Returns ==
  ASSUME WInv, NEW d \in Directions, fwd[d] \in {"header", "payload", "write"}, Return(d),
         DOMAIN header' = Directions, DOMAIN frame' = Directions,
         arriving' \in [Directions -> Seq(Octet)],
         \A e \in Directions : e # d =>
           header'[e] = header[e] /\ frame'[e] = frame[e] /\ arriving'[e] = arriving[e],
         UNCHANGED <<phase, crashed, leaving, written, dumped, peers>>
  PROVE  WInv'
<1>1. fwd' = [fwd EXCEPT ![d] = "ended"] /\ tapped' = [e \in Ends |-> FALSE]
  BY DEF Return
<1>2. /\ TypeOK /\ Functions /\ PhaseFits /\ CausesFit /\ Counted(d) /\ OutFits(d)
      /\ fwd \in [Directions -> {"none", "header", "payload", "dump", "write", "ended"}]
  BY DEF WInv, Functions
<1>3. fwd'[d] = "ended" /\ \A e \in Directions : e # d => fwd'[e] = fwd[e]
  BY <1>1, <1>2
<1>4. Functions'
  BY <1>1, <1>2 DEF Functions, peers
<1>5. PhaseFits'
  BY <1>2, <1>3 DEF PhaseFits
<1>6. CausesFit'
  BY <1>2, CausesKept DEF peers
<1>7. \A e \in Directions : e # d => Untouched(e)
  BY <1>3 DEF Untouched, peers
<1>8. Counted(d)'
  BY <1>2, <1>3 DEF Counted, peers
<1>9. InFits(d)'
  BY <1>3 DEF InFits
<1>10. OutFits(d)'
  BY <1>2, OutKept DEF peers
<1>11. tapped' \in [Ends -> BOOLEAN] /\ peer' \in [Ends -> BOOLEAN] /\ crashed' \in BOOLEAN
  BY <1>1, <1>2 DEF TypeOK, peers
<1> QED
  BY <1>4, <1>5, <1>6, <1>7, <1>8, <1>9, <1>10, <1>11, OneDirection

LEMMA WInvInitially ==
  ASSUME Init
  PROVE  WInv
<1>1. TypeOK
  <2>1. fwd \in [Directions -> {"none", "header", "payload", "dump", "write", "ended"}]
    BY DEF Init
  <2>2. tapped = [client |-> TRUE, server |-> FALSE] /\ peer = [e \in Ends |-> TRUE]
    BY DEF Init
  <2>3. DOMAIN tapped = Ends /\ tapped["client"] = TRUE /\ tapped["server"] = FALSE
    BY <2>2 DEF Ends
  <2>4. tapped \in [Ends -> BOOLEAN]
    <3>1. tapped = [e \in Ends |-> tapped[e]]
      BY <2>2, <2>3
    <3>2. \A e \in Ends : tapped[e] \in BOOLEAN
      BY <2>3 DEF Ends
    <3> QED
      BY <3>1, <3>2
  <2>5. peer \in [Ends -> BOOLEAN]
    BY <2>2
  <2>6. \A d \in Directions : written[d] = 0 /\ dumped[d] = 0 /\ Len(sent[d]) = 0
    BY DEF Init
  <2>7. \A d \in Directions : written[d] <= dumped[d] /\ dumped[d] <= Len(sent[d])
    BY <2>6
  <2>8. phase \in {"negotiate", "preface", "connect", "forward", "failed"} /\ crashed \in BOOLEAN
    BY DEF Init
  <2> QED
    BY <2>1, <2>4, <2>5, <2>7, <2>8, Zenon DEF TypeOK
<1>2. Functions
  BY DEF Init, Functions, IsSeq
<1>3. PhaseFits
  BY DEF Init, PhaseFits
<1>4. CausesFit
  BY DEF Init, CausesFit, IsSeq, Directions
<1> SUFFICES ASSUME NEW d \in Directions
             PROVE  Counted(d) /\ InFits(d) /\ OutFits(d)
  BY <1>1, <1>2, <1>3, <1>4 DEF WInv
<1>5. /\ fwd[d] = "none" /\ written[d] = 0 /\ dumped[d] = 0
      /\ sent[d] = << >> /\ got[d] = << >> /\ arriving[d] = << >> /\ leaving[d] = << >>
  BY DEF Init
<1>6. Counted(d)
  BY <1>5 DEF Counted
<1>7. Len(sent[d]) = 0 /\ Len(got[d]) = 0
  BY <1>5
<1>8. ArrivingFits(d)
  <2>1. Laid(<< >>, SentOctets(d), 0, 0)
    BY LaidEmpty
  <2> QED
    BY <1>5, <1>7, <2>1 DEF ArrivingFits, Taken
<1>9. FrameFits(d)
  BY <1>5 DEF FrameFits
<1>10. Reading(d)
  <2> DEFINE pieces == [n \in 1..0 |-> << >>]
  <2>1. pieces \in Writings(d)
    BY <1>5 DEF Writings
  <2>2. Laid(<< >>, pieces, 0, 0)
    BY LaidEmpty
  <2>3. AsExpected(d, 0)
    BY DEF AsExpected
  <2> HIDE DEF pieces
  <2> QED
    BY <1>5, <1>7, <2>1, <2>2, <2>3 DEF Reading
<1> QED
  BY <1>5, <1>6, <1>8, <1>9, <1>10 DEF InFits, OutFits

--------------------------------------------------------------------------------
(* The steps of the wiretap                                                 *)

LEMMA Connecting ==
  ASSUME WInv, HandleConnection
  PROVE  WInv'
<1>1. /\ TypeOK /\ Functions /\ PhaseFits /\ CausesFit
      /\ \A d \in Directions : Counted(d) /\ InFits(d) /\ OutFits(d)
  BY DEF WInv
<1>2. CASE NegotiateH2Protocol \/ ReceiveClientPreface
  <2>1. /\ phase # "forward" /\ phase' \in {"preface", "connect", "failed"}
        /\ UNCHANGED <<fwd, header, frame, tapped, crashed, written, dumped, network, peers>>
    BY <1>2 DEF NegotiateH2Protocol, ReceiveClientPreface
  <2>2. TypeOK' /\ Functions' /\ PhaseFits' /\ CausesFit'
    <3>1. TypeOK'
      BY <1>1, <2>1 DEF TypeOK, peers
    <3>2. Functions'
      BY <1>1, <2>1 DEF Functions, network, peers
    <3>3. PhaseFits'
      BY <1>1, <2>1 DEF PhaseFits
    <3>4. CausesFit'
      BY <1>1, <2>1 DEF CausesFit, peers
    <3> QED
      BY <3>1, <3>2, <3>3, <3>4
  <2>3. \A d \in Directions : Untouched(d)
    BY <2>1 DEF Untouched, network, peers
  <2>4. crashed => crashed'
    BY <2>1
  <2> QED
    BY <1>1, <2>2, <2>3, <2>4, Kept DEF WInv
<1>3. CASE ConnectToServer
  <2>1. /\ phase = "connect" /\ phase' \in {"forward", "failed"}
        /\ \/ phase' = "forward" /\ fwd' = [d \in Directions |-> "header"]
           \/ fwd' = fwd
        /\ tapped' \in {tapped, [tapped EXCEPT !["server"] = TRUE]}
        /\ UNCHANGED <<header, frame, crashed, written, dumped, network, peers>>
    BY <1>3 DEF ConnectToServer
  <2>2. \A d \in Directions : fwd[d] = "none" /\ fwd'[d] \in {"none", "header"}
    BY <1>1, <2>1 DEF PhaseFits
  <2>3. fwd' \in [Directions -> {"none", "header", "payload", "dump", "write", "ended"}]
    BY <1>1, <2>1 DEF Functions
  <2>4. TypeOK'
    <3>1. tapped' \in [Ends -> BOOLEAN]
      BY <1>1, <2>1 DEF TypeOK
    <3> QED
      BY <1>1, <2>1, <2>3, <3>1 DEF TypeOK, peers
  <2>5. Functions'
    BY <1>1, <2>1, <2>3 DEF Functions, network, peers
  <2>6. PhaseFits'
    BY <1>1, <2>1 DEF PhaseFits
  <2>7. CausesFit'
    BY <1>1, <2>1, CausesKept DEF peers
  <2>8. ASSUME NEW d \in Directions
        PROVE  Counted(d)' /\ InFits(d)' /\ OutFits(d)'
    <3>1. fwd[d] = "none" /\ fwd'[d] \in {"none", "header"} /\ Counted(d) /\ InFits(d) /\ OutFits(d)
      BY <1>1, <2>2
    <3>2. Counted(d)'
      BY <2>1, <3>1 DEF Counted, peers
    <3>3. OutFits(d)'
      BY <2>1, <3>1, OutKept DEF network, peers
    <3>4. CASE crashed
      BY <2>1, <3>2, <3>3, <3>4 DEF InFits
    <3>5. CASE ~crashed
      <4>1. Laid(arriving[d], SentOctets(d), Taken(d), Len(sent[d]))
        BY <3>1, <3>5 DEF InFits, ArrivingFits
      <4>2. Taken(d)' = Taken(d) /\ SentOctets(d)' = SentOctets(d)
        BY <2>1, <3>1 DEF Taken, SentOctets, peers
      <4>3. ArrivingFits(d)'
        BY <2>1, <3>1, <4>1, <4>2 DEF ArrivingFits, network, peers
      <4>4. FrameFits(d)'
        BY <3>1 DEF FrameFits
      <4> QED
        BY <3>2, <3>3, <4>3, <4>4 DEF InFits
    <3> QED
      BY <3>4, <3>5
  <2> QED
    BY <2>4, <2>5, <2>6, <2>7, <2>8 DEF WInv
<1> QED
  BY <1>2, <1>3 DEF HandleConnection

(* The header goes from what arrives to the goroutine; together they stay.  *)
LEMMA ReadsHeader ==
  ASSUME WInv, NEW d \in Directions, ReadHeader(d)
  PROVE  WInv'
<1>1. /\ TypeOK /\ Functions /\ PhaseFits /\ CausesFit
      /\ Counted(d) /\ InFits(d) /\ OutFits(d)
  BY DEF WInv
<1>2. /\ fwd[d] = "header" /\ ~crashed
      /\ UNCHANGED <<phase, frame, crashed, written, dumped, leaving, peers>>
  BY DEF ReadHeader
<1>3. CASE Return(d) /\ UNCHANGED <<header, arriving>>
  <2>1. DOMAIN header' = Directions /\ DOMAIN frame' = Directions
    BY <1>1, <1>2, <1>3 DEF Functions
  <2>2. arriving' \in [Directions -> Seq(Octet)]
    BY <1>1, <1>3 DEF Functions
  <2> QED
    BY <1>2, <1>3, <2>1, <2>2, Returns
<1>4. CASE /\ HasArrived(d, HeaderSize)
           /\ header' = [header EXCEPT ![d] = DecodeHeader(SubSeq(arriving[d], 1, HeaderSize))]
           /\ arriving' = [arriving EXCEPT ![d] = BytesFrom(@, HeaderSize)]
           /\ fwd' = [fwd EXCEPT ![d] = "payload"]
           /\ UNCHANGED tapped
  <2> DEFINE q == arriving[d]
             front == SubSeq(q, 1, HeaderSize)
             rest == BytesFrom(q, HeaderSize)
             k == written[d]
             n == Len(sent[d])
  <2>1. q \in Seq(Octet) /\ Len(q) >= HeaderSize /\ k \in Nat /\ n \in Nat
    BY <1>1, <1>4 DEF Functions, HasArrived
  <2>2. front \in [1..HeaderSize -> Octet] /\ rest \in Seq(Octet) /\ front \o rest = q
    BY <2>1, HeaderTaken
  <2>3. /\ fwd'[d] = "payload" /\ header'[d] = DecodeHeader(front) /\ arriving'[d] = rest
        /\ \A e \in Directions : e # d =>
             fwd'[e] = fwd[e] /\ header'[e] = header[e] /\ arriving'[e] = arriving[e]
    BY <1>1, <1>4 DEF Functions
  <2> HIDE DEF q, front, rest
  <2>4. Laid(q, SentOctets(d), k, n)
    BY <1>1, <1>2 DEF InFits, ArrivingFits, Taken, Functions, q
  <2>5. k < n
    <3>1. k <= n
      BY <1>1, <2>1 DEF Counted, Functions
    <3>2. k # n
      BY <2>1, <2>4, LaidNothing DEF HeaderSize
    <3> QED
      BY <2>1, <3>1, <3>2
  <2>6. Functions'
    <3>1. fwd' \in [Directions -> {"none", "header", "payload", "dump", "write", "ended"}]
      BY <1>1, <1>4 DEF Functions
    <3>2. arriving' \in [Directions -> Seq(Octet)]
      BY <1>1, <1>4, <2>2 DEF Functions, q, rest
    <3>3. DOMAIN header' = Directions
      BY <1>1, <1>4 DEF Functions
    <3> QED
      BY <1>1, <1>2, <3>1, <3>2, <3>3 DEF Functions, peers
  <2>7. PhaseFits'
    BY <1>1, <1>2, <2>3 DEF PhaseFits
  <2>8. CausesFit'
    BY <1>1, <1>2, CausesKept DEF peers
  <2>9. \A e \in Directions : e # d => Untouched(e)
    BY <1>2, <2>3 DEF Untouched, peers
  <2>10. Counted(d)'
    <3>1. dumped[d] = k /\ k + 1 <= n
      BY <1>1, <1>2, <2>1, <2>5 DEF Counted
    <3>2. written'[d] = k /\ dumped'[d] = k /\ Len(sent'[d]) = n
      BY <1>2, <3>1 DEF peers
    <3> HIDE DEF k, n
    <3> QED
      BY <2>1, <2>3, <3>1, <3>2 DEF Counted
  <2>11. InFits(d)'
    <3>1. Taken(d)' = k /\ SentOctets(d)' = SentOctets(d) /\ Len(sent'[d]) = n
      BY <1>1, <1>2, <2>3 DEF Taken, SentOctets, peers, Functions
    <3>2. Laid(front \o arriving'[d], SentOctets(d)', Taken(d)', Len(sent'[d]))
      BY <2>2, <2>3, <2>4, <3>1
    <3>3. ArrivingFits(d)'
      BY <2>2, <2>3, <3>2 DEF ArrivingFits
    <3>4. FrameFits(d)'
      BY <2>3 DEF FrameFits
    <3> QED
      BY <3>3, <3>4 DEF InFits
  <2>12. OutFits(d)'
    BY <1>1, <1>2, OutKept DEF peers
  <2>13. tapped' \in [Ends -> BOOLEAN] /\ peer' \in [Ends -> BOOLEAN] /\ crashed' \in BOOLEAN
    BY <1>1, <1>2, <1>4 DEF TypeOK, peers
  <2> QED
    BY <1>2, <2>6, <2>7, <2>8, <2>9, <2>10, <2>11, <2>12, <2>13, OneDirection
<1> QED
  BY <1>3, <1>4 DEF ReadHeader

(* The frame in hand is the next one sent, since the octets were laid end   *)
(* to end (PayloadTaken).                                                   *)
LEMMA ReadsPayload ==
  ASSUME WInv, NEW d \in Directions, ReadPayload(d)
  PROVE  WInv'
<1> DEFINE length == header[d].length
           rest == arriving[d]
           k == written[d]
           n == Len(sent[d])
           f == Decode(header[d], SubSeq(rest, 1, length))
           P == SentOctets(d)
<1>1. /\ TypeOK /\ Functions /\ PhaseFits /\ CausesFit
      /\ Counted(d) /\ InFits(d) /\ OutFits(d)
  BY DEF WInv
<1>2. /\ fwd[d] = "payload" /\ ~crashed
      /\ header' = [header EXCEPT ![d] = NoFrame]
      /\ UNCHANGED <<phase, written, dumped, leaving, peers>>
  BY DEF ReadPayload
<1>3. /\ rest \in Seq(Octet) /\ k \in Nat /\ n \in Nat /\ sent[d] \in Seq(Samples[d])
      /\ DOMAIN header' = Directions /\ DOMAIN frame = Directions
      /\ \A e \in Directions : e # d => header'[e] = header[e]
  BY <1>1, <1>2 DEF Functions
<1>4. CASE Return(d) /\ UNCHANGED <<arriving, frame, crashed>>
  <2>1. arriving' \in [Directions -> Seq(Octet)]
    BY <1>1, <1>4 DEF Functions
  <2> QED
    BY <1>2, <1>3, <1>4, <2>1, Returns
<1>5. PICK front \in [1..HeaderSize -> Octet] :
        header[d] = DecodeHeader(front) /\ Laid(front \o rest, P, k, n)
  <2>1. ArrivingFits(d) /\ Taken(d) = written[d]
    BY <1>1, <1>2, <1>3 DEF InFits, Taken
  <2> QED
    BY <1>2, <2>1 DEF ArrivingFits
<1>6. k + 1 <= n
  BY <1>1, <1>2 DEF Counted
<1>7. P[k + 1] = sent[d][k + 1].octets /\ IsFrame(P[k + 1]) /\ Meaning(P[k + 1]) = Means(d, k + 1)
  <2>1. k + 1 \in 1..n
    BY <1>3, <1>6
  <2>2. sent[d][k + 1] \in Samples[d]
    BY <1>3, <2>1, ElementsOf
  <2>3. IsFrame(sent[d][k + 1].octets)
    BY <2>2, SamplesAssumption
  <2>4. P[k + 1] = sent[d][k + 1].octets
    BY <2>1 DEF SentOctets
  <2> QED
    BY <2>3, <2>4 DEF Means
<1> HIDE DEF k, n, P
<1>8. /\ f = Means(d, k + 1) /\ BytesFrom(rest, length) \in Seq(Octet)
      /\ Laid(BytesFrom(rest, length), P, k + 1, n)
  BY <1>3, <1>5, <1>6, <1>7, PayloadTaken
<1>9. f \in {Error, Panic} \cup Frames
  BY <1>7, <1>8, MeaningOfFrame
<1>10. ASSUME arriving' = [arriving EXCEPT ![d] = BytesFrom(@, length)]
       PROVE  /\ arriving' \in [Directions -> Seq(Octet)] /\ arriving'[d] = BytesFrom(rest, length)
              /\ \A e \in Directions : e # d => arriving'[e] = arriving[e]
  BY <1>1, <1>8, <1>10 DEF Functions
<1> DEFINE Received == HasArrived(d, length) /\ arriving' = [arriving EXCEPT ![d] = BytesFrom(@, length)]
<1>11. CASE Received /\ f = Error /\ Return(d) /\ UNCHANGED <<frame, crashed>>
  BY <1>2, <1>3, <1>10, <1>11, Returns
<1>12. CASE Received /\ f = Panic /\ crashed' = TRUE /\ UNCHANGED <<fwd, frame, tapped>>
  <2>1. Functions'
    BY <1>1, <1>2, <1>3, <1>10, <1>12 DEF Functions, peers
  <2>2. PhaseFits'
    BY <1>1, <1>2, <1>12 DEF PhaseFits
  <2>3. CausesFit'
    BY <1>1, <1>2, CausesKept DEF peers
  <2>4. \A e \in Directions : e # d => Untouched(e)
    BY <1>2, <1>3, <1>10, <1>12 DEF Untouched, peers
  <2>5. Counted(d)'
    BY <1>1, <1>2, <1>12 DEF Counted, peers
  <2>6. InFits(d)'
    BY <1>12 DEF InFits
  <2>7. OutFits(d)'
    BY <1>1, <1>2, OutKept DEF peers
  <2>8. /\ tapped' \in [Ends -> BOOLEAN] /\ peer' \in [Ends -> BOOLEAN] /\ crashed' \in BOOLEAN
        /\ crashed => crashed'
    BY <1>1, <1>2, <1>12 DEF TypeOK, peers
  <2> QED
    BY <1>2, <2>1, <2>2, <2>3, <2>4, <2>5, <2>6, <2>7, <2>8, OneDirection
<1>13. CASE /\ Received /\ f \notin {Error, Panic}
            /\ frame' = [frame EXCEPT ![d] = FixAuthorityHeader(f, Authority[d])]
            /\ fwd' = [fwd EXCEPT ![d] = "dump"]
            /\ UNCHANGED <<tapped, crashed>>
  <2>1. /\ fwd'[d] = "dump" /\ frame'[d] = FixAuthorityHeader(f, Authority[d])
        /\ \A e \in Directions : e # d => fwd'[e] = fwd[e] /\ frame'[e] = frame[e]
        /\ DOMAIN frame' = Directions
        /\ fwd' \in [Directions -> {"none", "header", "payload", "dump", "write", "ended"}]
    BY <1>1, <1>3, <1>13 DEF Functions
  <2>2. Functions'
    BY <1>1, <1>2, <1>3, <1>10, <1>13, <2>1 DEF Functions, peers
  <2>3. PhaseFits'
    BY <1>1, <1>2, <2>1 DEF PhaseFits
  <2>4. CausesFit'
    BY <1>1, <1>2, CausesKept DEF peers
  <2>5. \A e \in Directions : e # d => Untouched(e)
    BY <1>2, <1>3, <1>10, <1>13, <2>1 DEF Untouched, peers
  <2>6. Counted(d)'
    BY <1>1, <1>2, <2>1 DEF Counted, peers
  <2>7. InFits(d)'
    <3>1. Taken(d)' = k + 1 /\ SentOctets(d)' = P /\ Len(sent'[d]) = n
      BY <1>2, <2>1 DEF Taken, SentOctets, peers, k, n, P
    <3>2. ArrivingFits(d)'
      BY <1>8, <1>10, <1>13, <2>1, <3>1 DEF ArrivingFits
    <3>3. written'[d] = k /\ sent' = sent
      BY <1>2 DEF peers, k
    <3>4. Means(d, k + 1) \in Frames /\ frame'[d] = Forwarded(d, k + 1)
      BY <1>8, <1>9, <1>13, <2>1 DEF Forwarded
    <3>5. FrameFits(d)'
      BY <3>3, <3>4 DEF FrameFits, Means, Forwarded
    <3> QED
      BY <3>2, <3>5 DEF InFits
  <2>8. OutFits(d)'
    BY <1>1, <1>2, OutKept DEF peers
  <2>9. tapped' \in [Ends -> BOOLEAN] /\ peer' \in [Ends -> BOOLEAN] /\ crashed' \in BOOLEAN
    BY <1>1, <1>2, <1>13 DEF TypeOK, peers
  <2> QED
    BY <1>2, <1>13, <2>2, <2>3, <2>4, <2>5, <2>6, <2>7, <2>8, <2>9, OneDirection
<1>14. \/ Return(d) /\ UNCHANGED <<arriving, frame, crashed>>
       \/ /\ Received
          /\ \/ f = Panic /\ crashed' = TRUE /\ UNCHANGED <<fwd, frame, tapped>>
             \/ f = Error /\ Return(d) /\ UNCHANGED <<frame, crashed>>
             \/ /\ f \notin {Error, Panic}
                /\ frame' = [frame EXCEPT ![d] = FixAuthorityHeader(f, Authority[d])]
                /\ fwd' = [fwd EXCEPT ![d] = "dump"]
                /\ UNCHANGED <<tapped, crashed>>
  BY DEF ReadPayload
<1> QED
  BY <1>4, <1>11, <1>12, <1>13, <1>14

LEMMA DumpsFrame ==
  ASSUME WInv, NEW d \in Directions, DumpFrame(d)
  PROVE  WInv'
<1>1. /\ TypeOK /\ Functions /\ PhaseFits /\ CausesFit
      /\ Counted(d) /\ InFits(d) /\ OutFits(d)
  BY DEF WInv
<1>2. /\ fwd[d] = "dump" /\ ~crashed
      /\ fwd' = [fwd EXCEPT ![d] = "write"]
      /\ dumped' = [dumped EXCEPT ![d] = @ + 1]
      /\ UNCHANGED <<phase, header, frame, tapped, crashed, written, network, peers>>
  BY DEF DumpFrame
<1>3. /\ fwd'[d] = "write" /\ dumped'[d] = dumped[d] + 1
      /\ \A e \in Directions : e # d => fwd'[e] = fwd[e] /\ dumped'[e] = dumped[e]
      /\ fwd' \in [Directions -> {"none", "header", "payload", "dump", "write", "ended"}]
      /\ dumped' \in [Directions -> Nat]
  BY <1>1, <1>2 DEF Functions
<1>4. Functions'
  BY <1>1, <1>2, <1>3 DEF Functions, network, peers
<1>5. PhaseFits'
  BY <1>1, <1>2, <1>3 DEF PhaseFits
<1>6. CausesFit'
  BY <1>1, <1>2, CausesKept DEF peers
<1>7. \A e \in Directions : e # d => Untouched(e)
  BY <1>2, <1>3 DEF Untouched, network, peers
<1>8. Counted(d)'
  <2>1. /\ dumped[d] = written[d] /\ written[d] + 1 <= Len(sent[d])
        /\ written[d] \in Nat /\ Len(sent[d]) \in Nat
    BY <1>1, <1>2 DEF Counted, Functions
  <2>2. written'[d] = written[d] /\ sent'[d] = sent[d] /\ dumped'[d] = written[d] + 1
    BY <1>2, <1>3, <2>1 DEF peers
  <2> QED
    BY <1>3, <2>1, <2>2 DEF Counted
<1>9. InFits(d)'
  <2>1. ArrivingFits(d) /\ FrameFits(d)
    BY <1>1, <1>2 DEF InFits
  <2>2. Taken(d)' = Taken(d) /\ SentOctets(d)' = SentOctets(d) /\ arriving' = arriving /\ sent' = sent
    BY <1>2, <1>3 DEF Taken, SentOctets, network, peers
  <2>3. ArrivingFits(d)'
    BY <1>2, <1>3, <2>1, <2>2 DEF ArrivingFits
  <2>4. FrameFits(d)'
    BY <1>2, <1>3, <2>1, <2>2 DEF FrameFits, Means, Forwarded
  <2> QED
    BY <2>3, <2>4 DEF InFits
<1>10. OutFits(d)'
  BY <1>1, <1>2, OutKept DEF network, peers
<1>11. tapped' \in [Ends -> BOOLEAN] /\ peer' \in [Ends -> BOOLEAN] /\ crashed' \in BOOLEAN
  BY <1>1, <1>2 DEF TypeOK, peers
<1> QED
  BY <1>2, <1>4, <1>5, <1>6, <1>7, <1>8, <1>9, <1>10, <1>11, OneDirection

(* One more piece is laid behind those on their way (LaidLast), of a frame  *)
(* with a header or without one (RoundTrip).                                *)
LEMMA WritesFrame ==
  ASSUME WInv, NEW d \in Directions, WriteFrame(d)
  PROVE  WInv'
<1>1. /\ TypeOK /\ Functions /\ PhaseFits /\ CausesFit
      /\ Counted(d) /\ InFits(d) /\ OutFits(d)
  BY DEF WInv
<1>2. /\ fwd[d] = "write" /\ ~crashed
      /\ frame' = [frame EXCEPT ![d] = NoFrame]
      /\ UNCHANGED <<phase, header, crashed, dumped, arriving, peers>>
  BY DEF WriteFrame
<1>3. /\ DOMAIN frame' = Directions /\ DOMAIN header' = Directions
      /\ \A e \in Directions : e # d => frame'[e] = frame[e]
      /\ arriving' \in [Directions -> Seq(Octet)]
  BY <1>1, <1>2 DEF Functions
<1>4. CASE Return(d) /\ UNCHANGED <<leaving, written>>
  BY <1>2, <1>3, <1>4, Returns
<1>5. ASSUME NEW octets \in Encodings(frame[d]), leaving' = [leaving EXCEPT ![d] = @ \o octets],
             written' = [written EXCEPT ![d] = @ + 1], fwd' = [fwd EXCEPT ![d] = "header"],
             UNCHANGED tapped
      PROVE  WInv'
  <2> DEFINE k == written[d]
             n == Len(sent[d])
  <2>1. /\ fwd'[d] = "header" /\ written'[d] = k + 1 /\ leaving'[d] = leaving[d] \o octets
        /\ k \in Nat /\ n \in Nat
        /\ \A e \in Directions : e # d =>
             fwd'[e] = fwd[e] /\ written'[e] = written[e] /\ leaving'[e] = leaving[e]
        /\ fwd' \in [Directions -> {"none", "header", "payload", "dump", "write", "ended"}]
        /\ written' \in [Directions -> Nat] /\ DOMAIN leaving' = Directions
    BY <1>1, <1>5 DEF Functions
  <2>2. Functions'
    BY <1>1, <1>2, <1>3, <2>1 DEF Functions, peers
  <2>3. PhaseFits'
    BY <1>1, <1>2, <2>1 DEF PhaseFits
  <2>4. CausesFit'
    BY <1>1, <1>2, CausesKept DEF peers
  <2>5. \A e \in Directions : e # d => Untouched(e)
    BY <1>2, <1>3, <2>1 DEF Untouched, peers
  <2>6. Counted(d)'
    <3>1. dumped[d] = k + 1 /\ k + 1 <= n
      BY <1>1, <1>2 DEF Counted
    <3>2. dumped'[d] = k + 1 /\ Len(sent'[d]) = n
      BY <1>2, <3>1 DEF peers
    <3> HIDE DEF k, n
    <3> QED
      BY <2>1, <3>1, <3>2 DEF Counted
  <2>7. ArrivingFits(d) /\ FrameFits(d) /\ Means(d, k + 1) \in Frames /\ frame[d] = Forwarded(d, k + 1)
    BY <1>1, <1>2 DEF InFits, FrameFits
  <2>8. InFits(d)'
    <3>1. Taken(d) = k + 1 /\ Taken(d)' = k + 1 /\ SentOctets(d)' = SentOctets(d) /\ Len(sent'[d]) = n
      BY <1>2, <2>1 DEF Taken, SentOctets, peers
    <3>2. Laid(arriving[d], SentOctets(d), k + 1, n)
      BY <1>2, <2>7, <3>1 DEF ArrivingFits
    <3>3. ArrivingFits(d)'
      BY <1>2, <2>1, <3>1, <3>2 DEF ArrivingFits
    <3>4. FrameFits(d)'
      BY <2>1 DEF FrameFits
    <3> QED
      BY <3>3, <3>4 DEF InFits
  <2>9. OutFits(d)'
    <3>1. \A i : Means(d, i)' = Means(d, i) /\ Forwarded(d, i)' = Forwarded(d, i)
      BY <1>2 DEF Means, Forwarded, peers
    <3>2. got' = got /\ \A i : AsExpected(d, i)' <=> AsExpected(d, i)
      BY <1>2, <3>1 DEF AsExpected, peers
    <3>3. \A i \in 1..(k + 1) : Means(d, i) \in Frames
      <4>1. \A i \in 1..k : Means(d, i) \in Frames
        BY <1>1 DEF OutFits
      <4> HIDE DEF k
      <4> QED
        BY <2>1, <2>7, <4>1
    <3>4. octets \in Seq(Octet)
      <4>1. Forwarded(d, k + 1) \in Frames
        BY <2>7, Fixed DEF Forwarded
      <4> QED
        BY <1>5, <2>7, <4>1, RoundTrip
    <3>5. ASSUME Reading(d)
          PROVE  Reading(d)'
      <4> DEFINE m == Len(got[d])
      <4>1. PICK pieces \in Writings(d) : Laid(leaving[d], pieces, m, k)
        BY <3>5 DEF Reading
      <4>2. m <= k /\ m \in Nat /\ AsExpected(d, m) /\ leaving[d] \in Seq(Octet)
        BY <1>1, <3>5 DEF Reading, Functions, IsSeq
      <4> DEFINE more == [i \in 1..(k + 1) |-> IF i = k + 1 THEN octets ELSE pieces[i]]
      <4>3. /\ pieces \in [1..k -> Seq(Octet)]
            /\ \A i \in 1..k : pieces[i] \in Encodings(Forwarded(d, i))
        BY <4>1 DEF Writings
      <4> HIDE DEF k, m
      <4>4. more[k + 1] = octets /\ \A i \in 1..k : more[i] = pieces[i]
        BY <2>1
      <4>5. more \in [1..(k + 1) -> Seq(Octet)]
        BY <2>1, <3>4, <4>3
      <4> HIDE DEF more
      <4>6. \A i \in 1..(k + 1) : more[i] \in Encodings(Forwarded(d, i))
        BY <1>5, <2>1, <2>7, <4>3, <4>4
      <4>7. more \in Writings(d)'
        BY <2>1, <3>1, <4>5, <4>6 DEF Writings
      <4>8. leaving[d] \o octets \in Seq(Octet) /\ Laid(leaving[d] \o octets, more, m, k + 1)
        <5>1. \A i \in (m + 1)..k : more[i] = pieces[i]
          BY <2>1, <4>2, <4>4
        <5> QED
          BY <2>1, <3>4, <4>1, <4>2, <4>4, <5>1, LaidLast
      <4>9. m <= k + 1
        BY <2>1, <4>2
      <4> QED
        BY <2>1, <3>2, <4>2, <4>7, <4>8, <4>9 DEF Reading, m
    <3>6. ASSUME OutOfStep(d)
          PROVE  OutOfStep(d)'
      <4>1. PICK i \in 1..Len(got[d]) :
              i <= k /\ Means(d, i).type \in Headerless /\ AsExpected(d, i - 1)
        BY <3>6 DEF OutOfStep
      <4> HIDE DEF k
      <4>2. i <= k + 1
        BY <1>1, <2>1, <4>1 DEF Functions, IsSeq
      <4> QED
        BY <2>1, <3>1, <3>2, <4>1, <4>2 DEF OutOfStep
    <3> QED
      BY <1>1, <2>1, <3>1, <3>3, <3>5, <3>6 DEF OutFits
  <2>10. tapped' \in [Ends -> BOOLEAN] /\ peer' \in [Ends -> BOOLEAN] /\ crashed' \in BOOLEAN
    BY <1>1, <1>2, <1>5 DEF TypeOK, peers
  <2> QED
    BY <1>2, <2>2, <2>3, <2>4, <2>5, <2>6, <2>8, <2>9, <2>10, OneDirection
<1> QED
  BY <1>4, <1>5 DEF WriteFrame

--------------------------------------------------------------------------------
(* The steps of the client and the server                                   *)

(* One more piece is laid behind those that arrive.                         *)
LEMMA Sends ==
  ASSUME WInv, NEW d \in Directions, PeerSends(d)
  PROVE  WInv'
<1> DEFINE k == written[d]
           n == Len(sent[d])
<1>1. /\ TypeOK /\ Functions /\ PhaseFits /\ CausesFit
      /\ Counted(d) /\ InFits(d) /\ OutFits(d)
  BY DEF WInv
<1>2. PICK s \in Samples[d] :
        /\ arriving' = [arriving EXCEPT ![d] = @ \o s.octets]
        /\ sent' = [sent EXCEPT ![d] = Append(@, s)]
  BY DEF PeerSends
<1>3. /\ cause' = IF d = "in" THEN Append(cause, Len(got["out"])) ELSE cause
      /\ UNCHANGED <<tap, leaving, peer, got>>
  BY DEF PeerSends
<1>4. s.octets \in Seq(Octet)
  BY SamplesAssumption DEF IsFrame
<1>5. /\ k \in Nat /\ n \in Nat /\ sent[d] \in Seq(Samples[d]) /\ arriving[d] \in Seq(Octet)
      /\ sent'[d] = Append(sent[d], s) /\ arriving'[d] = arriving[d] \o s.octets
      /\ \A e \in Directions : e # d => sent'[e] = sent[e] /\ arriving'[e] = arriving[e]
      /\ DOMAIN sent' = Directions /\ DOMAIN arriving' = Directions
  BY <1>1, <1>2 DEF Functions
<1>6. /\ sent'[d] \in Seq(Samples[d]) /\ Len(sent'[d]) = n + 1 /\ sent'[d][n + 1] = s
      /\ \A i \in 1..n : sent'[d][i] = sent[d][i]
  <2>1. IsAppended(sent'[d], sent[d], s, n)
    BY <1>5 DEF IsAppended
  <2>2. sent'[d] \in Seq(Samples[d]) /\ Longer(sent'[d], sent[d], s, n)
    BY <1>5, <2>1, AppendedTo
  <2> QED
    BY <2>2, Zenon DEF Longer
<1>7. arriving[d] \o s.octets \in Seq(Octet)
  BY <1>4, <1>5
<1>8. Functions'
  <2>1. arriving' \in [Directions -> Seq(Octet)]
    <3>1. \A e \in Directions : arriving'[e] \in Seq(Octet)
      BY <1>1, <1>5, <1>7 DEF Functions
    <3> QED
      BY <1>2, <1>5, <3>1
  <2>2. \A e \in Directions : sent'[e] \in Seq(Samples[e]) /\ IsSeq(got'[e])
    BY <1>1, <1>3, <1>5, <1>6 DEF Functions
  <2> QED
    BY <1>1, <1>3, <1>5, <2>1, <2>2 DEF Functions, tap
<1>9. PhaseFits'
  BY <1>1, <1>3 DEF PhaseFits, tap
<1>10. CausesFit'
  <2>1. CASE d # "in"
    <3>1. cause' = cause /\ sent'["in"] = sent["in"] /\ got'["out"] = got["out"]
      BY <1>3, <1>5, <2>1 DEF Directions
    <3> QED
      BY <1>1, <3>1, CausesKept
  <2>2. CASE d = "in"
    <3> DEFINE g == Len(got["out"])
               c == Len(cause)
    <3>1. g \in Nat /\ c = n /\ IsSeq(cause) /\ \A i \in 1..c : cause[i] \in Nat /\ cause[i] <= g
      BY <1>1, <2>2 DEF Functions, CausesFit, IsSeq, Directions
    <3>2. cause' = Append(cause, g)
      BY <1>3, <2>2
    <3> HIDE DEF g, c, n
    <3>3. /\ IsSeq(cause') /\ Len(cause') = c + 1 /\ cause'[c + 1] = g
          /\ \A i \in 1..c : cause'[i] = cause[i]
      <4>1. IsAppended(cause', cause, g, c)
        BY <3>2 DEF IsAppended, c
      <4>2. IsSeq(cause') /\ Longer(cause', cause, g, c)
        BY <3>1, <4>1, Appended
      <4> QED
        BY <4>2, Zenon DEF Longer
    <3>4. \A i \in 1..Len(cause') : cause'[i] \in Nat /\ cause'[i] <= g
      BY <1>5, <3>1, <3>3
    <3>5. Len(cause') = Len(sent'["in"]) /\ Len(got'["out"]) = g
      BY <1>3, <1>6, <2>2, <3>1, <3>3 DEF g
    <3> QED
      BY <3>3, <3>4, <3>5 DEF CausesFit
  <2> QED
    BY <2>1, <2>2
<1>11. \A e \in Directions : e # d => Untouched(e)
  BY <1>3, <1>5 DEF Untouched, tap
<1>12. k <= n
  BY <1>1, <1>5 DEF Counted, Functions
<1>13. Counted(d)'
  <2>1. /\ fwd'[d] = fwd[d] /\ written'[d] = k /\ dumped'[d] = dumped[d] /\ dumped[d] \in Nat
        /\ Len(sent'[d]) = n + 1
    BY <1>1, <1>3, <1>6 DEF tap, Functions
  <2>2. /\ k <= dumped[d] /\ dumped[d] <= n
        /\ fwd[d] \notin {"write", "ended"} => dumped[d] = k
        /\ fwd[d] = "write" => dumped[d] = k + 1
        /\ fwd[d] \in {"payload", "dump", "write"} => k + 1 <= n
    BY <1>1 DEF Counted
  <2> HIDE DEF k, n
  <2>3. dumped[d] <= n + 1 /\ (k + 1 <= n => k + 1 <= n + 1)
    BY <1>5, <2>1, <2>2
  <2> QED
    BY <2>1, <2>2, <2>3 DEF Counted
<1>14. \A i \in 1..n : Means(d, i)' = Means(d, i) /\ Forwarded(d, i)' = Forwarded(d, i)
  BY <1>6 DEF Means, Forwarded
<1>15. InFits(d)'
  <2>1. CASE crashed \/ fwd[d] = "ended"
    BY <1>3, <2>1 DEF InFits, tap
  <2>2. CASE ~crashed /\ fwd[d] # "ended"
    <3> DEFINE t == Taken(d)
               P == SentOctets(d)
               R == SentOctets(d)'
    <3>1. ArrivingFits(d) /\ FrameFits(d)
      BY <1>1, <2>2 DEF InFits
    <3>2. fwd'[d] = fwd[d] /\ header'[d] = header[d] /\ frame'[d] = frame[d] /\ written'[d] = k
      BY <1>3 DEF tap
    <3>3. t \in Nat /\ t <= n /\ Taken(d)' = t
      BY <1>1, <1>5, <1>12, <3>2 DEF Taken, Counted
    <3>4. R[n + 1] = s.octets /\ \A i \in 1..n : R[i] = P[i]
      <4>1. \A i \in 1..(n + 1) : R[i] = sent'[d][i].octets
        BY <1>6 DEF SentOctets
      <4>2. \A i \in 1..n : P[i] = sent[d][i].octets
        BY DEF SentOctets
      <4>3. n + 1 \in 1..(n + 1) /\ \A i \in 1..n : i \in 1..(n + 1)
        BY <1>5
      <4> QED
        BY <1>6, <4>1, <4>2, <4>3
    <3> HIDE DEF t, P, R
    <3>5. \A i \in (t + 1)..n : R[i] = P[i]
      BY <1>5, <3>3, <3>4
    <3>6. ASSUME NEW q \in Seq(Octet), Laid(q, P, t, n)
          PROVE  Laid(q \o s.octets, R, t, n + 1)
      <4> HIDE DEF n
      <4> QED
        BY <1>4, <1>5, <3>3, <3>4, <3>5, <3>6, LaidLast
    <3>7. ArrivingFits(d)'
      <4>1. CASE fwd[d] = "payload"
        <5>1. PICK front \in [1..HeaderSize -> Octet] :
                header[d] = DecodeHeader(front) /\ Laid(front \o arriving[d], P, t, n)
          BY <3>1, <4>1 DEF ArrivingFits, P, t
        <5>2. front \in Seq(Octet)
          BY IsSequence DEF HeaderSize
        <5>3. front \o arriving[d] \in Seq(Octet)
          BY <1>5, <5>2
        <5>4. Laid((front \o arriving[d]) \o s.octets, R, t, n + 1)
          BY <3>6, <5>1, <5>3
        <5>5. (front \o arriving[d]) \o s.octets = front \o arriving'[d]
          <6> DEFINE a == arriving[d]
                     o == s.octets
          <6>1. a \in Seq(Octet) /\ o \in Seq(Octet) /\ arriving'[d] = a \o o
            BY <1>4, <1>5
          <6> HIDE DEF a, o
          <6>2. (front \o a) \o o = front \o (a \o o)
            BY <5>2, <6>1, JoinedTwice
          <6> QED
            BY <6>1, <6>2 DEF a, o
        <5> QED
          BY <1>6, <3>2, <3>3, <4>1, <5>1, <5>4, <5>5 DEF ArrivingFits, R
      <4>2. CASE fwd[d] # "payload"
        <5>1. Laid(arriving[d], P, t, n)
          BY <3>1, <4>2 DEF ArrivingFits, P, t
        <5>2. Laid(arriving'[d], R, t, n + 1)
          BY <1>5, <3>6, <5>1
        <5> QED
          BY <1>6, <3>2, <3>3, <4>2, <5>2 DEF ArrivingFits, R
      <4> QED
        BY <4>1, <4>2
    <3>8. FrameFits(d)'
      <4>1. CASE fwd[d] \in {"dump", "write"}
        <5>1. k + 1 \in 1..n
          BY <1>1, <1>5, <4>1 DEF Counted
        <5>2. sent'[d][k + 1] = sent[d][k + 1]
          BY <1>6, <5>1
        <5>3. Means(d, k + 1) \in Frames /\ frame[d] = Forwarded(d, k + 1)
          BY <3>1, <4>1 DEF FrameFits
        <5> QED
          BY <3>2, <5>2, <5>3 DEF FrameFits, Means, Forwarded
      <4>2. CASE fwd[d] \notin {"dump", "write"}
        BY <3>2, <4>2 DEF FrameFits
      <4> QED
        BY <4>1, <4>2
    <3> QED
      BY <3>7, <3>8 DEF InFits
  <2> QED
    BY <2>1, <2>2
<1>16. OutFits(d)'
  <2>1. written'[d] = k /\ leaving'[d] = leaving[d] /\ got' = got
    BY <1>3 DEF tap
  <2>2. \A i \in 1..k : i \in 1..n
    BY <1>5, <1>12
  <2>3. \A m \in 0..k : AsExpected(d, m) => AsExpected(d, m)'
    <3> SUFFICES ASSUME NEW m \in 0..k, AsExpected(d, m)
                 PROVE  AsExpected(d, m)'
      OBVIOUS
    <3>1. \A i \in 1..m : i \in 1..n
      BY <1>5, <1>12
    <3> QED
      BY <1>14, <2>1, <3>1 DEF AsExpected
  <2>4. Writings(d)' = Writings(d)
    BY <1>14, <2>1, <2>2 DEF Writings
  <2>5. ASSUME Reading(d)
        PROVE  Reading(d)'
    <3>1. Len(got[d]) \in 0..k
      BY <1>1, <1>5, <2>5 DEF Reading, Functions, IsSeq
    <3> QED
      BY <2>1, <2>3, <2>4, <2>5, <3>1 DEF Reading
  <2>6. ASSUME OutOfStep(d)
        PROVE  OutOfStep(d)'
    <3>1. PICK i \in 1..Len(got[d]) :
            i <= k /\ Means(d, i).type \in Headerless /\ AsExpected(d, i - 1)
      BY <2>6 DEF OutOfStep
    <3>2. i \in 1..k /\ i - 1 \in 0..k
      BY <1>1, <1>5, <3>1 DEF Functions, IsSeq
    <3>3. Means(d, i)' = Means(d, i) /\ AsExpected(d, i - 1)'
      BY <1>14, <2>2, <2>3, <3>1, <3>2
    <3> QED
      BY <2>1, <3>1, <3>3 DEF OutOfStep
  <2> QED
    BY <1>1, <1>14, <2>1, <2>2, <2>5, <2>6 DEF OutFits
<1>17. /\ phase' = phase /\ tapped' \in [Ends -> BOOLEAN] /\ peer' \in [Ends -> BOOLEAN]
       /\ crashed' \in BOOLEAN /\ (crashed => crashed')
  BY <1>1, <1>3 DEF TypeOK, tap
<1> QED
  BY <1>8, <1>9, <1>10, <1>11, <1>13, <1>15, <1>16, <1>17, OneDirection

(* The receiver in step reads the next frame as it was written (FrameRead), *)
(* or it reads one without a header and is out of step.                     *)
LEMMA Reads ==
  ASSUME WInv, NEW d \in Directions, PeerReads(d)
  PROVE  WInv'
<1> DEFINE q == leaving[d]
           size == HeaderSize + FirstHeader(q).length
           f == Decode(FirstHeader(q), SubSeq(q, HeaderSize + 1, size))
<1>1. /\ TypeOK /\ Functions /\ PhaseFits /\ CausesFit
      /\ Counted(d) /\ InFits(d) /\ OutFits(d)
  BY DEF WInv
<1>2. /\ Len(q) >= HeaderSize
      /\ leaving' = [leaving EXCEPT ![d] = BytesFrom(@, size)]
      /\ got' = [got EXCEPT ![d] = Append(@, f)]
      /\ UNCHANGED <<tap, arriving, peer, sent, cause>>
  BY DEF PeerReads
<1> PICK m \in Nat, k \in Nat : m = Len(got[d]) /\ k = written[d]
  BY <1>1 DEF Functions, IsSeq
<1>3. /\ IsSeq(got[d])
      /\ got'[d] = Append(got[d], f) /\ leaving'[d] = BytesFrom(q, size)
      /\ \A e \in Directions : e # d => got'[e] = got[e] /\ leaving'[e] = leaving[e]
      /\ DOMAIN got' = Directions /\ DOMAIN leaving' = Directions
  BY <1>1, <1>2 DEF Functions, IsSeq
<1> HIDE DEF f, size
<1>4. /\ IsSeq(got'[d]) /\ Len(got'[d]) = m + 1 /\ got'[d][m + 1] = f
      /\ \A i \in 1..m : got'[d][i] = got[d][i]
  <2>1. IsAppended(got'[d], got[d], f, m)
    BY <1>3 DEF IsAppended
  <2>2. IsSeq(got'[d]) /\ Longer(got'[d], got[d], f, m)
    BY <1>3, <2>1, Appended
  <2> QED
    BY <2>2, Zenon DEF Longer
<1>5. Functions'
  BY <1>1, <1>2, <1>3, <1>4 DEF Functions, tap
<1>6. PhaseFits'
  BY <1>1, <1>2 DEF PhaseFits, tap
<1>7. CausesFit'
  <2>1. Len(got["out"]) \in Nat /\ Len(got'["out"]) \in Nat /\ Len(got["out"]) <= Len(got'["out"])
    <3>1. CASE d = "out"
      BY <1>3, <1>4, <3>1
    <3>2. CASE d # "out"
      BY <1>1, <1>3, <3>2 DEF Functions, IsSeq, Directions
    <3> QED
      BY <3>1, <3>2
  <2>2. /\ IsSeq(cause) /\ Len(cause) = Len(sent["in"])
        /\ \A i \in 1..Len(cause) : cause[i] \in Nat /\ cause[i] <= Len(got["out"])
    BY <1>1 DEF CausesFit
  <2>3. cause' = cause /\ sent' = sent
    BY <1>2
  <2>4. \A i \in 1..Len(cause) : cause[i] \in Nat /\ cause[i] <= Len(got'["out"])
    BY <2>1, <2>2
  <2> QED
    BY <2>2, <2>3, <2>4 DEF CausesFit
<1>8. \A e \in Directions : e # d => Untouched(e)
  BY <1>2, <1>3 DEF Untouched, tap
<1>9. Counted(d)'
  BY <1>1, <1>2 DEF Counted, tap
<1>10. InFits(d)'
  BY <1>1, <1>2, InKept DEF tap
<1>11. OutFits(d)'
  <2>1. \A i : Means(d, i)' = Means(d, i) /\ Forwarded(d, i)' = Forwarded(d, i)
    BY <1>2 DEF Means, Forwarded
  <2>2. written'[d] = k
    BY <1>2 DEF tap
  <2>3. Writings(d)' = Writings(d)
    BY <2>1, <2>2 DEF Writings
  <2>4. \A n \in 0..m : AsExpected(d, n) => AsExpected(d, n)'
    <3> SUFFICES ASSUME NEW n \in 0..m, AsExpected(d, n)
                 PROVE  AsExpected(d, n)'
      OBVIOUS
    <3>1. \A i \in 1..n : i \in 1..m
      BY <1>3
    <3> QED
      BY <1>4, <2>1, <3>1 DEF AsExpected
  <2>5. ASSUME OutOfStep(d)
        PROVE  OutOfStep(d)'
    <3>1. PICK i \in 1..m :
            i <= k /\ Means(d, i).type \in Headerless /\ AsExpected(d, i - 1)
      BY <2>5 DEF OutOfStep
    <3>2. i - 1 \in 0..m /\ i \in 1..(m + 1)
      BY <1>3, <3>1
    <3> QED
      BY <1>4, <2>1, <2>2, <2>4, <3>1, <3>2 DEF OutOfStep
  <2>6. ASSUME Reading(d)
        PROVE  Reading(d)' \/ OutOfStep(d)'
    <3>1. PICK pieces \in Writings(d) : Laid(q, pieces, m, k)
      BY <2>6 DEF Reading
    <3>2. m <= k /\ AsExpected(d, m) /\ q \in Seq(Octet)
      BY <2>6 DEF Reading
    <3> HIDE DEF q
    <3>3. m < k
      <4>1. m # k
        BY <1>2, <3>1, <3>2, LaidNothing DEF HeaderSize
      <4> QED
        BY <1>3, <3>2, <4>1
    <3>4. AsExpected(d, m)'
      BY <1>3, <2>4, <3>2
    <3>5. CASE Means(d, m + 1).type \in Headerless
      <4>1. m + 1 \in 1..Len(got'[d]) /\ m + 1 <= k /\ (m + 1) - 1 = m
        BY <1>3, <1>4, <3>3
      <4> QED
        BY <2>1, <2>2, <3>4, <3>5, <4>1 DEF OutOfStep
    <3>6. CASE Means(d, m + 1).type \notin Headerless
      <4> DEFINE g == Forwarded(d, m + 1)
      <4>1. m + 1 \in 1..k
        BY <1>3, <3>3
      <4>2. Means(d, m + 1) \in Frames
        BY <1>1, <4>1 DEF OutFits
      <4>3. g \in Frames /\ g.type = Means(d, m + 1).type /\ Reread(g) = Expected(d, Means(d, m + 1))
        BY <4>2, Fixed DEF Forwarded
      <4>4. pieces[m + 1] \in Encodings(g)
        BY <4>1 DEF Writings
      <4> HIDE DEF g
      <4>5. Says(pieces[m + 1], Expected(d, Means(d, m + 1)))
        BY <3>6, <4>3, <4>4, RoundTrip
      <4>6. /\ f = Expected(d, Means(d, m + 1)) /\ BytesFrom(q, size) \in Seq(Octet)
            /\ Laid(BytesFrom(q, size), pieces, m + 1, k)
        <5> DEFINE e == Expected(d, Means(d, m + 1))
        <5>1. Says(pieces[m + 1], e)
          BY <4>5
        <5> HIDE DEF e
        <5>2. LET z == HeaderSize + FirstHeader(q).length
              IN  /\ Decode(FirstHeader(q), SubSeq(q, HeaderSize + 1, z)) = e
                  /\ BytesFrom(q, z) \in Seq(Octet) /\ Laid(BytesFrom(q, z), pieces, m + 1, k)
          BY <3>1, <3>2, <3>3, <5>1, FrameRead, Zenon
        <5> QED
          BY <5>2, Zenon DEF f, size, e
      <4>7. AsExpected(d, m + 1)'
        <5> SUFFICES ASSUME NEW i \in 1..(m + 1)
                     PROVE  /\ Means(d, i)'.type \notin Headerless
                            /\ got'[d][i] = Expected(d, Means(d, i)')
          BY DEF AsExpected
        <5>1. CASE i = m + 1
          BY <1>4, <2>1, <3>6, <4>6, <5>1
        <5>2. CASE i # m + 1
          <6>1. i \in 1..m
            BY <1>3, <5>2
          <6> QED
            BY <2>1, <3>4, <6>1 DEF AsExpected
        <5> QED
          BY <5>1, <5>2
      <4>8. m + 1 <= k
        BY <1>3, <3>3
      <4> QED
        BY <1>3, <1>4, <2>2, <2>3, <3>1, <4>6, <4>7, <4>8 DEF Reading
    <3> QED
      BY <3>5, <3>6
  <2> QED
    BY <1>1, <2>1, <2>2, <2>5, <2>6 DEF OutFits
<1>12. /\ phase' = phase /\ tapped' \in [Ends -> BOOLEAN] /\ peer' \in [Ends -> BOOLEAN]
       /\ crashed' \in BOOLEAN /\ (crashed => crashed')
  BY <1>1, <1>2 DEF TypeOK, tap
<1> QED
  BY <1>5, <1>6, <1>7, <1>8, <1>9, <1>10, <1>11, <1>12, OneDirection

LEMMA Closes ==
  ASSUME WInv, NEW e \in Ends, PeerCloses(e)
  PROVE  WInv'
<1>1. /\ peer' = [peer EXCEPT ![e] = FALSE]
      /\ UNCHANGED <<tap, network, sent, got, cause>>
  BY DEF PeerCloses
<1>2. /\ TypeOK /\ Functions /\ PhaseFits /\ CausesFit
      /\ \A d \in Directions : Counted(d) /\ InFits(d) /\ OutFits(d)
  BY DEF WInv
<1>3. TypeOK'
  <2>1. peer' \in [Ends -> BOOLEAN]
    BY <1>1, <1>2 DEF TypeOK
  <2> QED
    BY <1>1, <1>2, <2>1 DEF TypeOK, tap
<1>4. Functions'
  BY <1>1, <1>2 DEF Functions, tap, network
<1>5. PhaseFits'
  BY <1>1, <1>2 DEF PhaseFits, tap
<1>6. CausesFit'
  BY <1>1, <1>2, CausesKept
<1>7. \A d \in Directions : Untouched(d)
  BY <1>1 DEF Untouched, tap, network
<1>8. crashed => crashed'
  BY <1>1 DEF tap
<1> QED
  BY <1>2, <1>3, <1>4, <1>5, <1>6, <1>7, <1>8, Kept DEF WInv

LEMMA Stutters ==
  ASSUME WInv, UNCHANGED vars
  PROVE  WInv'
<1>1. /\ TypeOK /\ Functions /\ PhaseFits /\ CausesFit
      /\ \A d \in Directions : Counted(d) /\ InFits(d) /\ OutFits(d)
  BY DEF WInv
<1>2. UNCHANGED <<tap, network, peers>>
  BY DEF vars
<1>3. TypeOK' /\ PhaseFits' /\ CausesFit'
  BY <1>1, <1>2 DEF TypeOK, PhaseFits, CausesFit, tap, peers
<1>4. Functions'
  BY <1>1, <1>2 DEF Functions, tap, network, peers
<1>5. \A d \in Directions : Untouched(d)
  BY <1>2 DEF Untouched, tap, network, peers
<1>6. crashed => crashed'
  BY <1>2 DEF tap
<1> QED
  BY <1>1, <1>3, <1>4, <1>5, <1>6, Kept DEF WInv

LEMMA WInvStep ==
  ASSUME WInv, [Next]_vars
  PROVE  WInv'
<1>1. CASE HandleConnection
  BY <1>1, Connecting
<1>2. ASSUME NEW d \in Directions, ForwardFrames(d) \/ PeerSends(d) \/ PeerReads(d)
      PROVE  WInv'
  <2>1. CASE ReadHeader(d)
    BY <2>1, ReadsHeader
  <2>2. CASE ReadPayload(d)
    BY <2>2, ReadsPayload
  <2>3. CASE DumpFrame(d)
    BY <2>3, DumpsFrame
  <2>4. CASE WriteFrame(d)
    BY <2>4, WritesFrame
  <2>5. CASE PeerSends(d)
    BY <2>5, Sends
  <2>6. CASE PeerReads(d)
    BY <2>6, Reads
  <2> QED
    BY <1>2, <2>1, <2>2, <2>3, <2>4, <2>5, <2>6 DEF ForwardFrames
<1>3. ASSUME NEW e \in Ends, PeerCloses(e)
      PROVE  WInv'
  BY <1>3, Closes
<1>4. CASE UNCHANGED vars
  BY <1>4, Stutters
<1> QED
  BY <1>1, <1>2, <1>3, <1>4 DEF Next

--------------------------------------------------------------------------------
(* Between the two sides the octets are always those of frames laid end to  *)
(* end (readNextFrame, forwardFrames, Encode), whatever the frames are and  *)
(* whenever a side closes.                                                  *)
THEOREM WiretapInvariance == Spec => []WInv
<1>1. Init => WInv
  BY WInvInitially
<1>2. WInv /\ [Next]_vars => WInv'
  BY WInvStep
<1> QED
  BY <1>1, <1>2, PTL DEF Spec

(* Every variable has its type, and no frame is written before it is dumped *)
(* or dumped before it is sent (forwardFrames).                             *)
THEOREM WiretapTypeCorrect == Spec => []TypeOK
<1>1. WInv => TypeOK
  BY DEF WInv
<1> QED
  BY <1>1, WiretapInvariance, PTL

(* The samples say what the decoders read in them.                          *)
LEMMA SamplesMean ==
  ASSUME SamplesSay, Functions, NEW d \in Directions, NEW n \in 1..Len(sent[d])
  PROVE  /\ sent[d][n].says.type = Means(d, n).type
         /\ sent[d][n].says.type \notin Headerless => sent[d][n].says = Means(d, n)
<1>1. sent[d][n] \in Samples[d]
  BY ElementsOf DEF Functions
<1> QED
  BY <1>1 DEF SamplesSay, Means

(* Up to the first frame without a header no receiver is out of step.       *)
LEMMA IntactWhenInStep ==
  ASSUME SamplesSay, WInv
  PROVE  ForwardedIntact
<1> SUFFICES ASSUME NEW d \in Directions
             PROVE  /\ InStep(d, Len(sent[d])) => Len(got[d]) <= Len(sent[d])
                    /\ \A n \in DOMAIN got[d] \cap DOMAIN sent[d] :
                         InStep(d, n) => got[d][n] = Expected(d, sent[d][n].says)
  BY DEF ForwardedIntact
<1> DEFINE k == written[d]
           m == Len(got[d])
           w == Len(sent[d])
<1>1. /\ Functions /\ k \in Nat /\ m \in Nat /\ w \in Nat /\ k <= w
      /\ DOMAIN got[d] = 1..m /\ DOMAIN sent[d] = 1..w
      /\ Reading(d) \/ OutOfStep(d)
  <2>1. Functions /\ Counted(d) /\ (Reading(d) \/ OutOfStep(d))
    BY DEF WInv, OutFits
  <2>2. k \in Nat /\ dumped[d] \in Nat /\ sent[d] \in Seq(Samples[d]) /\ IsSeq(got[d])
    BY <2>1 DEF Functions
  <2>3. w \in Nat /\ DOMAIN sent[d] = 1..w
    BY <2>2
  <2>4. m \in Nat /\ DOMAIN got[d] = 1..m
    BY <2>2 DEF IsSeq
  <2>5. k <= w
    BY <2>1, <2>2, <2>3 DEF Counted
  <2> QED
    BY <2>1, <2>2, <2>3, <2>4, <2>5
<1>2. \A n \in 1..w : /\ sent[d][n].says.type = Means(d, n).type
                      /\ sent[d][n].says.type \notin Headerless => sent[d][n].says = Means(d, n)
  BY <1>1, SamplesMean
<1> HIDE DEF k, m, w
<1>3. CASE Reading(d)
  <2>1. m <= k /\ AsExpected(d, m)
    BY <1>3 DEF Reading, m, k
  <2>2. ASSUME NEW n \in (1..m) \cap (1..w), InStep(d, n)
        PROVE  got[d][n] = Expected(d, sent[d][n].says)
    <3>1. n \in 1..m /\ n \in 1..w
      OBVIOUS
    <3>2. Means(d, n).type \notin Headerless /\ got[d][n] = Expected(d, Means(d, n))
      BY <2>1, <3>1 DEF AsExpected
    <3> QED
      BY <1>2, <3>1, <3>2
  <2> QED
    BY <1>1, <2>1, <2>2 DEF m, w
<1>4. CASE OutOfStep(d)
  <2>1. PICK i \in 1..m : i <= k /\ Means(d, i).type \in Headerless /\ AsExpected(d, i - 1)
    BY <1>4 DEF OutOfStep, m, k
  <2>2. i \in 1..w
    BY <1>1, <2>1
  <2>3. \A n \in 1..w : InStep(d, n) => n < i
    <3> SUFFICES ASSUME NEW n \in 1..w, InStep(d, n), n >= i
                 PROVE  FALSE
      BY <1>1, <2>1
    <3>1. i \in 1..n
      BY <2>1
    <3>2. sent[d][i].says.type \notin Headerless
      BY <3>1 DEF InStep
    <3> QED
      BY <1>2, <2>1, <2>2, <3>2
  <2>4. ~InStep(d, w)
    <3>1. w \in 1..w /\ ~(w < i)
      BY <1>1, <2>2
    <3> QED
      BY <2>3, <3>1
  <2>5. ASSUME NEW n \in (1..m) \cap (1..w), InStep(d, n)
        PROVE  got[d][n] = Expected(d, sent[d][n].says)
    <3>1. n \in 1..m /\ n \in 1..w
      OBVIOUS
    <3>2. n \in 1..(i - 1)
      BY <1>1, <2>1, <2>3, <2>5, <3>1
    <3>3. Means(d, n).type \notin Headerless /\ got[d][n] = Expected(d, Means(d, n))
      BY <2>1, <3>2 DEF AsExpected
    <3> QED
      BY <1>2, <3>1, <3>3
  <2> QED
    BY <1>1, <2>4, <2>5 DEF m, w
<1> QED
  BY <1>1, <1>3, <1>4

(* The server in step has read no more than was written to it, and less was *)
(* written than was dumped.                                                 *)
LEMMA DumpedWhenInStep ==
  ASSUME SamplesSay, WInv
  PROVE  DumpInOrder
<1> DEFINE k == written["out"]
           m == Len(got["out"])
           w == Len(sent["out"])
           c == dumped["out"]
<1>1. /\ Functions /\ k \in Nat /\ m \in Nat /\ w \in Nat /\ c \in Nat /\ k <= c /\ c <= w
      /\ Reading("out") \/ OutOfStep("out")
  <2>1. Functions /\ Counted("out") /\ (Reading("out") \/ OutOfStep("out"))
    BY DEF WInv, OutFits, Directions
  <2>2. k \in Nat /\ c \in Nat /\ sent["out"] \in Seq(Samples["out"]) /\ IsSeq(got["out"])
    BY <2>1 DEF Functions, Directions
  <2> QED
    BY <2>1, <2>2 DEF IsSeq, Counted
<1> SUFFICES ASSUME InStep("out", c), NEW n \in 1..dumped["in"]
             PROVE  cause[n] <= c
  BY DEF DumpInOrder
<1>2. cause[n] \in Nat /\ cause[n] <= m
  <2>1. /\ Len(cause) = Len(sent["in"]) /\ dumped["in"] <= Len(sent["in"])
        /\ \A i \in 1..Len(cause) : cause[i] \in Nat /\ cause[i] <= m
    BY DEF WInv, CausesFit, Counted, Directions
  <2>2. dumped["in"] \in Nat /\ Len(sent["in"]) \in Nat
    BY <1>1 DEF Functions, Directions
  <2>3. n \in 1..Len(cause)
    BY <2>1, <2>2
  <2> QED
    BY <2>1, <2>3
<1>3. m <= c
  <2>1. CASE Reading("out")
    BY <1>1, <2>1 DEF Reading
  <2>2. CASE OutOfStep("out")
    <3>1. PICK i \in 1..m : i <= k /\ Means("out", i).type \in Headerless
      BY <2>2 DEF OutOfStep
    <3>2. i \in 1..w /\ i \in 1..c
      BY <1>1, <3>1
    <3>3. sent["out"][i].says.type = Means("out", i).type
      BY <1>1, <3>2, SamplesMean DEF Directions
    <3>4. sent["out"][i].says.type \notin Headerless
      BY <3>2 DEF InStep
    <3> QED
      BY <3>1, <3>3, <3>4
  <2> QED
    BY <1>1, <2>1, <2>2
<1> QED
  BY <1>1, <1>2, <1>3

(* What a receiver reads is what was sent, in order and nothing added, up   *)
(* to the first frame of a type that Encode writes without a header: for    *)
(* any frames, with any padding, and any interleaving of the two goroutines *)
(* (forwardFrames, fixAuthorityHeader, DecodeXFrame, Encode).               *)
THEOREM FramesAreForwardedIntact ==
  ASSUME SamplesSay
  PROVE  Spec => []ForwardedIntact
<1>1. WInv => ForwardedIntact
  BY IntactWhenInStep
<1> QED
  BY <1>1, WiretapInvariance, PTL

(* The dump shows causes before effects, although two goroutines share the  *)
(* dumping one: a frame of the server is dumped after those of the client   *)
(* that the server had read when it sent it (forwardFrames, dumpFrames).    *)
THEOREM TheDumpIsInOrder ==
  ASSUME SamplesSay
  PROVE  Spec => []DumpInOrder
<1>1. WInv => DumpInOrder
  BY DumpedWhenInStep
<1> QED
  BY <1>1, WiretapInvariance, PTL
================================================================================
