---------------------------- MODULE FrameCodecProofs ----------------------------
(****************************************************************************)
(* Proofs about FrameCodec: for every frame and every header table, what    *)
(* the decoders return is a frame, and what Encode writes is read as that   *)
(* frame again. TLC checks this of a handful of samples; the numbers and    *)
(* the lengths of the payloads are far beyond it.                           *)
(****************************************************************************)
EXTENDS FrameCodec, FiniteSetTheorems, WellFoundedInduction, TLAPS

(* The numbers of the fields: 31 bits (streams, increments), 32 bits (error *)
(* codes, values of settings, halves of a PING), 24 bits (lengths) and 16   *)
(* bits (identifiers of settings).                                          *)
Ids    == {n \in Nat : n < 128 * 256 * 256 * 256}
Words  == {n \in Nat : n < 256 * 256 * 256 * 256}
Sizes  == {n \in Nat : n < 256 * 256 * 256}
Halves == {n \in Nat : n < 256 * 256}

LEMMA ElementsOf ==
  ASSUME NEW S, NEW q \in Seq(S)
  PROVE  \A i \in 1 .. Len(q) : q[i] \in S
OBVIOUS

LEMMA IsSequence ==
  ASSUME NEW S, NEW n \in Nat, NEW q \in [1..n -> S]
  PROVE  q \in Seq(S) /\ Len(q) = n /\ DOMAIN q = 1..n
OBVIOUS

(* PutUint writes octets, and as many as it is asked for.                   *)
LEMMA NumbersAreOctets ==
  ASSUME NEW n \in Nat, NEW width \in 1..4
  PROVE  PutUint(n, width) \in Seq(Octet) /\ Len(PutUint(n, width)) = width
<1>1. \A i \in 1..4 : (n \div Place[i]) % 256 \in Octet
  BY DEF Place, Octet
<1>2. \A i \in 1..width : width - i + 1 \in 1..4
  OBVIOUS
<1>3. PutUint(n, width) \in [1..width -> Octet]
  BY <1>1, <1>2, Zenon DEF PutUint
<1> QED
  BY <1>3, IsSequence

(* What PutUint writes, Uint32 reads again: four octets.                    *)
LEMMA Numbers4 ==
  ASSUME NEW n \in Words
  PROVE  /\ PutUint(n, 4) \in Seq(Octet) /\ Len(PutUint(n, 4)) = 4
         /\ Uint32(PutUint(n, 4)) = n
<1> DEFINE p == PutUint(n, 4)
           b1 == (n \div (256 * 256 * 256)) % 256
           b2 == (n \div (256 * 256)) % 256
           b3 == (n \div 256) % 256
           b4 == n % 256
<1>1. p = [i \in 1..4 |-> (n \div Place[4 - i + 1]) % 256]
  BY DEF PutUint
<1>3. p \in Seq(Octet) /\ Len(p) = 4
  BY NumbersAreOctets, 4 \in 1..4 DEF Words
<1>4. p[1] = b1 /\ p[2] = b2 /\ p[3] = b3 /\ p[4] = b4
  BY <1>1 DEF Place, Words
<1>5. ((256 * b1 + b2) * 256 + b3) * 256 + b4 = n
  BY DEF Words
<1> QED
  BY <1>3, <1>4, <1>5 DEF Uint32

(* The cleared bit: a number of 31 bits is read as Uint32 reads it, and     *)
(* anything else as a number of 31 bits.                                    *)
LEMMA Numbers31 ==
  ASSUME NEW b \in Seq(Octet), Len(b) = 4
  PROVE  /\ Uint32IgnoreFirstBit(b) = ((256 * (b[1] % 128) + b[2]) * 256 + b[3]) * 256 + b[4]
         /\ Uint32IgnoreFirstBit(b) \in Ids
         /\ Uint32(b) \in Words
         /\ Uint32(b) \in Ids => Uint32IgnoreFirstBit(b) = Uint32(b)
<1>0. \A i \in 1..Len(b) : b[i] \in Octet
  BY ElementsOf
<1>1. b[1] \in Octet /\ b[2] \in Octet /\ b[3] \in Octet /\ b[4] \in Octet
  BY <1>0
<1>2. Uint32IgnoreFirstBit(b) = ((256 * (b[1] % 128) + b[2]) * 256 + b[3]) * 256 + b[4]
  BY <1>1 DEF Uint32IgnoreFirstBit, Octet
<1>3. Uint32(b) = ((256 * b[1] + b[2]) * 256 + b[3]) * 256 + b[4]
  BY DEF Uint32
<1>4. ASSUME NEW x1 \in Octet, NEW x2 \in Octet, NEW x3 \in Octet, NEW x4 \in Octet
      PROVE  /\ ((256 * (x1 % 128) + x2) * 256 + x3) * 256 + x4 \in Ids
             /\ ((256 * x1 + x2) * 256 + x3) * 256 + x4 \in Words
             /\ ((256 * x1 + x2) * 256 + x3) * 256 + x4 \in Ids => x1 % 128 = x1
  BY DEF Octet, Ids, Words
<1> QED
  BY <1>1, <1>2, <1>3, <1>4

(* The reader of lengths gets three octets, the first of which counts in    *)
(* full: the bit it clears belongs to the octet that is missing.            *)
LEMMA Numbers24 ==
  ASSUME NEW b \in Seq(Octet), Len(b) = 3
  PROVE  /\ Uint32IgnoreFirstBit(b) = (b[1] * 256 + b[2]) * 256 + b[3]
         /\ Uint32IgnoreFirstBit(b) \in Sizes
<1>0. \A i \in 1..Len(b) : b[i] \in Octet
  BY ElementsOf
<1>1. b[1] \in Octet /\ b[2] \in Octet /\ b[3] \in Octet
  BY <1>0
<1>2. Uint32IgnoreFirstBit(b) = ((256 * (0 % 128) + b[1]) * 256 + b[2]) * 256 + b[3]
  BY <1>1 DEF Uint32IgnoreFirstBit, Octet
<1>3. ASSUME NEW x1 \in Octet, NEW x2 \in Octet, NEW x3 \in Octet
      PROVE  /\ (x1 * 256 + x2) * 256 + x3 \in Sizes
             /\ ((256 * (0 % 128) + x1) * 256 + x2) * 256 + x3 = (x1 * 256 + x2) * 256 + x3
  BY DEF Octet, Sizes
<1> QED
  BY <1>1, <1>2, <1>3

(* A length that is written in three octets is read again.                  *)
LEMMA Numbers3 ==
  ASSUME NEW n \in Sizes
  PROVE  /\ PutUint(n, 3) \in Seq(Octet) /\ Len(PutUint(n, 3)) = 3
         /\ Uint32IgnoreFirstBit(PutUint(n, 3)) = n
<1> DEFINE p == PutUint(n, 3)
           b1 == (n \div (256 * 256)) % 256
           b2 == (n \div 256) % 256
           b3 == n % 256
<1>1. p = [i \in 1..3 |-> (n \div Place[3 - i + 1]) % 256]
  BY DEF PutUint
<1>3. p \in Seq(Octet) /\ Len(p) = 3
  BY NumbersAreOctets, 3 \in 1..4 DEF Sizes
<1>4. p[1] = b1 /\ p[2] = b2 /\ p[3] = b3
  BY <1>1 DEF Place, Sizes
<1>5. (b1 * 256 + b2) * 256 + b3 = n
  BY DEF Sizes
<1> QED
  BY <1>3, <1>4, <1>5, Numbers24

(* An identifier of a setting that is written in two octets is read again.  *)
LEMMA Numbers2 ==
  ASSUME NEW n \in Halves
  PROVE  /\ PutUint(n, 2) \in Seq(Octet) /\ Len(PutUint(n, 2)) = 2
         /\ Uint16(PutUint(n, 2)) = n
<1> DEFINE p == PutUint(n, 2)
<1>1. p = [i \in 1..2 |-> (n \div Place[2 - i + 1]) % 256]
  BY DEF PutUint
<1>3. p \in Seq(Octet) /\ Len(p) = 2
  BY NumbersAreOctets, 2 \in 1..4 DEF Halves
<1>4. p[1] = (n \div 256) % 256 /\ p[2] = n % 256
  BY <1>1 DEF Place, Halves
<1>5. 256 * ((n \div 256) % 256) + (n % 256) = n
  BY DEF Halves
<1> QED
  BY <1>3, <1>4, <1>5 DEF Uint16

--------------------------------------------------------------------------------
(* Sequences                                                                *)

(* q has n elements; the elements of r from k + 1 on are those of q.        *)
Sized(S, q, n)    == q \in Seq(S) /\ Len(q) = n
Holds(r, k, q, n) == \A i \in 1..n : r[k + i] = q[i]

LEMMA AsFunction ==
  ASSUME NEW S, NEW q, NEW n, Sized(S, q, n)
  PROVE  n \in Nat /\ q \in [1..n -> S]
BY DEF Sized

LEMMA Joined ==
  ASSUME NEW S, NEW p, NEW q, NEW n, NEW m, Sized(S, p, n), Sized(S, q, m)
  PROVE  /\ n \in Nat /\ m \in Nat /\ Sized(S, p \o q, n + m)
         /\ Holds(p \o q, 0, p, n) /\ Holds(p \o q, n, q, m)
BY DEF Sized, Holds

LEMMA FirstPart ==
  ASSUME NEW S, NEW q, NEW n \in Nat, NEW m, Sized(S, q, m), n <= m
  PROVE  Sized(S, Bytes(q, 0, n), n) /\ Holds(q, 0, Bytes(q, 0, n), n)
BY DEF Sized, Holds, Bytes

LEMMA Rest ==
  ASSUME NEW S, NEW q, NEW m \in Nat, NEW n \in Nat, Sized(S, q, m + n)
  PROVE  Sized(S, BytesFrom(q, m), n) /\ Holds(q, m, BytesFrom(q, m), n)
<1>1. q \in Seq(S) /\ Len(q) = m + n
  BY DEF Sized
<1>2. BytesFrom(q, m) = SubSeq(q, m + 1, m + n)
  BY <1>1 DEF BytesFrom
<1>3. /\ SubSeq(q, m + 1, m + n) \in Seq(S) /\ Len(SubSeq(q, m + 1, m + n)) = n
      /\ \A i \in 1..n : SubSeq(q, m + 1, m + n)[i] = q[m + i]
  BY <1>1
<1> QED
  BY <1>2, <1>3 DEF Sized, Holds

LEMMA SameSequence ==
  ASSUME NEW S, NEW p, NEW q, NEW n, NEW r, NEW k,
         Sized(S, p, n), Sized(S, q, n), Holds(r, k, p, n), Holds(r, k, q, n)
  PROVE  p = q
BY DEF Sized, Holds

(* What is joined can be taken apart again where the first part ends.       *)
LEMMA TakenApart ==
  ASSUME NEW S, NEW p, NEW q, NEW n, NEW m, Sized(S, p, n), Sized(S, q, m)
  PROVE  Bytes(p \o q, 0, n) = p /\ BytesFrom(p \o q, n) = q
<1> DEFINE r == p \o q
<1>1. /\ n \in Nat /\ m \in Nat /\ Sized(S, r, n + m)
      /\ Holds(r, 0, p, n) /\ Holds(r, n, q, m)
  BY Joined, Zenon
<1> HIDE DEF r
<1>2. n <= n + m
  BY <1>1
<1>3. Bytes(r, 0, n) = p
  BY <1>1, <1>2, FirstPart, SameSequence, Zenon
<1>4. BytesFrom(r, n) = q
  BY <1>1, Rest, SameSequence, Zenon
<1> QED
  BY <1>3, <1>4 DEF r

LEMMA FirstTaken ==
  ASSUME NEW S, NEW p, NEW q, NEW n, NEW m, Sized(S, p, n), Sized(S, q, m)
  PROVE  Bytes(p \o q, 0, n) = p
BY TakenApart, Zenon

LEMMA SecondLeft ==
  ASSUME NEW S, NEW p, NEW q, NEW n, NEW m, Sized(S, p, n), Sized(S, q, m)
  PROVE  BytesFrom(p \o q, n) = q
BY TakenApart, Zenon

--------------------------------------------------------------------------------
(* The header                                                               *)

(* What DecodeHeader reads in the octets that EncodeHeader has written.     *)
FrameHeader(type, id, length, flags) ==
  [length |-> length, type |-> TypeOctet[type], flags |-> flags, id |-> id]

(* The header of a frame is read as it was written, and the payload is what *)
(* follows it.                                                              *)
LEMMA HeaderRead ==
  ASSUME NEW type \in DOMAIN TypeOctet, NEW id \in Ids, NEW flags \in Octet,
         NEW payload, NEW length \in Sizes, Sized(Octet, payload, length)
  PROVE  LET e == EncodeHeader(type, id, length, flags) \o payload
         IN  /\ Sized(Octet, e, 9 + length)
             /\ DecodeHeader(SubSeq(e, 1, HeaderSize)) = FrameHeader(type, id, length, flags)
             /\ BytesFrom(e, HeaderSize) = payload
<1> DEFINE a == PutUint(length, 3)
           b == <<TypeOctet[type], flags>>
           c == PutUint(id, 4)
           h == EncodeHeader(type, id, length, flags)
           ab == a \o b
           e == EncodeHeader(type, id, length, flags) \o payload
<1>1. Sized(Octet, a, 3) /\ Uint32IgnoreFirstBit(a) = length
  BY Numbers3 DEF Sized
<1>2. Sized(Octet, c, 4) /\ Uint32IgnoreFirstBit(c) = id
  <2>1. id \in Words
    BY DEF Ids, Words
  <2> QED
    BY <2>1, Numbers4, Numbers31 DEF Sized
<1>3. Sized(Octet, b, 2) /\ b[1] = TypeOctet[type] /\ b[2] = flags
  <2>1. TypeOctet[type] \in Octet
    BY DEF TypeOctet, Octet
  <2> QED
    BY <2>1 DEF Sized
<1>4. h = ab \o c
  BY DEF EncodeHeader
<1> HIDE DEF a, b, c, h
<1>5. Sized(Octet, ab, 5) /\ Holds(ab, 3, b, 2) /\ Bytes(ab, 0, 3) = a
  <2>1. Sized(Octet, ab, 3 + 2) /\ Holds(ab, 3, b, 2)
    BY <1>1, <1>3, Joined, Zenon
  <2>2. Bytes(ab, 0, 3) = a
    BY <1>1, <1>3, TakenApart, Zenon
  <2> HIDE DEF ab
  <2> QED
    BY <2>1, <2>2
<1> HIDE DEF ab
<1>6. Sized(Octet, h, 9) /\ Holds(h, 0, ab, 5) /\ BytesFrom(h, 5) = c
  <2>1. Sized(Octet, h, 5 + 4) /\ Holds(h, 0, ab, 5)
    BY <1>2, <1>4, <1>5, Joined, Zenon
  <2>2. BytesFrom(ab \o c, 5) = c
    BY <1>2, <1>5, SecondLeft, SMT
  <2> QED
    BY <1>4, <2>1, <2>2
<1>7. Bytes(h, 5, 9) = c
  BY <1>6 DEF Bytes, BytesFrom, Sized
<1>8. Bytes(h, 0, 3) = a
  <2>1. 3 \in Nat /\ 3 <= 5 /\ 3 <= 9
    OBVIOUS
  <2>2. /\ Sized(Octet, Bytes(h, 0, 3), 3) /\ Holds(h, 0, Bytes(h, 0, 3), 3)
        /\ Sized(Octet, Bytes(ab, 0, 3), 3) /\ Holds(ab, 0, Bytes(ab, 0, 3), 3)
    BY <1>5, <1>6, <2>1, FirstPart, Zenon
  <2>3. Holds(h, 0, Bytes(ab, 0, 3), 3)
    BY <1>6, <2>2 DEF Holds
  <2> QED
    BY <1>5, <2>2, <2>3, SameSequence, Zenon
<1>9. h[4] = TypeOctet[type] /\ h[5] = flags
  BY <1>3, <1>5, <1>6 DEF Holds
<1>10. e = h \o payload
  BY DEF h
<1> HIDE DEF e
<1>11. Sized(Octet, e, 9 + length) /\ Bytes(e, 0, 9) = h /\ BytesFrom(e, 9) = payload
  <2>1. Sized(Octet, h \o payload, 9 + length)
    BY <1>6, Joined, Zenon
  <2>2. Bytes(h \o payload, 0, 9) = h /\ BytesFrom(h \o payload, 9) = payload
    BY <1>6, FirstTaken, SecondLeft, SMT
  <2> QED
    BY <1>10, <2>1, <2>2, Zenon
<1>12. SubSeq(e, 1, HeaderSize) = h /\ BytesFrom(e, HeaderSize) = payload
  <2>1. Bytes(e, 0, 9) = SubSeq(e, 1, HeaderSize)
    BY DEF Bytes, HeaderSize
  <2> QED
    BY <1>11, <2>1, Zenon DEF HeaderSize
<1> QED
  BY <1>1, <1>2, <1>7, <1>8, <1>9, <1>11, <1>12, Zenon DEF DecodeHeader, FrameHeader, e

--------------------------------------------------------------------------------
(* What is decoded                                                          *)

(* A payload whose length can be written in a header; the fields that the   *)
(* header compression knows; a block of at most as many fields.             *)
Payloads == {payload \in Seq(Octet) : Len(payload) \in Sizes}
Fields   == {HeaderTable[octet] : octet \in DOMAIN HeaderTable}
Blocks   == {headers \in Seq(Fields) : Len(headers) \in Sizes}

(* What AfterPadding and AfterPriority leave is a payload again, if they do *)
(* not fail.                                                                *)
LEMMA PaddingTaken ==
  ASSUME NEW flags, NEW payload \in Payloads
  PROVE  AfterPadding(flags, payload) \in {Error, Panic} \cup {Octets(data) : data \in Payloads}
<1> DEFINE rest == AfterPadding(flags, payload)
<1>1. payload \in Seq(Octet) /\ Len(payload) \in Sizes
  BY DEF Payloads
<1>2. CASE ~IsSet(PADDED, flags)
  BY <1>2 DEF AfterPadding
<1>3. CASE IsSet(PADDED, flags) /\ payload # << >> /\ Len(payload) > payload[1]
  <2>1. 1 \in 1 .. Len(payload)
    BY <1>1, <1>3
  <2>2. payload[1] \in Nat
    BY <1>1, <2>1, ElementsOf DEF Octet
  <2> DEFINE b == Bytes(payload, 1, Len(payload) - payload[1])
  <2>3. b \in Seq(Octet) /\ Len(b) <= Len(payload)
    BY <1>1, <1>3, <2>1, <2>2 DEF Bytes
  <2>4. b \in Payloads
    BY <1>1, <2>3 DEF Payloads, Sizes
  <2>5. rest = Octets(b)
    BY <1>3, <2>2, <1>1 DEF AfterPadding
  <2> QED
    BY <2>4, <2>5
<1>4. CASE IsSet(PADDED, flags) /\ ~(payload # << >> /\ Len(payload) > payload[1])
  <2>1. CASE payload = << >>
    BY <1>4, <2>1 DEF AfterPadding
  <2>2. CASE payload # << >> /\ ~(Len(payload) > payload[1])
    <3>1. 1 \in 1 .. Len(payload)
      BY <1>1, <2>2
    <3>2. payload[1] \in Nat
      BY <1>1, <3>1, ElementsOf DEF Octet
    <3>3. Len(payload) <= payload[1]
      BY <1>1, <3>2, <2>2
    <3> QED
      BY <1>4, <2>2, <3>3 DEF AfterPadding
  <2> QED
    BY <1>4, <2>1, <2>2
<1> QED
  BY <1>2, <1>3, <1>4

LEMMA PriorityTaken ==
  ASSUME NEW flags, NEW payload \in Payloads
  PROVE  AfterPriority(flags, Octets(payload)) \in {Error} \cup {Octets(data) : data \in Payloads}
<1> DEFINE rest == AfterPriority(flags, Octets(payload))
<1>0. Octets(payload).type = "octets" /\ Octets(payload).data = payload /\ ~Failed(Octets(payload))
  BY DEF Octets, Failed
<1>1. payload \in Seq(Octet) /\ Len(payload) \in Sizes
  BY DEF Payloads
<1>2. CASE ~IsSet(PRIORITY, flags)
  BY <1>0, <1>2 DEF AfterPriority
<1>3. CASE IsSet(PRIORITY, flags) /\ Len(payload) <= 5
  BY <1>0, <1>3 DEF AfterPriority
<1>4. CASE IsSet(PRIORITY, flags) /\ ~(Len(payload) <= 5)
  <2> DEFINE b == BytesFrom(payload, 5)
  <2>1. b \in Seq(Octet) /\ Len(b) <= Len(payload)
    BY <1>1, <1>4 DEF BytesFrom
  <2>2. b \in Payloads
    BY <1>1, <2>1 DEF Payloads, Sizes
  <2>3. rest = Octets(b)
    BY <1>0, <1>4 DEF AfterPriority
  <2> QED
    BY <2>2, <2>3
<1> QED
  BY <1>2, <1>3, <1>4

(* Each octet of a header block is a field, or the whole block is refused.  *)
LEMMA BlockDecoded ==
  ASSUME NEW block \in Payloads
  PROVE  \/ DecodeFull(Octets(block)) = Error
         \/ \E fields \in Seq(Fields) : Len(fields) = Len(block) /\ DecodeFull(Octets(block)) = Octets(fields)
<1>0. Octets(block).data = block /\ ~Failed(Octets(block))
  BY DEF Octets, Failed
<1>1. CASE \E i \in DOMAIN block : block[i] \notin DOMAIN HeaderTable
  BY <1>0, <1>1 DEF DecodeFull
<1>2. CASE \A i \in DOMAIN block : block[i] \in DOMAIN HeaderTable
  <2> DEFINE fields == [i \in DOMAIN block |-> HeaderTable[block[i]]]
  <2>1. DecodeFull(Octets(block)) = Octets(fields)
    BY <1>0, <1>2 DEF DecodeFull
  <2>2. DOMAIN block = 1 .. Len(block) /\ Len(block) \in Nat
    BY DEF Payloads
  <2>3. \A i \in DOMAIN block : HeaderTable[block[i]] \in Fields
    BY <1>2 DEF Fields
  <2>4. fields \in Seq(Fields) /\ Len(fields) = Len(block)
    BY <2>2, <2>3, IsSequence
  <2> QED
    BY <2>1, <2>4
<1> QED
  BY <1>1, <1>2

(* The frames of each type: what the structs of package frames can hold.    *)
DataFrames         == [type : {"DATA"}, id : Ids, data : Payloads, endStream : BOOLEAN]
HeadersFrames      == [type : {"HEADERS"}, id : Ids, headers : Blocks,
                       endStream : BOOLEAN, endHeaders : BOOLEAN, priority : BOOLEAN]
PriorityFrames     == [type : {"PRIORITY"}, id : Ids, weight : Octet, dependsOn : Ids,
                       exclusive : BOOLEAN]
RstStreamFrames    == [type : {"RST_STREAM"}, id : Ids, errorCode : Words]
SettingsFrames     == [type : {"SETTINGS"}, id : Ids, ack : BOOLEAN,
                       settings : UNION {[ids -> Words] : ids \in SUBSET KnownSettings}]
PushPromiseFrames  == [type : {"PUSH_PROMISE"}, id : Ids,
                       headers : {headers \in Blocks : 4 + Len(headers) \in Sizes},
                       promisedId : Ids, endHeaders : BOOLEAN]
PingFrames         == [type : {"PING"}, id : {0}, ack : BOOLEAN, payload : Words \X Words]
GoAwayFrames       == [type : {"GOAWAY"}, id : Ids, errorCode : Words, lastId : Ids]
WindowUpdateFrames == [type : {"WINDOW_UPDATE"}, id : Ids, increment : Ids]

(* Each decoder returns an error, or panics where it reads beyond the       *)
(* payload, or returns a frame of its type.                                 *)
LEMMA DataDecoded ==
  ASSUME NEW flags, NEW id \in Ids, NEW payload \in Payloads
  PROVE  DecodeDataFrame(flags, id, payload) \in {Error, Panic} \cup DataFrames
<1>1. CASE AfterPadding(flags, payload) \in {Error, Panic}
  BY <1>1 DEF DecodeDataFrame, Failed, Error, Panic
<1>2. ASSUME NEW data \in Payloads, AfterPadding(flags, payload) = Octets(data)
      PROVE  DecodeDataFrame(flags, id, payload) \in DataFrames
  BY <1>2 DEF DecodeDataFrame, Failed, Octets, DataFrames, IsSet
<1> QED
  BY <1>1, <1>2, PaddingTaken

LEMMA HeadersDecoded ==
  ASSUME NEW flags, NEW id \in Ids, NEW payload \in Payloads
  PROVE  DecodeHeadersFrame(flags, id, payload) \in {Error, Panic} \cup HeadersFrames
<1> DEFINE block == AfterPriority(flags, AfterPadding(flags, payload))
<1>1. block \in {Error, Panic} \cup {Octets(data) : data \in Payloads}
  <2>1. CASE AfterPadding(flags, payload) \in {Error, Panic}
    BY <2>1 DEF AfterPriority, Failed, Error, Panic
  <2>2. ASSUME NEW data \in Payloads, AfterPadding(flags, payload) = Octets(data)
        PROVE  block \in {Error} \cup {Octets(rest) : rest \in Payloads}
    BY <2>2, PriorityTaken
  <2> QED
    BY <2>1, <2>2, PaddingTaken
<1>2. DecodeHeadersFrame(flags, id, payload) =
        IF Failed(DecodeFull(block)) THEN DecodeFull(block)
        ELSE [type |-> "HEADERS", id |-> id, headers |-> DecodeFull(block).data,
              endStream  |-> IsSet(END_STREAM, flags),
              endHeaders |-> IsSet(END_HEADERS, flags),
              priority   |-> IsSet(PRIORITY, flags)]
  BY DEF DecodeHeadersFrame
<1> HIDE DEF block
<1>3. CASE block \in {Error, Panic}
  BY <1>2, <1>3 DEF DecodeFull, Failed, Error, Panic
<1>4. ASSUME NEW data \in Payloads, block = Octets(data)
      PROVE  DecodeHeadersFrame(flags, id, payload) \in {Error} \cup HeadersFrames
  <2>1. CASE DecodeFull(block) = Error
    BY <1>2, <2>1 DEF Failed, Error
  <2>2. ASSUME NEW fields \in Seq(Fields), Len(fields) = Len(data), DecodeFull(block) = Octets(fields)
        PROVE  DecodeHeadersFrame(flags, id, payload) \in HeadersFrames
    <3>1. fields \in Blocks
      BY <2>2 DEF Payloads, Blocks
    <3>2. ~Failed(DecodeFull(block)) /\ DecodeFull(block).data = fields
      BY <2>2 DEF Failed, Octets
    <3> QED
      BY <1>2, <3>1, <3>2 DEF HeadersFrames, IsSet
  <2> QED
    BY <1>4, <2>1, <2>2, BlockDecoded
<1> QED
  BY <1>1, <1>3, <1>4

LEMMA PriorityDecoded ==
  ASSUME NEW id \in Ids, NEW payload \in Payloads
  PROVE  DecodePriorityFrame(id, payload) \in {Error} \cup PriorityFrames
<1> SUFFICES ASSUME Len(payload) = 5
             PROVE  DecodePriorityFrame(id, payload) \in PriorityFrames
  BY DEF DecodePriorityFrame
<1>1. Sized(Octet, payload, 5)
  BY DEF Payloads, Sized
<1>2. Sized(Octet, Bytes(payload, 0, 4), 4)
  BY <1>1, FirstPart, 4 \in Nat, 4 <= 5
<1>3. Uint32IgnoreFirstBit(Bytes(payload, 0, 4)) \in Ids
  BY <1>2, Numbers31 DEF Sized
<1>4. payload[5] \in Octet
  BY <1>1, ElementsOf, 5 \in 1..5 DEF Sized
<1> QED
  BY <1>3, <1>4 DEF DecodePriorityFrame, PriorityFrames

LEMMA RstStreamDecoded ==
  ASSUME NEW id \in Ids, NEW payload \in Payloads
  PROVE  DecodeRstStreamFrame(id, payload) \in {Error} \cup RstStreamFrames
BY Numbers31 DEF DecodeRstStreamFrame, RstStreamFrames, Payloads

LEMMA GoAwayDecoded ==
  ASSUME NEW id \in Ids, NEW payload \in Payloads
  PROVE  DecodeGoAwayFrame(id, payload) \in {Error} \cup GoAwayFrames
<1> SUFFICES ASSUME ~(Len(payload) < 8)
             PROVE  DecodeGoAwayFrame(id, payload) \in GoAwayFrames
  BY DEF DecodeGoAwayFrame
<1>1. payload \in Seq(Octet) /\ Len(payload) \in Nat /\ Len(payload) >= 8
  BY DEF Payloads
<1>2. Bytes(payload, 0, 4) \in Seq(Octet) /\ Len(Bytes(payload, 0, 4)) = 4
  BY <1>1 DEF Bytes
<1>3. Bytes(payload, 4, 8) \in Seq(Octet) /\ Len(Bytes(payload, 4, 8)) = 4
  BY <1>1 DEF Bytes
<1> QED
  BY <1>2, <1>3, Numbers31 DEF DecodeGoAwayFrame, GoAwayFrames

LEMMA WindowUpdateDecoded ==
  ASSUME NEW id \in Ids, NEW payload \in Payloads
  PROVE  DecodeWindowUpdateFrame(id, payload) \in {Error} \cup WindowUpdateFrames
<1> SUFFICES ASSUME ~(Len(payload) < 4)
             PROVE  DecodeWindowUpdateFrame(id, payload) \in WindowUpdateFrames
  BY DEF DecodeWindowUpdateFrame
<1>1. payload \in Seq(Octet) /\ Len(payload) \in Nat /\ Len(payload) >= 4
  BY DEF Payloads
<1>2. Bytes(payload, 0, 4) \in Seq(Octet) /\ Len(Bytes(payload, 0, 4)) = 4
  BY <1>1 DEF Bytes
<1> QED
  BY <1>2, Numbers31 DEF DecodeWindowUpdateFrame, WindowUpdateFrames

LEMMA PingDecoded ==
  ASSUME NEW flags, NEW id \in Ids, NEW payload \in Payloads
  PROVE  DecodePingFrame(flags, id, payload) \in {Error} \cup PingFrames
<1> SUFFICES ASSUME id = 0, Len(payload) = 8
             PROVE  DecodePingFrame(flags, id, payload) \in PingFrames
  BY DEF DecodePingFrame
<1>1. Sized(Octet, payload, 8)
  BY DEF Payloads, Sized
<1>2. Sized(Octet, Bytes(payload, 0, 4), 4)
  BY <1>1, FirstPart, 4 \in Nat, 4 <= 8
<1>3. Sized(Octet, Bytes(payload, 4, 8), 4)
  <2>1. Bytes(payload, 4, 8) = BytesFrom(payload, 4)
    BY <1>1 DEF Sized, Bytes, BytesFrom
  <2> QED
    BY <1>1, <2>1, Rest, 4 \in Nat, 4 + 4 = 8
<1>4. Uint32(Bytes(payload, 0, 4)) \in Words /\ Uint32(Bytes(payload, 4, 8)) \in Words
  BY <1>2, <1>3, Numbers31 DEF Sized
<1> QED
  BY <1>4 DEF DecodePingFrame, PingFrames, IsSet

LEMMA PushPromiseDecoded ==
  ASSUME NEW flags, NEW id \in Ids, NEW payload \in Payloads
  PROVE  DecodePushPromiseFrame(flags, id, payload) \in {Error, Panic} \cup PushPromiseFrames
<1>1. CASE AfterPadding(flags, payload) \in {Error, Panic}
  BY <1>1 DEF DecodePushPromiseFrame, Failed, Error, Panic
<1>2. ASSUME NEW data \in Payloads, AfterPadding(flags, payload) = Octets(data)
      PROVE  DecodePushPromiseFrame(flags, id, payload) \in {Error, Panic} \cup PushPromiseFrames
  <2> DEFINE block == BytesFrom(data, 4)
             fields == DecodeFull(Octets(block))
             promised == Uint32IgnoreFirstBit(Bytes(data, 0, 4))
  <2>1. DecodePushPromiseFrame(flags, id, payload) =
          IF Len(data) < 4 THEN Panic
          ELSE IF Failed(fields) THEN fields
          ELSE [type |-> "PUSH_PROMISE", id |-> id, headers |-> fields.data,
                promisedId |-> promised, endHeaders |-> IsSet(END_HEADERS, flags)]
    BY <1>2 DEF DecodePushPromiseFrame, Failed, Octets
  <2>2. SUFFICES ASSUME ~(Len(data) < 4)
                 PROVE  DecodePushPromiseFrame(flags, id, payload) \in {Error} \cup PushPromiseFrames
    BY <2>1
  <2>3. data \in Seq(Octet) /\ Len(data) \in Sizes /\ Len(data) >= 4
    BY <2>2 DEF Payloads, Sizes
  <2>4. Bytes(data, 0, 4) \in Seq(Octet) /\ Len(Bytes(data, 0, 4)) = 4
    BY <2>3 DEF Bytes
  <2>5. promised \in Ids
    BY <2>4, Numbers31
  <2>6. block \in Seq(Octet) /\ 4 + Len(block) = Len(data)
    <3>1. Len(data) - 4 \in Nat /\ Len(data) = 4 + (Len(data) - 4)
      BY <2>3 DEF Sizes
    <3>2. Sized(Octet, data, 4 + (Len(data) - 4))
      BY <2>3, <3>1 DEF Sized
    <3>3. Sized(Octet, block, Len(data) - 4)
      BY <3>1, <3>2, Rest, 4 \in Nat
    <3> QED
      BY <3>1, <3>3 DEF Sized
  <2>7. block \in Payloads
    BY <2>3, <2>6 DEF Payloads, Sizes
  <2> HIDE DEF block, promised
  <2>8. CASE fields = Error
    BY <2>1, <2>2, <2>8 DEF Failed, Error
  <2>9. ASSUME NEW headers \in Seq(Fields), Len(headers) = Len(block), fields = Octets(headers)
        PROVE  DecodePushPromiseFrame(flags, id, payload) \in PushPromiseFrames
    <3>1. headers \in Blocks /\ 4 + Len(headers) \in Sizes
      BY <2>3, <2>6, <2>7, <2>9 DEF Payloads, Blocks
    <3>2. ~Failed(fields) /\ fields.data = headers
      BY <2>9 DEF Failed, Octets
    <3> HIDE DEF fields
    <3> QED
      BY <2>1, <2>2, <2>5, <3>1, <3>2 DEF PushPromiseFrames, IsSet
  <2> QED
    BY <2>7, <2>8, <2>9, BlockDecoded
<1> QED
  BY <1>1, <1>2, PaddingTaken

(* Max of the community modules chooses a member of the set, if the set has *)
(* a largest one: which it has below a bound.                               *)
LEMMA SmallestOf ==
  ASSUME NEW S \in SUBSET Nat, S # {}
  PROVE  \E m \in S : \A n \in S : m <= n
<1> DEFINE R == {ss \in Nat \X Nat : ss[1] < ss[2]}
<1>1. IsWellFoundedOn(R, Nat)
  BY NatLessThanWellFounded, Zenon DEF OpToRel
<1>2. PICK m \in S : \A n \in S : ~(<<n, m>> \in R)
  <2> HIDE DEF R
  <2> QED
    BY <1>1, WFMin, Zenon
<1>3. \A n \in S : m <= n
  <2> TAKE n \in S
  <2>1. n \in Nat /\ m \in Nat /\ ~(<<n, m>> \in R)
    BY <1>2
  <2>2. ~(n < m)
    BY <2>1
  <2> QED
    BY <2>1, <2>2
<1> QED
  BY <1>3

LEMMA LargestOf ==
  ASSUME NEW n \in Int, NEW S \in SUBSET (0..n), S # {}
  PROVE  Max(S) \in S
<1> DEFINE Above == {k \in Nat : \A i \in S : i <= k}
<1>0. \A i \in S : i \in Nat /\ i <= n
  OBVIOUS
<1>1. n \in Above
  <2>1. PICK i \in S : TRUE
    OBVIOUS
  <2>2. n \in Nat
    BY <1>0, <2>1
  <2> QED
    BY <1>0, <2>2
<1>2. PICK m \in Above : \A k \in Above : m <= k
  <2> HIDE DEF Above
  <2>1. Above \in SUBSET Nat
    BY DEF Above
  <2> QED
    BY <1>1, <2>1, SmallestOf
<1>3. m \in S
  <2> SUFFICES ASSUME m \notin S PROVE FALSE
    OBVIOUS
  <2>1. \A i \in S : i \in Nat /\ i < m
    BY <1>2
  <2>2. m - 1 \in Above
    <3>1. PICK i \in S : TRUE
      OBVIOUS
    <3>2. m \in Nat /\ i \in Nat /\ i < m
      BY <1>2, <2>1, <3>1
    <3>3. m - 1 \in Nat /\ \A j \in S : j <= m - 1
      BY <2>1, <3>2
    <3> QED
      BY <3>3
  <2> QED
    BY <1>2, <2>2
<1>4. \E i \in S : \A j \in S : i >= j
  BY <1>2, <1>3
<1> QED
  BY <1>4 DEF Max

(* Of a setting that comes twice LargestOf gives the last entry.            *)
LEMMA SettingsDecoded ==
  ASSUME NEW flags, NEW id \in Ids, NEW payload \in Payloads
  PROVE  DecodeSettingsFrame(flags, id, payload) \in {Error} \cup SettingsFrames
<1> DEFINE entries    == 0 .. Len(payload) \div 6 - 1
           Setting(i) == Uint16(Bytes(payload, 6 * i, 6 * i + 2))
           Value(i)   == Uint32(Bytes(payload, 6 * i + 2, 6 * i + 6))
           ids        == {Setting(i) : i \in entries}
           LastOf(s)  == Max({i \in entries : Setting(i) = s})
           settings   == [s \in ids |-> Value(LastOf(s))]
<1>1. DecodeSettingsFrame(flags, id, payload) =
        IF Len(payload) % 6 # 0 \/ ~ids \subseteq KnownSettings THEN Error
        ELSE [type |-> "SETTINGS", id |-> id, ack |-> IsSet(ACK, flags), settings |-> settings]
  BY DEF DecodeSettingsFrame
<1> SUFFICES ASSUME Len(payload) % 6 = 0, ids \subseteq KnownSettings
             PROVE  DecodeSettingsFrame(flags, id, payload) \in SettingsFrames
  <2> HIDE DEF ids, settings
  <2> QED
    BY <1>1
<1>2. payload \in Seq(Octet) /\ Len(payload) \in Nat
  BY DEF Payloads
<1>3. \A i \in entries : Value(i) \in Words
  <2> TAKE i \in entries
  <2>1. i \in Nat /\ 6 * i + 6 <= Len(payload)
    <3> DEFINE l == Len(payload)
    <3>1. l \in Nat /\ i \in 0 .. l \div 6 - 1
      BY <1>2
    <3> HIDE DEF l
    <3>2. i \in Nat /\ 6 * i + 6 <= l
      BY <3>1
    <3> QED
      BY <3>2 DEF l
  <2> DEFINE first == 6 * i + 2
             last  == 6 * i + 6
  <2>2. first \in Nat /\ last \in Nat /\ last = first + 4 /\ last <= Len(payload)
    BY <2>1
  <2> HIDE DEF first, last
  <2>3. Bytes(payload, first, last) \in Seq(Octet) /\ Len(Bytes(payload, first, last)) = 4
    BY <1>2, <2>2 DEF Bytes
  <2>4. Uint32(Bytes(payload, first, last)) \in Words
    BY <2>3, Numbers31
  <2> QED
    BY <2>4 DEF first, last
<1>4. \A s \in ids : LastOf(s) \in entries
  <2> TAKE s \in ids
  <2> DEFINE S == {i \in entries : Setting(i) = s}
  <2>1. Len(payload) \div 6 - 1 \in Int
    BY <1>2
  <2>2. S \in SUBSET entries /\ S # {}
    OBVIOUS
  <2>3. Max(S) \in S
    <3> HIDE DEF S
    <3> QED
      BY <2>1, <2>2, LargestOf
  <2> QED
    BY <2>3
<1>5. settings \in [ids -> Words]
  <2> HIDE DEF entries, Setting, Value, LastOf
  <2> QED
    BY <1>3, <1>4
<1> HIDE DEF ids, settings
<1> QED
  BY <1>1, <1>5 DEF SettingsFrames, IsSet

(* Every frame, and every header that can stand before one.                 *)
Frames ==
  DataFrames \cup HeadersFrames \cup PriorityFrames \cup RstStreamFrames \cup SettingsFrames
    \cup PushPromiseFrames \cup PingFrames \cup GoAwayFrames \cup WindowUpdateFrames

FrameHeaders == [length : Sizes, type : Octet, flags : Octet, id : Ids]

(* DecodeHeader and the decoders, for any header and any payload that       *)
(* octets can spell: an error, a panic, or a frame all of whose fields are  *)
(* in range, so that whatever arrives can be encoded again.                 *)
THEOREM DecodesToFrames ==
  ASSUME NEW h \in FrameHeaders, NEW payload \in Payloads
  PROVE  Decode(h, payload) \in {Error, Panic} \cup Frames
<1>1. h.id \in Ids
  BY DEF FrameHeaders
<1>2. /\ DecodeDataFrame(h.flags, h.id, payload) \in {Error, Panic} \cup Frames
      /\ DecodeHeadersFrame(h.flags, h.id, payload) \in {Error, Panic} \cup Frames
      /\ DecodePriorityFrame(h.id, payload) \in {Error, Panic} \cup Frames
      /\ DecodeRstStreamFrame(h.id, payload) \in {Error, Panic} \cup Frames
      /\ DecodeSettingsFrame(h.flags, h.id, payload) \in {Error, Panic} \cup Frames
      /\ DecodePushPromiseFrame(h.flags, h.id, payload) \in {Error, Panic} \cup Frames
      /\ DecodePingFrame(h.flags, h.id, payload) \in {Error, Panic} \cup Frames
      /\ DecodeGoAwayFrame(h.id, payload) \in {Error, Panic} \cup Frames
      /\ DecodeWindowUpdateFrame(h.id, payload) \in {Error, Panic} \cup Frames
  BY <1>1, DataDecoded, HeadersDecoded, PriorityDecoded, RstStreamDecoded, SettingsDecoded,
     PushPromiseDecoded, PingDecoded, GoAwayDecoded, WindowUpdateDecoded DEF Frames
<1> QED
  BY <1>2 DEF Decode, TypeOctet

--------------------------------------------------------------------------------
(* What is encoded                                                          *)

(* A receiver that is given the octets e reads a header, finds as many      *)
(* octets after it as the header says and no more, and decodes them to f.   *)
Says(e, f) ==
  LET h == DecodeHeader(SubSeq(e, 1, HeaderSize))
  IN  h \in FrameHeaders /\ Sized(Octet, e, 9 + h.length) /\ Decode(h, BytesFrom(e, HeaderSize)) = f

(* Encode writes the header for the payload: it is enough that the decoder  *)
(* of the type reads f in the payload, with the flags.                      *)
LEMMA HeaderIsWritten ==
  ASSUME NEW f, f.type \in DOMAIN TypeOctet, f.id \in Ids, NEW flags \in Octet, NEW payload \in Payloads,
         NEW g, Decode(FrameHeader(f.type, f.id, Len(payload), flags), payload) = g
  PROVE  Says(WithHeader(f, flags, payload), g)
<1> DEFINE e == WithHeader(f, flags, payload)
           type == f.type
           id == f.id
           length == Len(payload)
           h == FrameHeader(type, id, length, flags)
<1>1. e = EncodeHeader(type, id, length, flags) \o payload
  BY DEF WithHeader
<1>2. length \in Sizes /\ Sized(Octet, payload, length)
  BY DEF Payloads, Sized
<1>3. type \in DOMAIN TypeOctet /\ id \in Ids /\ TypeOctet[type] \in Octet
  BY DEF TypeOctet, Octet
<1>4. Decode(h, payload) = g
  OBVIOUS
<1> HIDE DEF e, length, type, id
<1>5. /\ Sized(Octet, e, 9 + length) /\ DecodeHeader(SubSeq(e, 1, HeaderSize)) = h
      /\ BytesFrom(e, HeaderSize) = payload
  <2>1. LET r == EncodeHeader(type, id, length, flags) \o payload
        IN  /\ Sized(Octet, r, 9 + length)
            /\ DecodeHeader(SubSeq(r, 1, HeaderSize)) = FrameHeader(type, id, length, flags)
            /\ BytesFrom(r, HeaderSize) = payload
    BY <1>2, <1>3, HeaderRead, SMT
  <2> QED
    BY <1>1, <2>1, Zenon
<1>6. h \in FrameHeaders /\ h.length = length
  BY <1>2, <1>3 DEF FrameHeaders, FrameHeader
<1> HIDE DEF h
<1>7. Says(e, g)
  BY <1>4, <1>5, <1>6 DEF Says
<1> QED
  BY <1>7 DEF e

(* Flags that are put together are told apart again.                        *)
LEMMA FlagsRead ==
  ASSUME NEW a \in BOOLEAN, NEW b \in BOOLEAN
  PROVE  /\ Flag(ACK, a) \in Octet /\ (IsSet(ACK, Flag(ACK, a)) <=> a)
         /\ Flag(END_STREAM, a) \in Octet /\ (IsSet(END_STREAM, Flag(END_STREAM, a)) <=> a)
         /\ ~IsSet(PADDED, Flag(END_STREAM, a))
         /\ Flag(END_HEADERS, b) \in Octet /\ (IsSet(END_HEADERS, Flag(END_HEADERS, b)) <=> b)
         /\ ~IsSet(PADDED, Flag(END_HEADERS, b))
         /\ LET flags == Flag(END_STREAM, a) + Flag(END_HEADERS, b)
            IN  /\ flags \in Octet
                /\ (IsSet(END_STREAM, flags) <=> a) /\ (IsSet(END_HEADERS, flags) <=> b)
                /\ ~IsSet(PADDED, flags) /\ ~IsSet(PRIORITY, flags)
BY DEF Flag, IsSet, Octet, ACK, END_STREAM, END_HEADERS, PADDED, PRIORITY

(* Each type that is written with a header: what is encoded says the frame. *)
LEMMA DataEncoded ==
  ASSUME NEW f \in DataFrames
  PROVE  Says(EncodeDataFrame(f), f)
<1> DEFINE flags == Flag(END_STREAM, f.endStream)
           h == FrameHeader(f.type, f.id, Len(f.data), flags)
<1>1. /\ f.type = "DATA" /\ f.id \in Ids /\ f.data \in Payloads /\ f.endStream \in BOOLEAN
      /\ f = [type |-> "DATA", id |-> f.id, data |-> f.data, endStream |-> f.endStream]
  BY DEF DataFrames
<1>2. flags \in Octet /\ IsSet(END_STREAM, flags) = f.endStream /\ ~IsSet(PADDED, flags)
  BY <1>1, FlagsRead DEF IsSet
<1> HIDE DEF flags
<1>3. DecodeDataFrame(flags, f.id, f.data) =
        [type |-> "DATA", id |-> f.id, data |-> f.data, endStream |-> IsSet(END_STREAM, flags)]
  BY <1>2 DEF DecodeDataFrame, AfterPadding, Failed, Octets
<1>4. Decode(h, f.data) = DecodeDataFrame(flags, f.id, f.data)
  BY <1>1 DEF Decode, TypeOctet, FrameHeader
<1>5. Decode(h, f.data) = f
  BY <1>1, <1>2, <1>3, <1>4
<1>6. f.type \in DOMAIN TypeOctet
  BY <1>1 DEF TypeOctet
<1>7. Says(WithHeader(f, flags, f.data), f)
  BY <1>1, <1>2, <1>5, <1>6, HeaderIsWritten
<1> QED
  BY <1>7 DEF EncodeDataFrame, flags

(* Two octets may stand for the same field; the field is read again         *)
(* whichever of them the encoder chooses.                                   *)
LEMMA BlockEncoded ==
  ASSUME NEW headers \in Seq(Fields), Len(headers) \in Sizes
  PROVE  /\ EncodeHeaderBlock(headers) \in Payloads
         /\ Len(EncodeHeaderBlock(headers)) = Len(headers)
         /\ DecodeFull(Octets(EncodeHeaderBlock(headers))) = Octets(headers)
<1> DEFINE block == EncodeHeaderBlock(headers)
           n == Len(headers)
           octet(i) == CHOOSE o \in DOMAIN HeaderTable : HeaderTable[o] = headers[i]
<1>1. n \in Nat /\ DOMAIN headers = 1..n /\ n = Len(headers)
  OBVIOUS
<1>2. block = [i \in 1..n |-> octet(i)]
  BY <1>1 DEF EncodeHeaderBlock
<1>3. \A i \in 1..n : octet(i) \in DOMAIN HeaderTable /\ HeaderTable[octet(i)] = headers[i]
  <2> TAKE i \in 1..n
  <2>1. headers[i] \in Fields
    BY ElementsOf
  <2>2. PICK o \in DOMAIN HeaderTable : HeaderTable[o] = headers[i]
    BY <2>1 DEF Fields
  <2> QED
    BY <2>2
<1> HIDE DEF octet, block, n
<1>4. \A i \in 1..n : octet(i) \in Octet
  BY <1>3, TableAssumption
<1>5. block \in Seq(Octet) /\ Len(block) = n /\ DOMAIN block = 1..n
  BY <1>1, <1>2, <1>4, IsSequence
<1>6. \A i \in 1..n : block[i] \in DOMAIN HeaderTable /\ HeaderTable[block[i]] = headers[i]
  BY <1>2, <1>3
<1>7. [i \in DOMAIN block |-> HeaderTable[block[i]]] = headers
  <2>1. headers = [i \in 1..n |-> headers[i]]
    BY <1>1
  <2> QED
    BY <1>5, <1>6, <2>1
<1>8. DecodeFull(Octets(block)) = Octets(headers)
  <2>1. Octets(block).data = block /\ ~Failed(Octets(block))
    BY DEF Octets, Failed
  <2>2. ~(\E i \in DOMAIN block : block[i] \notin DOMAIN HeaderTable)
    BY <1>5, <1>6
  <2> QED
    BY <1>7, <2>1, <2>2 DEF DecodeFull
<1> QED
  BY <1>1, <1>5, <1>8 DEF Payloads, block

LEMMA PriorityCleared ==
  ASSUME NEW f \in HeadersFrames
  PROVE  [f EXCEPT !.priority = FALSE] =
           [type |-> "HEADERS", id |-> f.id, headers |-> f.headers, endStream |-> f.endStream,
            endHeaders |-> f.endHeaders, priority |-> FALSE]
<1> DEFINE g == [f EXCEPT !.priority = FALSE]
<1>1. g \in HeadersFrames
  BY DEF HeadersFrames
<1>2. /\ g.id = f.id /\ g.headers = f.headers /\ g.endStream = f.endStream
      /\ g.endHeaders = f.endHeaders /\ g.priority = FALSE
  BY DEF HeadersFrames
<1> HIDE DEF g
<1>3. g = [type |-> "HEADERS", id |-> g.id, headers |-> g.headers, endStream |-> g.endStream,
           endHeaders |-> g.endHeaders, priority |-> g.priority]
  BY <1>1 DEF HeadersFrames
<1>4. g = [type |-> "HEADERS", id |-> f.id, headers |-> f.headers, endStream |-> f.endStream,
           endHeaders |-> f.endHeaders, priority |-> FALSE]
  BY <1>2, <1>3, Zenon
<1> QED
  BY <1>4, Zenon DEF g

(* The priority is lost: EncodeHeadersFrame never writes it.                *)
LEMMA HeadersEncoded ==
  ASSUME NEW f \in HeadersFrames
  PROVE  Says(EncodeHeadersFrame(f), [f EXCEPT !.priority = FALSE])
<1> DEFINE flags == Flag(END_STREAM, f.endStream) + Flag(END_HEADERS, f.endHeaders)
           block == EncodeHeaderBlock(f.headers)
           h == FrameHeader(f.type, f.id, Len(block), flags)
           g == [type |-> "HEADERS", id |-> f.id, headers |-> f.headers, endStream |-> f.endStream,
                 endHeaders |-> f.endHeaders, priority |-> FALSE]
<1>1. /\ f.type = "HEADERS" /\ f.id \in Ids /\ f.headers \in Seq(Fields) /\ Len(f.headers) \in Sizes
      /\ f.endStream \in BOOLEAN /\ f.endHeaders \in BOOLEAN
      /\ [f EXCEPT !.priority = FALSE] = g
  <2>1. /\ f.type = "HEADERS" /\ f.id \in Ids /\ f.headers \in Blocks
        /\ f.endStream \in BOOLEAN /\ f.endHeaders \in BOOLEAN
    BY DEF HeadersFrames
  <2>2. f.headers \in Seq(Fields) /\ Len(f.headers) \in Sizes
    BY <2>1 DEF Blocks
  <2> QED
    BY <2>1, <2>2, PriorityCleared, Zenon
<1>2. /\ flags \in Octet /\ IsSet(END_STREAM, flags) = f.endStream
      /\ IsSet(END_HEADERS, flags) = f.endHeaders
      /\ IsSet(PADDED, flags) = FALSE /\ IsSet(PRIORITY, flags) = FALSE
  BY <1>1, FlagsRead DEF IsSet
<1> HIDE DEF flags
<1>3. block \in Payloads /\ DecodeFull(Octets(block)) = Octets(f.headers)
  BY <1>1, BlockEncoded
<1> HIDE DEF block
<1>4. AfterPriority(flags, AfterPadding(flags, block)) = Octets(block)
  BY <1>2 DEF AfterPadding, AfterPriority
<1>5. DecodeHeadersFrame(flags, f.id, block) = g
  <2>1. ~Failed(Octets(f.headers)) /\ Octets(f.headers).data = f.headers
    BY DEF Failed, Octets
  <2> QED
    BY <1>2, <1>3, <1>4, <2>1 DEF DecodeHeadersFrame
<1>6. Decode(h, block) = DecodeHeadersFrame(flags, f.id, block)
  BY <1>1 DEF Decode, TypeOctet, FrameHeader
<1>7. f.type \in DOMAIN TypeOctet
  BY <1>1 DEF TypeOctet
<1> HIDE DEF g
<1>8. Says(WithHeader(f, flags, block), g)
  BY <1>1, <1>2, <1>3, <1>5, <1>6, <1>7, HeaderIsWritten
<1> QED
  BY <1>1, <1>8 DEF EncodeHeadersFrame, flags, block

LEMMA WordIsPut ==
  ASSUME NEW n \in Words
  PROVE  Sized(Octet, PutUint(n, 4), 4) /\ Uint32(PutUint(n, 4)) = n
BY Numbers4 DEF Sized

LEMMA IdIsPut ==
  ASSUME NEW n \in Ids
  PROVE  Sized(Octet, PutUint(n, 4), 4) /\ Uint32IgnoreFirstBit(PutUint(n, 4)) = n
<1>1. n \in Words
  BY DEF Ids, Words
<1> QED
  BY <1>1, Numbers4, Numbers31 DEF Sized

LEMMA SizedPayload ==
  ASSUME NEW payload, NEW n \in Sizes, Sized(Octet, payload, n)
  PROVE  payload \in Payloads
BY DEF Sized, Payloads

LEMMA PushPromiseEncoded ==
  ASSUME NEW f \in PushPromiseFrames
  PROVE  Says(EncodePushPromiseFrame(f), f)
<1> DEFINE flags == Flag(END_HEADERS, f.endHeaders)
           promised == PutUint(f.promisedId, 4)
           block == EncodeHeaderBlock(f.headers)
           payload == promised \o block
           h == FrameHeader(f.type, f.id, Len(payload), flags)
           n == Len(f.headers)
<1>1. /\ f.type = "PUSH_PROMISE" /\ f.id \in Ids /\ f.headers \in Seq(Fields)
      /\ n \in Sizes /\ 4 + n \in Sizes
      /\ f.endHeaders \in BOOLEAN /\ f.promisedId \in Ids
      /\ f = [type |-> "PUSH_PROMISE", id |-> f.id, headers |-> f.headers,
              promisedId |-> f.promisedId, endHeaders |-> f.endHeaders]
  BY DEF PushPromiseFrames, Blocks
<1>2. flags \in Octet /\ IsSet(END_HEADERS, flags) = f.endHeaders /\ IsSet(PADDED, flags) = FALSE
  BY <1>1, FlagsRead DEF IsSet
<1> HIDE DEF flags
<1>3. block \in Payloads /\ Len(block) = n /\ DecodeFull(Octets(block)) = Octets(f.headers)
  BY <1>1, BlockEncoded
<1>4. Sized(Octet, block, n)
  BY <1>3 DEF Sized, Payloads
<1>5. Sized(Octet, promised, 4) /\ Uint32IgnoreFirstBit(promised) = f.promisedId
  BY <1>1, IdIsPut
<1> HIDE DEF block, promised
<1>6. Sized(Octet, payload, 4 + n)
  BY <1>4, <1>5, Joined
<1>7. Bytes(payload, 0, 4) = promised /\ BytesFrom(payload, 4) = block
  BY <1>4, <1>5, FirstTaken, SecondLeft, SMT
<1> HIDE DEF payload
<1>8. payload \in Payloads
  BY <1>1, <1>6, SizedPayload
<1>9. ~(Len(payload) < 4)
  BY <1>1, <1>6 DEF Sized, Sizes
<1>10. DecodePushPromiseFrame(flags, f.id, payload) = f
  <2>1. AfterPadding(flags, payload) = Octets(payload)
    BY <1>2 DEF AfterPadding
  <2>2. ~Failed(Octets(payload)) /\ Octets(payload).data = payload
    BY DEF Failed, Octets
  <2>3. ~Failed(Octets(f.headers)) /\ Octets(f.headers).data = f.headers
    BY DEF Failed, Octets
  <2>4. DecodePushPromiseFrame(flags, f.id, payload) =
          [type |-> "PUSH_PROMISE", id |-> f.id, headers |-> f.headers,
           promisedId |-> f.promisedId, endHeaders |-> f.endHeaders]
    BY <1>2, <1>3, <1>5, <1>7, <1>9, <2>1, <2>2, <2>3 DEF DecodePushPromiseFrame
  <2> QED
    BY <1>1, <2>4
<1>11. Decode(h, payload) = DecodePushPromiseFrame(flags, f.id, payload)
  BY <1>1 DEF Decode, TypeOctet, FrameHeader
<1>12. f.type \in DOMAIN TypeOctet
  BY <1>1 DEF TypeOctet
<1>13. Says(WithHeader(f, flags, payload), f)
  BY <1>1, <1>2, <1>8, <1>10, <1>11, <1>12, HeaderIsWritten
<1> QED
  BY <1>13 DEF EncodePushPromiseFrame, flags, payload, promised, block

LEMMA PingEncoded ==
  ASSUME NEW f \in PingFrames
  PROVE  Says(EncodePingFrame(f), f)
<1> DEFINE flags == Flag(ACK, f.ack)
           a == PutUint(f.payload[1], 4)
           b == PutUint(f.payload[2], 4)
           payload == a \o b
           h == FrameHeader(f.type, f.id, Len(payload), flags)
<1>1. /\ f.type = "PING" /\ f.id = 0 /\ f.ack \in BOOLEAN
      /\ f.payload = <<f.payload[1], f.payload[2]>>
      /\ f.payload[1] \in Words /\ f.payload[2] \in Words
      /\ f = [type |-> "PING", id |-> 0, ack |-> f.ack, payload |-> f.payload]
  BY DEF PingFrames
<1>2. flags \in Octet /\ IsSet(ACK, flags) = f.ack
  BY <1>1, FlagsRead DEF IsSet
<1> HIDE DEF flags
<1>3. /\ Sized(Octet, a, 4) /\ Uint32(a) = f.payload[1]
      /\ Sized(Octet, b, 4) /\ Uint32(b) = f.payload[2]
  BY <1>1, WordIsPut
<1> HIDE DEF a, b
<1>4. Sized(Octet, payload, 8)
  <2>1. Sized(Octet, payload, 4 + 4)
    BY <1>3, Joined
  <2> HIDE DEF payload
  <2> QED
    BY <2>1
<1>5. Bytes(payload, 0, 4) = a /\ BytesFrom(payload, 4) = b
  BY <1>3, FirstTaken, SecondLeft, SMT
<1> HIDE DEF payload
<1>6. Bytes(payload, 4, 8) = b
  BY <1>4, <1>5 DEF Sized, Bytes, BytesFrom
<1>7. Len(payload) = 8
  BY <1>4 DEF Sized
<1>8. DecodePingFrame(flags, f.id, payload) = f
  <2>1. DecodePingFrame(flags, f.id, payload) =
          [type |-> "PING", id |-> 0, ack |-> f.ack, payload |-> <<f.payload[1], f.payload[2]>>]
    BY <1>1, <1>2, <1>3, <1>5, <1>6, <1>7, Zenon DEF DecodePingFrame
  <2> QED
    BY <1>1, <2>1
<1>9. Decode(h, payload) = DecodePingFrame(flags, f.id, payload)
  BY <1>1 DEF Decode, TypeOctet, FrameHeader
<1>10. f.type \in DOMAIN TypeOctet /\ f.id \in Ids
  BY <1>1 DEF TypeOctet, Ids
<1>11. payload \in Payloads
  BY <1>4, SizedPayload, 8 \in Sizes DEF Sizes
<1>12. Says(WithHeader(f, flags, payload), f)
  BY <1>2, <1>8, <1>9, <1>10, <1>11, HeaderIsWritten
<1> QED
  BY <1>12 DEF EncodePingFrame, flags, payload, a, b

LEMMA WindowUpdateEncoded ==
  ASSUME NEW f \in WindowUpdateFrames
  PROVE  Says(EncodeWindowUpdateFrame(f), f)
<1> DEFINE payload == PutUint(f.increment, 4)
           h == FrameHeader(f.type, f.id, Len(payload), 0)
<1>1. /\ f.type = "WINDOW_UPDATE" /\ f.id \in Ids /\ f.increment \in Ids
      /\ f = [type |-> "WINDOW_UPDATE", id |-> f.id, increment |-> f.increment]
  BY DEF WindowUpdateFrames
<1>2. Sized(Octet, payload, 4) /\ Uint32IgnoreFirstBit(payload) = f.increment
  BY <1>1, IdIsPut
<1> HIDE DEF payload
<1>3. Len(payload) = 4 /\ Bytes(payload, 0, 4) = payload
  <2>1. payload \in Seq(Octet) /\ Len(payload) = 4
    BY <1>2 DEF Sized
  <2>2. Sized(Octet, Bytes(payload, 0, 4), 4) /\ Holds(payload, 0, Bytes(payload, 0, 4), 4)
    BY <1>2, FirstPart, 4 \in Nat, 4 <= 4
  <2>3. Holds(payload, 0, payload, 4)
    BY DEF Holds
  <2> QED
    BY <1>2, <2>1, <2>2, <2>3, SameSequence
<1>4. DecodeWindowUpdateFrame(f.id, payload) = f
  BY <1>1, <1>2, <1>3 DEF DecodeWindowUpdateFrame
<1>5. Decode(h, payload) = DecodeWindowUpdateFrame(f.id, payload)
  BY <1>1 DEF Decode, TypeOctet, FrameHeader
<1>6. f.type \in DOMAIN TypeOctet /\ 0 \in Octet
  BY <1>1 DEF TypeOctet, Octet
<1>7. payload \in Payloads
  BY <1>2, SizedPayload, 4 \in Sizes DEF Sizes
<1>8. Says(WithHeader(f, 0, payload), f)
  BY <1>1, <1>4, <1>5, <1>6, <1>7, HeaderIsWritten
<1> QED
  BY <1>8 DEF EncodeWindowUpdateFrame, payload

(* A part of a sequence, by its place.                                      *)
LEMMA Part ==
  ASSUME NEW S, NEW q, NEW k, Sized(S, q, k), NEW m \in Nat, NEW n \in Nat, m + n <= k
  PROVE  Sized(S, Bytes(q, m, m + n), n) /\ Holds(q, m, Bytes(q, m, m + n), n)
<1>1. q \in Seq(S) /\ Len(q) = k
  BY DEF Sized
<1>2. /\ SubSeq(q, m + 1, m + n) \in Seq(S) /\ Len(SubSeq(q, m + 1, m + n)) = n
      /\ \A i \in 1..n : SubSeq(q, m + 1, m + n)[i] = q[m + i]
  BY <1>1
<1> QED
  BY <1>2 DEF Bytes, Sized, Holds

(* An order of the settings: at most six of them, each of them once.        *)
LEMMA Ordered ==
  ASSUME NEW S \in SUBSET KnownSettings, NEW order \in Orders(S)
  PROVE  \E k \in Nat :
           /\ k <= 6 /\ Len(order) = k /\ order \in [1..k -> S]
           /\ \A i, j \in 1..k : order[i] = order[j] => i = j
           /\ \A s \in S : \E i \in 1..k : order[i] = s
<1> DEFINE k == Cardinality(S)
<1>1. k \in Nat /\ k <= 6
  <2>1. IsFiniteSet(1..6) /\ Cardinality(1..6) = 6
    <3>1. 1 \in Int /\ 6 \in Int /\ 6 - 1 + 1 = 6 /\ ~(1 > 6)
      OBVIOUS
    <3> QED
      BY <3>1, FS_Interval
  <2>2. IsFiniteSet(S) /\ Cardinality(S) <= Cardinality(1..6)
    BY <2>1, FS_Subset DEF KnownSettings
  <2>3. Cardinality(S) \in Nat
    BY <2>2, FS_CardinalityType
  <2> QED
    BY <2>1, <2>2, <2>3
<1>2. order \in Bijection(1..k, S)
  BY DEF Orders
<1> HIDE DEF k
<1>3. /\ order \in [1..k -> S]
      /\ \A i, j \in 1..k : order[i] = order[j] => i = j
      /\ \A s \in S : \E i \in 1..k : order[i] = s
  BY <1>2 DEF Bijection, Injection, Surjection, IsInjective
<1>4. Len(order) = k
  BY <1>1, <1>3, IsSequence
<1> QED
  BY <1>1, <1>3, <1>4

(* The settings are read again whatever the order of the map was, since     *)
(* none of them comes twice: the last entry of a setting is its only one.   *)
LEMMA SettingsEncoded ==
  ASSUME NEW f \in SettingsFrames, NEW order \in Orders(DOMAIN f.settings)
  PROVE  Says(EncodeSettingsFrame(f, order), f)
<1> DEFINE S == DOMAIN f.settings
           flags == Flag(ACK, f.ack)
           Entry(s) == PutUint(s, 2) \o PutUint(f.settings[s], 4)
           payload == [n \in 1 .. 6 * Len(order) |-> Entry(order[1 + (n - 1) \div 6])[1 + ((n - 1) % 6)]]
           h == FrameHeader(f.type, f.id, Len(payload), flags)
<1>1. /\ f.type = "SETTINGS" /\ f.id \in Ids /\ f.ack \in BOOLEAN
      /\ S \in SUBSET KnownSettings /\ f.settings \in [S -> Words]
      /\ f = [type |-> "SETTINGS", id |-> f.id, ack |-> f.ack, settings |-> f.settings]
  BY DEF SettingsFrames
<1>2. flags \in Octet /\ IsSet(ACK, flags) = f.ack
  BY <1>1, FlagsRead DEF IsSet
<1> HIDE DEF S, flags
<1>3. PICK k \in Nat :
        /\ k <= 6 /\ Len(order) = k /\ order \in [1..k -> S]
        /\ \A i, j \in 1..k : order[i] = order[j] => i = j
        /\ \A s \in S : \E i \in 1..k : order[i] = s
  BY <1>1, Ordered DEF S
<1>4. \A s \in S : /\ Sized(Octet, PutUint(s, 2), 2) /\ Uint16(PutUint(s, 2)) = s
                    /\ Sized(Octet, PutUint(f.settings[s], 4), 4)
                    /\ Uint32(PutUint(f.settings[s], 4)) = f.settings[s]
                    /\ Sized(Octet, Entry(s), 6)
                    /\ Holds(Entry(s), 0, PutUint(s, 2), 2)
                    /\ Holds(Entry(s), 2, PutUint(f.settings[s], 4), 4)
  <2> TAKE s \in S
  <2> DEFINE a == PutUint(s, 2)
             b == PutUint(f.settings[s], 4)
  <2>1. s \in Halves
    BY <1>1 DEF KnownSettings, Halves
  <2>2. Sized(Octet, a, 2) /\ Uint16(a) = s
    BY <2>1, Numbers2 DEF Sized
  <2>3. f.settings[s] \in Words
    BY <1>1
  <2>4. Sized(Octet, b, 4) /\ Uint32(b) = f.settings[s]
    BY <2>3, WordIsPut
  <2> HIDE DEF a, b
  <2>5. Sized(Octet, a \o b, 2 + 4) /\ Holds(a \o b, 0, a, 2) /\ Holds(a \o b, 2, b, 4)
    BY <2>2, <2>4, Joined
  <2>6. Entry(s) = a \o b
    BY DEF a, b
  <2> HIDE DEF Entry
  <2>7. Sized(Octet, Entry(s), 6)
    <3>1. 2 + 4 = 6
      OBVIOUS
    <3> QED
      BY <2>5, <2>6, <3>1
  <2>8. /\ Sized(Octet, a, 2) /\ Uint16(a) = s
        /\ Sized(Octet, b, 4) /\ Uint32(b) = f.settings[s]
        /\ Sized(Octet, Entry(s), 6)
        /\ Holds(Entry(s), 0, a, 2) /\ Holds(Entry(s), 2, b, 4)
    BY <2>2, <2>4, <2>5, <2>6, <2>7, Zenon
  <2> QED
    BY <2>8 DEF a, b
<1>5. payload = [n \in 1 .. 6 * k |-> Entry(order[1 + (n - 1) \div 6])[1 + ((n - 1) % 6)]]
  BY <1>3
<1> HIDE DEF Entry, payload
<1>6. \A n \in 1 .. 6 * k : 1 + (n - 1) \div 6 \in 1..k /\ 1 + ((n - 1) % 6) \in 1..6
  OBVIOUS
<1>7. \A s \in S, j \in 1..6 : Entry(s)[j] \in Octet
  BY <1>4, ElementsOf DEF Sized
<1>8. Sized(Octet, payload, 6 * k)
  <2>1. \A n \in 1 .. 6 * k : order[1 + (n - 1) \div 6] \in S
    BY <1>3, <1>6
  <2>2. \A n \in 1 .. 6 * k : Entry(order[1 + (n - 1) \div 6])[1 + ((n - 1) % 6)] \in Octet
    BY <1>6, <1>7, <2>1
  <2>3. payload \in [1 .. 6 * k -> Octet]
    BY <1>5, <2>2, Zenon
  <2> QED
    BY <1>3, <2>3, IsSequence DEF Sized
<1>9. \A i \in 0 .. k - 1 : Holds(payload, 6 * i, Entry(order[i + 1]), 6)
  <2> TAKE i \in 0 .. k - 1
  <2> SUFFICES ASSUME NEW j \in 1..6 PROVE payload[6 * i + j] = Entry(order[i + 1])[j]
    BY DEF Holds
  <2> DEFINE n == 6 * i + j
             place == 1 + (n - 1) \div 6
             octet == 1 + ((n - 1) % 6)
  <2>1. n \in 1 .. 6 * k /\ place = i + 1 /\ octet = j
    BY <1>3
  <2>2. payload[n] = Entry(order[place])[octet]
    <3>1. n \in 1 .. 6 * k
      BY <2>1
    <3> HIDE DEF n
    <3> QED
      BY <1>5, <3>1
  <2> HIDE DEF place, octet
  <2> QED
    BY <2>1, <2>2
<1> DEFINE entries    == 0 .. Len(payload) \div 6 - 1
           Setting(i) == Uint16(Bytes(payload, 6 * i, 6 * i + 2))
           Value(i)   == Uint32(Bytes(payload, 6 * i + 2, 6 * i + 6))
           ids        == {Setting(i) : i \in entries}
           LastOf(s)  == Max({i \in entries : Setting(i) = s})
<1>10. Len(payload) = 6 * k /\ Len(payload) % 6 = 0 /\ entries = 0 .. k - 1
  <2>1. Len(payload) = 6 * k
    BY <1>8 DEF Sized
  <2>2. (6 * k) % 6 = 0 /\ (6 * k) \div 6 = k
    OBVIOUS
  <2> QED
    BY <2>1, <2>2
<1>11. \A i \in 0 .. k - 1 : Setting(i) = order[i + 1] /\ Value(i) = f.settings[order[i + 1]]
  <2> TAKE i \in 0 .. k - 1
  <2> DEFINE s == order[i + 1]
             a == PutUint(s, 2)
             b == PutUint(f.settings[s], 4)
             m == 6 * i
  <2>1. s \in S
    BY <1>3
  <2>2. m \in Nat /\ m + 2 \in Nat /\ m + 2 <= 6 * k /\ (m + 2) + 4 <= 6 * k /\ (m + 2) + 4 = m + 6
    OBVIOUS
  <2>3. /\ Sized(Octet, a, 2) /\ Uint16(a) = s
        /\ Sized(Octet, b, 4) /\ Uint32(b) = f.settings[s]
        /\ Holds(Entry(s), 0, a, 2) /\ Holds(Entry(s), 2, b, 4)
    BY <1>4, <2>1
  <2>4. Holds(payload, m, Entry(s), 6)
    BY <1>9
  <2> HIDE DEF s, a, b, m
  <2>5. Holds(payload, m, a, 2) /\ Holds(payload, m + 2, b, 4)
    BY <2>2, <2>3, <2>4 DEF Holds
  <2>6. Sized(Octet, Bytes(payload, m, m + 2), 2) /\ Holds(payload, m, Bytes(payload, m, m + 2), 2)
    BY <1>8, <2>2, Part, 2 \in Nat
  <2>7. Bytes(payload, m, m + 2) = a
    BY <2>3, <2>5, <2>6, SameSequence, Zenon
  <2> DEFINE n == m + 2
  <2>8. n \in Nat /\ n + 4 <= 6 * k /\ Holds(payload, n, b, 4)
    BY <2>2, <2>5
  <2> HIDE DEF n
  <2>9. Sized(Octet, Bytes(payload, n, n + 4), 4) /\ Holds(payload, n, Bytes(payload, n, n + 4), 4)
    BY <1>8, <2>8, Part, 4 \in Nat
  <2>10. Bytes(payload, n, n + 4) = b
    BY <2>3, <2>8, <2>9, SameSequence, Zenon
  <2>11. Bytes(payload, m + 2, m + 6) = b
    BY <2>2, <2>10 DEF n
  <2>12. Uint16(Bytes(payload, m, m + 2)) = s /\ Uint32(Bytes(payload, m + 2, m + 6)) = f.settings[s]
    BY <2>3, <2>7, <2>11
  <2> QED
    BY <2>12 DEF m, s
<1> HIDE DEF Setting, Value, entries
<1>12. ids = S
  <2>1. \A i \in 0 .. k - 1 : order[i + 1] \in S
    BY <1>3
  <2>2. \A s \in S : \E i \in 0 .. k - 1 : order[i + 1] = s
    <3> TAKE s \in S
    <3>1. PICK i \in 1..k : order[i] = s
      BY <1>3
    <3>2. i - 1 \in 0 .. k - 1 /\ (i - 1) + 1 = i
      OBVIOUS
    <3> QED
      BY <3>1, <3>2
  <2>3. \A i \in entries : Setting(i) \in S
    BY <1>10, <1>11, <2>1
  <2>4. \A s \in S : \E i \in entries : Setting(i) = s
    BY <1>10, <1>11, <2>2
  <2> QED
    BY <2>3, <2>4, Zenon
<1>13. \A s \in S : Value(LastOf(s)) = f.settings[s]
  <2> TAKE s \in S
  <2>1. PICK i \in entries : Setting(i) = s
    BY <1>12
  <2>2. \A j \in entries : Setting(j) = s => j = i
    <3> TAKE j \in entries
    <3> HAVE Setting(j) = s
    <3>1. i \in 0 .. k - 1 /\ j \in 0 .. k - 1 /\ order[i + 1] = order[j + 1]
      BY <1>10, <1>11, <2>1
    <3>2. i + 1 \in 1..k /\ j + 1 \in 1..k
      BY <3>1
    <3>3. i + 1 = j + 1
      BY <1>3, <3>1, <3>2
    <3> QED
      BY <3>1, <3>3
  <2>3. {j \in entries : Setting(j) = s} = {i}
    BY <2>1, <2>2
  <2>4. i \in Int
    BY <1>10
  <2>5. Max({i}) = i
    BY <2>4 DEF Max
  <2>6. LastOf(s) = i
    BY <2>3, <2>5, Zenon
  <2>7. Value(i) = f.settings[order[i + 1]] /\ order[i + 1] = s
    BY <1>10, <1>11, <2>1
  <2> QED
    BY <2>6, <2>7, Zenon
<1>14. DecodeSettingsFrame(flags, f.id, payload) = f
  <2>1. [s \in ids |-> Value(LastOf(s))] = f.settings
    <3>1. f.settings = [s \in S |-> f.settings[s]]
      BY <1>1
    <3> HIDE DEF LastOf, ids
    <3> QED
      BY <1>12, <1>13, <3>1
  <2>2. ids \subseteq KnownSettings
    BY <1>1, <1>12
  <2>3. DecodeSettingsFrame(flags, f.id, payload) =
          IF Len(payload) % 6 # 0 \/ ~ids \subseteq KnownSettings THEN Error
          ELSE [type |-> "SETTINGS", id |-> f.id, ack |-> IsSet(ACK, flags),
                settings |-> [s \in ids |-> Value(LastOf(s))]]
    BY DEF DecodeSettingsFrame, entries, Setting, Value
  <2> HIDE DEF ids
  <2>4. DecodeSettingsFrame(flags, f.id, payload) =
          [type |-> "SETTINGS", id |-> f.id, ack |-> IsSet(ACK, flags), settings |-> f.settings]
    BY <1>10, <2>1, <2>2, <2>3, Zenon
  <2> QED
    BY <1>1, <1>2, <2>4, Zenon
<1>15. Decode(h, payload) = DecodeSettingsFrame(flags, f.id, payload)
  BY <1>1 DEF Decode, TypeOctet, FrameHeader
<1>16. f.type \in DOMAIN TypeOctet
  BY <1>1 DEF TypeOctet
<1>17. payload \in Payloads
  <2>1. 6 * k \in Sizes
    BY <1>3 DEF Sizes
  <2> QED
    BY <1>8, <2>1, SizedPayload
<1>18. Says(WithHeader(f, flags, payload), f)
  BY <1>1, <1>2, <1>14, <1>15, <1>16, <1>17, HeaderIsWritten
<1> QED
  BY <1>18 DEF EncodeSettingsFrame, flags, payload, Entry

(* The types that are written without a header: octets, and no more is      *)
(* said.                                                                    *)
LEMMA PriorityEncoded ==
  ASSUME NEW f \in PriorityFrames
  PROVE  EncodePriorityFrame(f) \in Seq(Octet)
<1> DEFINE id == PutUint(f.dependsOn, 4)
           first == (id[1] % 128) + Flag(128, f.exclusive)
           marked == [id EXCEPT ![1] = first]
<1>1. f.dependsOn \in Ids /\ f.exclusive \in BOOLEAN /\ f.weight \in Octet
  BY DEF PriorityFrames
<1>2. Sized(Octet, id, 4)
  BY <1>1, IdIsPut
<1> HIDE DEF id
<1>3. id \in [1..4 -> Octet]
  BY <1>2, AsFunction
<1>4. first \in Octet
  <2>1. id[1] \in Octet
    BY <1>3
  <2> QED
    BY <1>1, <2>1 DEF Octet, Flag
<1> HIDE DEF first
<1>5. marked \in [1..4 -> Octet]
  BY <1>3, <1>4
<1> HIDE DEF marked
<1>6. marked \in Seq(Octet)
  BY <1>5, IsSequence, 4 \in Nat
<1>7. <<f.weight>> \in Seq(Octet)
  BY <1>1
<1>8. marked \o <<f.weight>> \in Seq(Octet)
  BY <1>6, <1>7
<1> QED
  BY <1>8 DEF EncodePriorityFrame, marked, first, id

LEMMA RstStreamEncoded ==
  ASSUME NEW f \in RstStreamFrames
  PROVE  EncodeRstStreamFrame(f) \in Seq(Octet)
<1>1. f.errorCode \in Words
  BY DEF RstStreamFrames
<1> QED
  BY <1>1, Numbers4 DEF EncodeRstStreamFrame

LEMMA GoAwayEncoded ==
  ASSUME NEW f \in GoAwayFrames
  PROVE  EncodeGoAwayFrame(f) \in Seq(Octet)
<1> DEFINE a == PutUint(f.lastId, 4)
           b == PutUint(f.errorCode, 4)
<1>1. f.errorCode \in Words /\ f.lastId \in Ids
  BY DEF GoAwayFrames
<1>2. Sized(Octet, a, 4) /\ Sized(Octet, b, 4)
  BY <1>1, IdIsPut, WordIsPut
<1> HIDE DEF a, b
<1>3. a \o b \in Seq(Octet)
  BY <1>2, Joined DEF Sized
<1> QED
  BY <1>3 DEF EncodeGoAwayFrame, a, b

(* What a frame says after it has been encoded and decoded.                 *)
Reread(f) == IF f.type = "HEADERS" THEN [f EXCEPT !.priority = FALSE] ELSE f

(* Encode and the decoders, for every frame that can be decoded and every   *)
(* order in which Go lists its settings: what is written is octets, and for *)
(* the types that are written with a header a receiver reads the same frame *)
(* again, HEADERS without their priority, and not an octet more.            *)
THEOREM RoundTrip ==
  ASSUME NEW f \in Frames, NEW e \in Encodings(f)
  PROVE  /\ f.type \notin Headerless => Says(e, Reread(f))
         /\ e \in Seq(Octet)
<1> DEFINE Goal == /\ f.type \notin Headerless => Says(e, Reread(f))
                   /\ e \in Seq(Octet)
<1>1. \A g : Says(e, g) => e \in Seq(Octet)
  BY DEF Says, Sized
<1> SUFFICES Goal
  OBVIOUS
<1>2. CASE f \in DataFrames
  <2>1. f.type = "DATA"
    BY <1>2 DEF DataFrames
  <2>2. e = EncodeDataFrame(f) /\ Reread(f) = f
    BY <2>1 DEF Encodings, Reread
  <2> QED
    BY <1>1, <1>2, <2>2, DataEncoded
<1>3. CASE f \in HeadersFrames
  <2>1. f.type = "HEADERS"
    BY <1>3 DEF HeadersFrames
  <2>2. e = EncodeHeadersFrame(f) /\ Reread(f) = [f EXCEPT !.priority = FALSE]
    BY <2>1 DEF Encodings, Reread
  <2>3. Says(e, Reread(f))
    BY <1>3, <2>2, HeadersEncoded, Zenon
  <2> QED
    BY <1>1, <2>3
<1>4. CASE f \in PriorityFrames
  <2>1. f.type = "PRIORITY"
    BY <1>4 DEF PriorityFrames
  <2>2. e = EncodePriorityFrame(f) /\ f.type \in Headerless
    BY <2>1 DEF Encodings, Headerless
  <2> QED
    BY <1>4, <2>2, PriorityEncoded
<1>5. CASE f \in RstStreamFrames
  <2>1. f.type = "RST_STREAM"
    BY <1>5 DEF RstStreamFrames
  <2>2. e = EncodeRstStreamFrame(f) /\ f.type \in Headerless
    BY <2>1 DEF Encodings, Headerless
  <2> QED
    BY <1>5, <2>2, RstStreamEncoded
<1>6. CASE f \in SettingsFrames
  <2>1. f.type = "SETTINGS"
    BY <1>6 DEF SettingsFrames
  <2>2. Reread(f) = f /\ \E order \in Orders(DOMAIN f.settings) : e = EncodeSettingsFrame(f, order)
    BY <2>1 DEF Encodings, Reread
  <2> QED
    BY <1>1, <1>6, <2>2, SettingsEncoded
<1>7. CASE f \in PushPromiseFrames
  <2>1. f.type = "PUSH_PROMISE"
    BY <1>7 DEF PushPromiseFrames
  <2>2. e = EncodePushPromiseFrame(f) /\ Reread(f) = f
    BY <2>1 DEF Encodings, Reread
  <2> QED
    BY <1>1, <1>7, <2>2, PushPromiseEncoded
<1>8. CASE f \in PingFrames
  <2>1. f.type = "PING"
    BY <1>8 DEF PingFrames
  <2>2. e = EncodePingFrame(f) /\ Reread(f) = f
    BY <2>1 DEF Encodings, Reread
  <2> QED
    BY <1>1, <1>8, <2>2, PingEncoded
<1>9. CASE f \in GoAwayFrames
  <2>1. f.type = "GOAWAY"
    BY <1>9 DEF GoAwayFrames
  <2>2. e = EncodeGoAwayFrame(f) /\ f.type \in Headerless
    BY <2>1 DEF Encodings, Headerless
  <2> QED
    BY <1>9, <2>2, GoAwayEncoded
<1>10. CASE f \in WindowUpdateFrames
  <2>1. f.type = "WINDOW_UPDATE"
    BY <1>10 DEF WindowUpdateFrames
  <2>2. e = EncodeWindowUpdateFrame(f) /\ Reread(f) = f
    BY <2>1 DEF Encodings, Reread
  <2> QED
    BY <1>1, <1>10, <2>2, WindowUpdateEncoded
<1> QED
  BY <1>2, <1>3, <1>4, <1>5, <1>6, <1>7, <1>8, <1>9, <1>10 DEF Frames
================================================================================
