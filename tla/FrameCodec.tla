------------------------------ MODULE FrameCodec ------------------------------
(****************************************************************************)
(* http2client/frames: from the octets of an HTTP/2 frame to a frame and    *)
(* back.  Every field is read and written as the code does it; only the     *)
(* header compression is external (golang.org/x/net/http2/hpack): a header  *)
(* block is one octet per field.                                            *)
(*                                                                          *)
(* Bound: numbers of 32 bits without a cleared first bit (error codes and   *)
(* values of settings) stay below 2^31, the largest integer of TLC.         *)
(****************************************************************************)
EXTENDS Integers, Sequences, FiniteSetsExt

CONSTANT HeaderTable   \* the header field that an octet of a header block stands for

Octet == {n \in Nat : n < 256}

ASSUME TableAssumption ==
  /\ DOMAIN HeaderTable \subseteq Octet
  /\ \A octet \in DOMAIN HeaderTable :
       HeaderTable[octet] = [name |-> HeaderTable[octet].name, value |-> HeaderTable[octet].value]

Error == [type |-> "error"]   \* the decoder returns an error
Panic == [type |-> "panic"]   \* the decoder reads beyond the payload

--------------------------------------------------------------------------------
(* Numbers and flags                                                        *)

(* binary.BigEndian                                                         *)
Uint16(b)         == 256 * b[1] + b[2]
Uint32(b)         == ((256 * b[1] + b[2]) * 256 + b[3]) * 256 + b[4]
Place             == <<1, 256, 256 * 256, 256 * 256 * 256>>
PutUint(n, width) == [i \in 1..width |-> (n \div Place[width - i + 1]) % 256]

(* The last four octets, counted from the end and zero where there are      *)
(* fewer; the first bit is cleared.                                         *)
Uint32IgnoreFirstBit(data) ==
  LET At(i) == IF Len(data) > i THEN data[Len(data) - i] ELSE 0
  IN  ((256 * (At(3) % 128) + At(2)) * 256 + At(1)) * 256 + At(0)

ACK         == 1
END_STREAM  == 1
END_HEADERS == 4
PADDED      == 8
PRIORITY    == 32

IsSet(flag, flags) == (flags \div flag) % 2 = 1
Flag(flag, isSet)  == IF isSet THEN flag ELSE 0

Bytes(data, first, last) == SubSeq(data, first + 1, last)   \* data[first:last]
BytesFrom(data, first)   == SubSeq(data, first + 1, Len(data))

--------------------------------------------------------------------------------
(* The header of a frame                                                    *)

HeaderSize == 9

TypeOctet == [DATA |-> 0, HEADERS |-> 1, PRIORITY |-> 2, RST_STREAM |-> 3, SETTINGS |-> 4,
              PUSH_PROMISE |-> 5, PING |-> 6, GOAWAY |-> 7, WINDOW_UPDATE |-> 8]

EncodeHeader(type, id, length, flags) ==
  PutUint(length, 3) \o <<TypeOctet[type], flags>> \o PutUint(id, 4)

DecodeHeader(data) ==
  [length |-> Uint32IgnoreFirstBit(Bytes(data, 0, 3)),
   type   |-> data[4],
   flags  |-> data[5],
   id     |-> Uint32IgnoreFirstBit(Bytes(data, 5, 9))]

--------------------------------------------------------------------------------
(* Decoding.  What is left of a payload, step by step, is Octets, or Error  *)
(* or Panic from the step that failed.                                      *)

Octets(data) == [type |-> "octets", data |-> data]
Failed(rest) == rest.type # "octets"

AfterPadding(flags, payload) ==
  IF ~IsSet(PADDED, flags)            THEN Octets(payload)
  ELSE IF payload = << >>             THEN Panic
  ELSE IF Len(payload) <= payload[1]  THEN Error
  ELSE Octets(Bytes(payload, 1, Len(payload) - payload[1]))

AfterPriority(flags, rest) ==
  IF Failed(rest) \/ ~IsSet(PRIORITY, flags) THEN rest
  ELSE IF Len(rest.data) <= 5 THEN Error
  ELSE Octets(BytesFrom(rest.data, 5))

(* The fields of a header block take the place of its octets.               *)
DecodeFull(block) ==
  IF Failed(block) THEN block
  ELSE IF \E i \in DOMAIN block.data : block.data[i] \notin DOMAIN HeaderTable THEN Error
  ELSE Octets([i \in DOMAIN block.data |-> HeaderTable[block.data[i]]])

DecodeDataFrame(flags, id, payload) ==
  LET rest == AfterPadding(flags, payload)
  IN  IF Failed(rest) THEN rest
      ELSE [type |-> "DATA", id |-> id, data |-> rest.data,
            endStream |-> IsSet(END_STREAM, flags)]

DecodeHeadersFrame(flags, id, payload) ==
  LET fields == DecodeFull(AfterPriority(flags, AfterPadding(flags, payload)))
  IN  IF Failed(fields) THEN fields
      ELSE [type |-> "HEADERS", id |-> id, headers |-> fields.data,
            endStream  |-> IsSet(END_STREAM, flags),
            endHeaders |-> IsSet(END_HEADERS, flags),
            priority   |-> IsSet(PRIORITY, flags)]

DecodePushPromiseFrame(flags, id, payload) ==
  LET rest   == AfterPadding(flags, payload)
      fields == DecodeFull(Octets(BytesFrom(rest.data, 4)))
  IN  IF Failed(rest) THEN rest
      ELSE IF Len(rest.data) < 4 THEN Panic
      ELSE IF Failed(fields) THEN fields
      ELSE [type |-> "PUSH_PROMISE", id |-> id, headers |-> fields.data,
            promisedId |-> Uint32IgnoreFirstBit(Bytes(rest.data, 0, 4)),
            endHeaders |-> IsSet(END_HEADERS, flags)]

(* The masked octet is 128 or 0, never 1.                                   *)
DecodePriorityFrame(id, payload) ==
  IF Len(payload) # 5 THEN Error
  ELSE [type |-> "PRIORITY", id |-> id, weight |-> payload[5],
        dependsOn |-> Uint32IgnoreFirstBit(Bytes(payload, 0, 4)),
        exclusive |-> (payload[1] \div 128) * 128 = 1]

DecodeRstStreamFrame(id, payload) ==
  IF Len(payload) # 4 THEN Error
  ELSE [type |-> "RST_STREAM", id |-> id, errorCode |-> Uint32(payload)]

KnownSettings == 1..6

(* Of a setting that comes twice the last value counts.                     *)
DecodeSettingsFrame(flags, id, payload) ==
  LET entries    == 0 .. Len(payload) \div 6 - 1
      Setting(i) == Uint16(Bytes(payload, 6 * i, 6 * i + 2))
      Value(i)   == Uint32(Bytes(payload, 6 * i + 2, 6 * i + 6))
      ids        == {Setting(i) : i \in entries}
      LastOf(s)  == Max({i \in entries : Setting(i) = s})
  IN  IF Len(payload) % 6 # 0 \/ ~ids \subseteq KnownSettings THEN Error
      ELSE [type |-> "SETTINGS", id |-> id, ack |-> IsSet(ACK, flags),
            settings |-> [s \in ids |-> Value(LastOf(s))]]

(* The 64 bits of a PING are two words.                                     *)
DecodePingFrame(flags, id, payload) ==
  IF id # 0 \/ Len(payload) # 8 THEN Error
  ELSE [type |-> "PING", id |-> id, ack |-> IsSet(ACK, flags),
        payload |-> <<Uint32(Bytes(payload, 0, 4)), Uint32(Bytes(payload, 4, 8))>>]

(* Debug data is dropped.                                                   *)
DecodeGoAwayFrame(id, payload) ==
  IF Len(payload) < 8 THEN Error
  ELSE [type |-> "GOAWAY", id |-> id, errorCode |-> Uint32(Bytes(payload, 4, 8)),
        lastId |-> Uint32IgnoreFirstBit(Bytes(payload, 0, 4))]

DecodeWindowUpdateFrame(id, payload) ==
  IF Len(payload) < 4 THEN Error
  ELSE [type |-> "WINDOW_UPDATE", id |-> id,
        increment |-> Uint32IgnoreFirstBit(Bytes(payload, 0, 4))]

(* FindDecoder and the call of what it finds.                               *)
Decode(header, payload) ==
  CASE header.type = TypeOctet.DATA         -> DecodeDataFrame(header.flags, header.id, payload)
    [] header.type = TypeOctet.HEADERS      -> DecodeHeadersFrame(header.flags, header.id, payload)
    [] header.type = TypeOctet.PRIORITY     -> DecodePriorityFrame(header.id, payload)
    [] header.type = TypeOctet.RST_STREAM   -> DecodeRstStreamFrame(header.id, payload)
    [] header.type = TypeOctet.SETTINGS     -> DecodeSettingsFrame(header.flags, header.id, payload)
    [] header.type = TypeOctet.PUSH_PROMISE -> DecodePushPromiseFrame(header.flags, header.id, payload)
    [] header.type = TypeOctet.PING         -> DecodePingFrame(header.flags, header.id, payload)
    [] header.type = TypeOctet.GOAWAY       -> DecodeGoAwayFrame(header.id, payload)
    [] header.type = TypeOctet.WINDOW_UPDATE -> DecodeWindowUpdateFrame(header.id, payload)
    [] OTHER                                -> Error

--------------------------------------------------------------------------------
(* Encoding.  Padding and priority are not written.                         *)

WithHeader(f, flags, payload) == EncodeHeader(f.type, f.id, Len(payload), flags) \o payload

EncodeHeaderBlock(headers) ==
  [i \in DOMAIN headers |-> CHOOSE octet \in DOMAIN HeaderTable : HeaderTable[octet] = headers[i]]

EncodeDataFrame(f) == WithHeader(f, Flag(END_STREAM, f.endStream), f.data)

EncodeHeadersFrame(f) ==
  WithHeader(f, Flag(END_STREAM, f.endStream) + Flag(END_HEADERS, f.endHeaders),
             EncodeHeaderBlock(f.headers))

EncodePushPromiseFrame(f) ==
  WithHeader(f, Flag(END_HEADERS, f.endHeaders),
             PutUint(f.promisedId, 4) \o EncodeHeaderBlock(f.headers))

EncodePingFrame(f) ==
  WithHeader(f, Flag(ACK, f.ack), PutUint(f.payload[1], 4) \o PutUint(f.payload[2], 4))

EncodeWindowUpdateFrame(f) == WithHeader(f, 0, PutUint(f.increment, 4))

(* The settings of the map in the order in which Go happens to list them.   *)
Orders(S) == Bijection(1 .. Cardinality(S), S)

EncodeSettingsFrame(f, order) ==
  LET Entry(s) == PutUint(s, 2) \o PutUint(f.settings[s], 4)
  IN  WithHeader(f, Flag(ACK, f.ack),
        [n \in 1 .. 6 * Len(order) |-> Entry(order[1 + (n - 1) \div 6])[1 + ((n - 1) % 6)]])

(* No header is written for these three.                                    *)
EncodePriorityFrame(f) ==
  LET id == PutUint(f.dependsOn, 4)
  IN  [id EXCEPT ![1] = (@ % 128) + Flag(128, f.exclusive)] \o <<f.weight>>
EncodeRstStreamFrame(f) == PutUint(f.errorCode, 4)
EncodeGoAwayFrame(f)    == PutUint(f.lastId, 4) \o PutUint(f.errorCode, 4)

Headerless == {"PRIORITY", "RST_STREAM", "GOAWAY"}

(* What Encode may return for a frame.                                      *)
Encodings(f) ==
  CASE f.type = "DATA"          -> {EncodeDataFrame(f)}
    [] f.type = "HEADERS"       -> {EncodeHeadersFrame(f)}
    [] f.type = "PRIORITY"      -> {EncodePriorityFrame(f)}
    [] f.type = "RST_STREAM"    -> {EncodeRstStreamFrame(f)}
    [] f.type = "SETTINGS"      -> {EncodeSettingsFrame(f, order) : order \in Orders(DOMAIN f.settings)}
    [] f.type = "PUSH_PROMISE"  -> {EncodePushPromiseFrame(f)}
    [] f.type = "PING"          -> {EncodePingFrame(f)}
    [] f.type = "GOAWAY"        -> {EncodeGoAwayFrame(f)}
    [] f.type = "WINDOW_UPDATE" -> {EncodeWindowUpdateFrame(f)}
================================================================================
