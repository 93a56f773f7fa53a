------------------------------- MODULE MCWiretap -------------------------------
(* A header block has one octet per field: 129 for :method, 65 and 66 for   *)
(* the :authority of the wiretap and of the server.                         *)
EXTENDS Wiretap, TLC

Method           == [name |-> ":method", value |-> "GET"]
AuthorityField(a) == [name |-> ":authority", value |-> a]
Table == [octet \in {65, 66, 129} |->
            CASE octet = 65 -> AuthorityField("local")
              [] octet = 66 -> AuthorityField("remote")
              [] octet = 129 -> Method]

Sample(octets, says) == [octets |-> octets, says |-> says]

(* HEADERS of stream 3 with END_STREAM, END_HEADERS, two octets of padding  *)
(* and a priority.                                                          *)
Request == Sample(
  <<0, 0, 10, 1, 45, 0, 0, 0, 3,  2,  128, 0, 0, 1, 15,  129, 65,  0, 0>>,
  [type |-> "HEADERS", id |-> 3, endStream |-> TRUE, endHeaders |-> TRUE, priority |-> TRUE,
   headers |-> <<Method, AuthorityField("local")>>])

(* DATA of stream 259 with END_STREAM and one octet of padding; the         *)
(* reserved bit of the id is set.                                           *)
Upload == Sample(<<0, 0, 5, 0, 9, 128, 0, 1, 3,  1, 7, 8, 9, 0>>,
  [type |-> "DATA", id |-> 259, data |-> <<7, 8, 9>>, endStream |-> TRUE])

(* SETTINGS with a setting that comes twice; the acknowledgement.           *)
Settings == Sample(
  <<0, 0, 18, 4, 0, 0, 0, 0, 0,  0, 4, 0, 0, 255, 255,  0, 2, 0, 0, 0, 0,  0, 4, 0, 1, 0, 0>>,
  [type |-> "SETTINGS", id |-> 0, ack |-> FALSE, settings |-> (4 :> 65536 @@ 2 :> 0)])
SettingsAck == Sample(<<0, 0, 0, 4, 1, 0, 0, 0, 0>>,
  [type |-> "SETTINGS", id |-> 0, ack |-> TRUE, settings |-> << >>])

(* DATA without END_STREAM and with nothing but padding.                    *)
Padding == Sample(<<0, 0, 3, 0, 8, 0, 0, 0, 3,  2, 0, 0>>,
  [type |-> "DATA", id |-> 3, data |-> << >>, endStream |-> FALSE])

(* The reserved bits of the promised stream and of the increment are set.   *)
PushPromise == Sample(<<0, 0, 6, 5, 4, 0, 0, 0, 3,  128, 0, 0, 2,  129, 66>>,
  [type |-> "PUSH_PROMISE", id |-> 3, promisedId |-> 2, endHeaders |-> TRUE,
   headers |-> <<Method, AuthorityField("remote")>>])
WindowUpdate == Sample(<<0, 0, 4, 8, 0, 0, 0, 0, 0,  255, 255, 255, 255>>,
  [type |-> "WINDOW_UPDATE", id |-> 0, increment |-> 2147483647])

Ping == Sample(<<0, 0, 8, 6, 1, 0, 0, 0, 0,  1, 2, 3, 4, 5, 6, 7, 8>>,
  [type |-> "PING", id |-> 0, ack |-> TRUE, payload |-> <<16909060, 84281096>>])

(* The types without a header.                                              *)
Priority == Sample(<<0, 0, 5, 2, 0, 0, 0, 0, 3,  128, 0, 0, 1, 15>>,
  [type |-> "PRIORITY", id |-> 3, dependsOn |-> 1, weight |-> 15, exclusive |-> TRUE])
RstStream == Sample(<<0, 0, 4, 3, 0, 0, 0, 0, 3,  0, 0, 0, 8>>,
  [type |-> "RST_STREAM", id |-> 3, errorCode |-> 8])
GoAway == Sample(<<0, 0, 9, 7, 0, 0, 0, 0, 0,  0, 0, 0, 3,  0, 0, 0, 0,  42>>,
  [type |-> "GOAWAY", id |-> 0, lastId |-> 3, errorCode |-> 0])

(* CONTINUATION is not known; PADDED without a pad length.                  *)
Continuation == Sample(<<0, 0, 1, 9, 4, 0, 0, 0, 3,  129>>, Error)
Short        == Sample(<<0, 0, 0, 0, 8, 0, 0, 0, 3>>, Panic)

MCSamples ==
  [out |-> {Request, Upload, RstStream, Short},
   in  |-> {Settings, SettingsAck, Padding, PushPromise, WindowUpdate, Ping,
           Priority, GoAway, Continuation}]
MCMaxFrames == [out |-> 2, in |-> 1]

ASSUME SamplesSayAssumption == SamplesSay
================================================================================
