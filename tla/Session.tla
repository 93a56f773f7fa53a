-------------------------------- MODULE Session --------------------------------
(****************************************************************************)
(* A connection and the server at its other end, which keeps windows of its *)
(* own.  Connection.tla lets the server send any frame at any time; here    *)
(* every step of the connection is one of Connection.tla's actions joined   *)
(* with the frames it reads from and writes to the network: a queue in each *)
(* direction that loses and reorders nothing (TLS over TCP).                *)
(*                                                                          *)
(* The server announces its initial window once, counts what it receives    *)
(* and gives it back in portions of at least Quantum, and answers requests  *)
(* whenever it likes, with padding if it likes.  It is the counterpart that *)
(* the counters of the code are written for; it is not code of this         *)
(* repository.                                                              *)
(****************************************************************************)
EXTENDS Connection

CONSTANTS
  Quantum,        \* the server gives window back in portions of at least this
  ResponseSize,   \* bytes in the response to a request without a body
  ReceiptSize,    \* bytes in the response to a request with a body
  Pads            \* bytes of padding, with its length, in a DATA frame

(* The server gives window back before a stream or the connection has less  *)
(* left than one frame and one byte.                                        *)
ASSUME QuantumAssumption ==
  /\ Quantum \in Nat \ {0}
  /\ \A w \in WindowSizes \cup {DefaultWindow} : Quantum + DefaultFrameSize <= w
ASSUME ResponseAssumption ==
  /\ ResponseSize \in Nat /\ ReceiptSize \in Nat
  /\ Pads \subseteq Nat
  /\ 0 \in Pads
  /\ 1 \in DataSizes

VARIABLES
  up,         \* frames on their way to the server
  down,       \* frames on their way to the client
  announced,  \* the initial window of the server's SETTINGS, sent at most once
  acked,      \* the server has received the acknowledgement of its SETTINGS
  recv,       \* what the server is ready to receive, by stream; 0 for all
  owed,       \* what it has received and not given back yet
  send,       \* what the server may send
  request,    \* "none", "open" or "ended", as the server sees it
  response,   \* likewise
  left,       \* what the server has still to send of each response
  early,      \* history: streams opened before the SETTINGS were handled
  padding     \* history: padding the client has received

network     == <<up, down>>
serverVars  == <<announced, acked, recv, owed, send, request, response, left>>
history     == <<early, padding>>
sessionVars == <<vars, network, serverVars, history>>

Windows == {0} \cup StreamIds
NotAnnounced == -1

SessionInit ==
  /\ Init
  /\ up = << >>
  /\ down = << >>
  /\ announced = NotAnnounced
  /\ acked = FALSE
  /\ recv = [k \in Windows |-> DefaultWindow]
  /\ owed = [k \in Windows |-> 0]
  /\ send = [k \in Windows |-> DefaultWindow]
  /\ request = [id \in StreamIds |-> "none"]
  /\ response = [id \in StreamIds |-> "none"]
  /\ left = [id \in StreamIds |-> 0]
  /\ early = {}
  /\ padding = [k \in Windows |-> 0]

--------------------------------------------------------------------------------
(* Frames                                                                   *)

Headers(id, end)         == [type |-> "HEADERS", id |-> id, end |-> end]
Data(id, size, pad, end) == [type |-> "DATA", id |-> id, size |-> size, pad |-> pad, end |-> end]
WindowUpdate(k, size)    == [type |-> "WINDOW_UPDATE", id |-> k, size |-> size]
InitialWindow(size)      == [type |-> "SETTINGS", size |-> size]
Ack                      == [type |-> "ACK"]

(* The DATA that a step has sent on stream id; consecutive frames are one   *)
(* entry of the queue.                                                      *)
DataSent(id) ==
  LET n == wire'[id].out - wire[id].out
  IN  IF n > 0 THEN <<Data(id, n, 0, wire'[id].outEnd)>> ELSE << >>

(* flowControlForIncomingDataFrame writes what the window has grown by.     *)
Refill(k, before, size, after) ==
  IF before - size < Threshold THEN <<WindowUpdate(k, after - (before - size))>>
  ELSE << >>

--------------------------------------------------------------------------------
(* The client                                                               *)

(* The server's SETTINGS are not handled yet.                               *)
Unsettled == announced = NotAnnounced \/ \E k \in DOMAIN down : down[k].type = "SETTINGS"

(* Bound: a GET and a POST without a body make no difference here.          *)
ClientRequests(c, req, body, id) ==
  /\ req.method = "POST" => body > 0
  /\ DoRequest(c, req, body, id)
  /\ up' = up \o <<Headers(id, body = 0)>> \o DataSent(id)
  /\ early' = IF Unsettled THEN early \cup {id} ELSE early
  /\ UNCHANGED <<down, serverVars, padding>>

ClientFlushes(id) ==
  /\ FlushNext(id)
  /\ up' = up \o DataSent(id)
  /\ UNCHANGED <<down, serverVars, history>>

(* Fault: the new window is forgotten as soon as it is acknowledged.        *)
AcknowledgeOnly(frame) ==
  /\ HandleSettings(settings.serverFrameSize, settings.initialSendWindow)
  /\ up' = Append(up, Ack)
  /\ UNCHANGED padding

(* SETTINGS without ACK are acknowledged.                                   *)
ClientHandlesSettings(frame) ==
  /\ HandleSettings(settings.serverFrameSize, frame.size)
  /\ up' = Append(up, Ack)
  /\ UNCHANGED padding

ClientHandlesWindowUpdate(frame) ==
  /\ \/ /\ frame.id = 0
        /\ HandleWindowUpdate(frame.size)
        /\ UNCHANGED up
     \/ /\ frame.id # 0
        /\ HandleStreamWindowUpdate(frame.id, frame.size)
        /\ up' = up \o DataSent(frame.id)
  /\ UNCHANGED padding

ClientHandlesHeaders(frame) ==
  /\ HandleHeaders(frame.id, frame.end, TRUE)
  /\ UNCHANGED <<up, padding>>

(* Fault: the window of the stream is filled up without a word.             *)
RefillConnectionOnly(frame) ==
  /\ HandleData(frame.id, frame.size, frame.end)
  /\ up' = up \o Refill(0, recvWindow, frame.size, recvWindow')
  /\ padding' = [padding EXCEPT ![0] = @ + frame.pad, ![frame.id] = @ + frame.pad]

(* The payload is counted without its padding.                              *)
ClientHandlesData(frame) ==
  LET id == frame.id
  IN  /\ HandleData(id, frame.size, frame.end)
      /\ up' = up \o Refill(0, recvWindow, frame.size, recvWindow')
                  \o Refill(id, streams[id].recvWindow, frame.size, streams'[id].recvWindow)
      /\ padding' = [padding EXCEPT ![0] = @ + frame.pad, ![id] = @ + frame.pad]

ClientHandlesFrame ==
  /\ down # << >>
  /\ LET frame == Head(down)
     IN  \/ frame.type = "SETTINGS"      /\ ClientHandlesSettings(frame)
         \/ frame.type = "WINDOW_UPDATE" /\ ClientHandlesWindowUpdate(frame)
         \/ frame.type = "HEADERS"       /\ ClientHandlesHeaders(frame)
         \/ frame.type = "DATA"          /\ ClientHandlesData(frame)
  /\ down' = Tail(down)
  /\ UNCHANGED <<serverVars, early>>

--------------------------------------------------------------------------------
(* The server                                                               *)

ServerSendsFrame(frame) ==
  /\ down' = Append(down, frame)
  /\ UNCHANGED <<vars, up, acked, request, history>>

(* The first frame the server sends; requests may be faster.                *)
Announce(window) ==
  /\ announced = NotAnnounced
  /\ announced' = window
  /\ ServerSendsFrame(InitialWindow(window))
  /\ UNCHANGED <<recv, owed, send, response, left>>

(* A portion of window is given back, on a stream while the request lasts.  *)
GiveBack(k) ==
  /\ announced # NotAnnounced
  /\ owed[k] >= Quantum
  /\ k # 0 => request[k] = "open"
  /\ owed' = [owed EXCEPT ![k] = 0]
  /\ recv' = [recv EXCEPT ![k] = @ + owed[k]]
  /\ ServerSendsFrame(WindowUpdate(k, owed[k]))
  /\ UNCHANGED <<announced, send, response, left>>

Respond(id) ==
  /\ announced # NotAnnounced
  /\ request[id] # "none" /\ response[id] = "none"
  /\ response' = [response EXCEPT ![id] = IF left[id] = 0 THEN "ended" ELSE "open"]
  /\ ServerSendsFrame(Headers(id, left[id] = 0))
  /\ UNCHANGED <<announced, recv, owed, send, left>>

RespondWithData(id, size, pad) ==
  /\ response[id] = "open"
  /\ size <= left[id]
  /\ size + pad <= send[id] /\ size + pad <= send[0]
  /\ left' = [left EXCEPT ![id] = @ - size]
  /\ send' = [send EXCEPT ![id] = @ - size - pad, ![0] = @ - size - pad]
  /\ response' = [response EXCEPT ![id] = IF size = left[id] THEN "ended" ELSE @]
  /\ ServerSendsFrame(Data(id, size, pad, size = left[id]))
  /\ UNCHANGED <<announced, recv, owed>>

(* The window of a stream opened before the acknowledgement is adjusted by  *)
(* the difference when the acknowledgement comes (RFC 7540, 6.9.2).         *)
ServerReceivesAck ==
  /\ acked' = TRUE
  /\ recv' = [k \in Windows |->
                IF k # 0 /\ request[k] # "none"
                THEN recv[k] + announced - DefaultWindow ELSE recv[k]]
  /\ UNCHANGED <<owed, send, request, left>>

ServerReceivesHeaders(frame) ==
  /\ request' = [request EXCEPT ![frame.id] = IF frame.end THEN "ended" ELSE "open"]
  /\ recv' = [recv EXCEPT ![frame.id] = IF acked THEN announced ELSE DefaultWindow]
  /\ left' = [left EXCEPT ![frame.id] = IF frame.end THEN ResponseSize ELSE ReceiptSize]
  /\ UNCHANGED <<acked, owed, send>>

ServerReceivesData(frame) ==
  /\ recv' = [recv EXCEPT ![0] = @ - frame.size, ![frame.id] = @ - frame.size]
  /\ owed' = [owed EXCEPT ![0] = @ + frame.size, ![frame.id] = @ + frame.size]
  /\ request' = [request EXCEPT ![frame.id] = IF frame.end THEN "ended" ELSE @]
  /\ UNCHANGED <<acked, send, left>>

ServerReceivesWindowUpdate(frame) ==
  /\ send' = [send EXCEPT ![frame.id] = @ + frame.size]
  /\ UNCHANGED <<acked, recv, owed, request, left>>

ServerReceives ==
  /\ up # << >>
  /\ LET frame == Head(up)
     IN  \/ frame.type = "ACK"           /\ ServerReceivesAck
         \/ frame.type = "HEADERS"       /\ ServerReceivesHeaders(frame)
         \/ frame.type = "DATA"          /\ ServerReceivesData(frame)
         \/ frame.type = "WINDOW_UPDATE" /\ ServerReceivesWindowUpdate(frame)
  /\ up' = Tail(up)
  /\ UNCHANGED <<vars, down, announced, response, history>>

--------------------------------------------------------------------------------
ServerResponds(id) ==
  \/ Respond(id)
  \/ \E size \in DataSizes \ {0}, pad \in Pads : RespondWithData(id, size, pad)

SessionNext ==
  \/ \E c \in Cmds, req \in Requests, body \in BodySizes \cup {0}, id \in StreamIds :
       ClientRequests(c, req, body, id)
  \/ ClientHandlesFrame
  \/ \E id \in toFlush : ClientFlushes(id)
  \/ \E window \in WindowSizes : Announce(window)
  \/ \E k \in Windows : GiveBack(k)
  \/ \E id \in StreamIds : ServerResponds(id)
  \/ ServerReceives

(* The frame reader and the event loop get through what arrives, TCP        *)
(* delivers, and the server announces its window, gives window back and     *)
(* goes on with every response.                                             *)
SessionFairness ==
  /\ WF_sessionVars(ClientHandlesFrame)
  /\ WF_sessionVars(\E id \in toFlush : ClientFlushes(id))
  /\ WF_sessionVars(ServerReceives)
  /\ WF_sessionVars(\E window \in WindowSizes : Announce(window))
  /\ \A k \in Windows : WF_sessionVars(GiveBack(k))
  /\ \A id \in StreamIds : WF_sessionVars(ServerResponds(id))

SessionSpec == SessionInit /\ [][SessionNext]_sessionVars /\ SessionFairness

--------------------------------------------------------------------------------
(* Properties                                                               *)

SumOf(sizes) ==
  LET sum[n \in 0 .. Len(sizes)] == IF n = 0 THEN 0 ELSE sum[n - 1] + sizes[n]
  IN  sum[Len(sizes)]

(* What a frame takes from window k, and what it adds to it.                *)
Takes(frame, k) ==
  IF frame.type = "DATA" /\ k \in {0, frame.id} THEN frame.size + frame.pad ELSE 0

Grants(frame, k) ==
  IF frame.type = "WINDOW_UPDATE" /\ frame.id = k THEN frame.size ELSE 0

DataIn(queue, k)   == SumOf([n \in DOMAIN queue |-> Takes(queue[n], k)])
GrantsIn(queue, k) == SumOf([n \in DOMAIN queue |-> Grants(queue[n], k)])

(* The client does not adjust the window of a stream it opened before it    *)
(* had handled the SETTINGS; the server does (handleSettingsFrame, TODO).   *)
Drift(id) == IF id \in early /\ acked THEN announced - DefaultWindow ELSE 0

(* What the client thinks it may send is what the server thinks it may get, *)
(* but for the frames on their way, on the connection and on each stream;   *)
(* only a stream opened before the SETTINGS were handled drifts             *)
(* (DecreaseSendFlowControlWindow, receiveWindowUpdateFrame,                *)
(* handleSettingsFrame).                                                    *)
UploadWindowsAgree ==
  /\ sendWindow = recv[0] - GrantsIn(down, 0) - DataIn(up, 0)
  /\ \A id \in Known : request[id] # "none" =>
       streams[id].sendWindow = recv[id] - Drift(id) - GrantsIn(down, id) - DataIn(up, id)

(* The client's receive windows are what the server may send, but for the   *)
(* frames on their way and for padding, which the client never gives back   *)
(* (flowControlForIncomingDataFrame counts len(frame.Data)).                *)
DownloadWindowsAgree ==
  /\ recvWindow = send[0] + DataIn(down, 0) + GrantsIn(up, 0) + padding[0]
  /\ \A id \in Known :
       streams[id].recvWindow = send[id] + DataIn(down, id) + GrantsIn(up, id) + padding[id]

(* The server is never sent more than it is ready to receive, except on a   *)
(* stream that was opened before SETTINGS with a smaller window came.       *)
ServerNotOverrun ==
  \A k \in Windows : recv[k] >= 0 \/ (k \in early /\ announced < DefaultWindow)

(* Every request body arrives: the client never waits for window that the   *)
(* server sees no reason to give back, although a frame needs one byte more *)
(* than its size (RemainingSendFlowControlWindowIsEnough).                  *)
UploadsFinish == \A id \in StreamIds : request[id] = "open" ~> request[id] = "ended"

(* The upload of c ended after its response, with a DATA frame that left in *)
(* the round of a WINDOW_UPDATE of the connection: nobody completes c.      *)
ClosedInSilence(c) == \E id \in Known : streams[id].cmd = c /\ wire[id].late

(* Every command handed over is answered, a GET and a POST whichever of the *)
(* two sides ends first, unless the stream was closed in silence or padding *)
(* has eaten up the window: the client gives window back in time for every  *)
(* download, and both sides' ends meet.                                     *)
RequestsAnswered ==
  \A c \in Cmds :
    c \notin fresh ~> (result[c] # << >> \/ ClosedInSilence(c) \/ padding[0] >= Threshold)
================================================================================
