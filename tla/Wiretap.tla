-------------------------------- MODULE Wiretap --------------------------------
(****************************************************************************)
(* h2c wiretap (cli/wiretap/wiretap.go): one connection from a client that  *)
(* is forwarded, frame by frame, over a second connection to a server.  The *)
(* goroutine of each direction decodes a frame, replaces its :authority,    *)
(* hands it to the goroutine that dumps frames, over a channel without a    *)
(* buffer, and encodes it again.  Octets are those of FrameCodec.tla.       *)
(*                                                                          *)
(* The two peers send the frames of Samples, laid out as RFC 7540 has it,   *)
(* and read what arrives one frame at a time.  They are not code of this    *)
(* repository.                                                              *)
(****************************************************************************)
EXTENDS FrameCodec

CONSTANTS
  Samples,           \* the frames of each direction: their octets and what they say
  MaxFrames,         \* bound: frames sent, by direction
  Local, Remote      \* the authorities

Directions == {"out", "in"}
Ends       == {"client", "server"}
From       == [out |-> "client", in |-> "server"]
To         == [out |-> "server", in |-> "client"]
Other      == [out |-> "in", in |-> "out"]

(* The octets of one frame, whatever its payload is.                        *)
IsFrame(octets) ==
  /\ octets \in Seq(Octet)
  /\ Len(octets) >= HeaderSize
  /\ Len(octets) = HeaderSize + 65536 * octets[1] + 256 * octets[2] + octets[3]

ASSUME SamplesAssumption ==
  /\ MaxFrames \in [Directions -> Nat]
  /\ \A d \in Directions : \A s \in Samples[d] :
       DOMAIN s = {"octets", "says"} /\ IsFrame(s.octets)

(* The header compression knows :authority fields with both values.         *)
ASSUME AuthoritiesAssumption ==
  \A octet \in DOMAIN HeaderTable : \A authority \in {Local, Remote} :
    HeaderTable[octet].name = ":authority" =>
      \E other \in DOMAIN HeaderTable :
        HeaderTable[other] = [HeaderTable[octet] EXCEPT !.value = authority]

(* What the decoders read in the octets of a frame.                         *)
Meaning(octets) ==
  Decode(DecodeHeader(SubSeq(octets, 1, HeaderSize)), BytesFrom(octets, HeaderSize))

(* What the samples say is what the decoders read, for every frame that can *)
(* be forwarded with its header; a sample that no decoder accepts says      *)
(* Error or Panic.                                                          *)
SamplesSay ==
  \A d \in Directions : \A s \in Samples[d] :
    /\ s.says.type = Meaning(s.octets).type
    /\ s.says.type \notin Headerless => s.says = Meaning(s.octets)

VARIABLES
  phase,     \* of handleConnection; "failed" when it has returned an error
  fwd,       \* where forwardFrames is, in each direction
  header,    \* the header it has read
  frame,     \* the frame it holds
  tapped,    \* the wiretap's side of each connection is open
  peer,      \* the other side is open
  arriving,  \* octets on their way to the wiretap
  leaving,   \* octets on their way to the receiver
  crashed,   \* a decoder has panicked
  sent,      \* history: what each direction was given to forward
  written,   \* history: the number of frames forwarded
  dumped,    \* history: the number of frames dumped
  got,       \* history: the frames the receiver has read
  cause      \* history: what the server had read when it sent each frame

tap      == <<phase, fwd, header, frame, tapped, crashed, written, dumped>>
network  == <<arriving, leaving>>
peers    == <<peer, sent, got, cause>>
vars     == <<tap, network, peers>>

NoFrame == [type |-> "none"]

TypeOK ==
  /\ phase \in {"negotiate", "preface", "connect", "forward", "failed"}
  /\ fwd \in [Directions -> {"none", "header", "payload", "dump", "write", "ended"}]
  /\ tapped \in [Ends -> BOOLEAN] /\ peer \in [Ends -> BOOLEAN]
  /\ crashed \in BOOLEAN
  /\ \A d \in Directions : written[d] <= dumped[d] /\ dumped[d] <= Len(sent[d])

Init ==
  /\ phase = "negotiate"
  /\ fwd = [d \in Directions |-> "none"]
  /\ header = [d \in Directions |-> NoFrame]
  /\ frame = [d \in Directions |-> NoFrame]
  /\ tapped = [client |-> TRUE, server |-> FALSE]
  /\ peer = [e \in Ends |-> TRUE]
  /\ arriving = [d \in Directions |-> << >>]
  /\ leaving = [d \in Directions |-> << >>]
  /\ crashed = FALSE
  /\ sent = [d \in Directions |-> << >>]
  /\ written = [d \in Directions |-> 0]
  /\ dumped = [d \in Directions |-> 0]
  /\ got = [d \in Directions |-> << >>]
  /\ cause = << >>

--------------------------------------------------------------------------------
(* handleConnection.  A failure leaves the client's connection open.        *)

NegotiateH2Protocol ==
  /\ phase = "negotiate"
  /\ phase' \in {"preface", "failed"}
  /\ UNCHANGED <<fwd, header, frame, tapped, crashed, written, dumped, network, peers>>

ReceiveClientPreface ==
  /\ phase = "preface"
  /\ phase' \in {"connect", "failed"}
  /\ UNCHANGED <<fwd, header, frame, tapped, crashed, written, dumped, network, peers>>

(* The server may be out of reach or not speak HTTP/2.                      *)
ConnectToServer ==
  /\ phase = "connect"
  /\ \/ /\ phase' = "forward"
        /\ fwd' = [d \in Directions |-> "header"]
        /\ tapped' = [tapped EXCEPT !["server"] = TRUE]
     \/ /\ phase' = "failed"
        /\ tapped' \in {tapped, [tapped EXCEPT !["server"] = TRUE]}
        /\ UNCHANGED fwd
  /\ UNCHANGED <<header, frame, crashed, written, dumped, network, peers>>

--------------------------------------------------------------------------------
(* forwardFrames                                                            *)

(* The authority that the receiver of a direction is to see.                *)
Authority == [out |-> Remote, in |-> Local]

(* Fault: the first field only.                                             *)
FixFirstHeader(f, authority) ==
  IF f.type \in {"HEADERS", "PUSH_PROMISE"} /\ f.headers # << >>
  THEN [f EXCEPT !.headers[1].value = IF f.headers[1].name = ":authority" THEN authority ELSE @]
  ELSE f

FixAuthorityHeader(f, authority) ==
  IF f.type \in {"HEADERS", "PUSH_PROMISE"}
  THEN [f EXCEPT !.headers = [i \in DOMAIN @ |->
          IF @[i].name = ":authority" THEN [@[i] EXCEPT !.value = authority] ELSE @[i]]]
  ELSE f

(* Fault: the connection that is written to stays open.                     *)
CloseSender(d) ==
  /\ fwd' = [fwd EXCEPT ![d] = "ended"]
  /\ tapped' = [tapped EXCEPT ![From[d]] = FALSE]

(* The deferred calls of Close.                                             *)
Return(d) ==
  /\ fwd' = [fwd EXCEPT ![d] = "ended"]
  /\ tapped' = [e \in Ends |-> FALSE]

(* io.ReadFull has something to return.                                     *)
HasArrived(d, n) == tapped[From[d]] /\ Len(arriving[d]) >= n

(* Fault: what has arrived before the sender closed is not read any more.   *)
ReadFailsAtClose(d, n) == ~tapped[From[d]] \/ ~peer[From[d]]

(* It fails on a connection that the wiretap itself has closed, whatever    *)
(* has arrived on it, and at the end of what a closed sender has sent.      *)
ReadFails(d, n) ==
  \/ ~tapped[From[d]]
  \/ ~peer[From[d]] /\ Len(arriving[d]) < n

(* readNextFrame: first the header, then the payload.                       *)
ReadHeader(d) ==
  /\ fwd[d] = "header" /\ ~crashed
  /\ \/ /\ HasArrived(d, HeaderSize)
        /\ header' = [header EXCEPT ![d] = DecodeHeader(SubSeq(arriving[d], 1, HeaderSize))]
        /\ arriving' = [arriving EXCEPT ![d] = BytesFrom(@, HeaderSize)]
        /\ fwd' = [fwd EXCEPT ![d] = "payload"]
        /\ UNCHANGED tapped
     \/ /\ ReadFails(d, HeaderSize)
        /\ Return(d)
        /\ UNCHANGED <<header, arriving>>
  /\ UNCHANGED <<phase, frame, crashed, written, dumped, leaving, peers>>

ReadPayload(d) ==
  LET length == header[d].length
  IN  /\ fwd[d] = "payload" /\ ~crashed
      /\ header' = [header EXCEPT ![d] = NoFrame]
      /\ \/ /\ HasArrived(d, length)
            /\ arriving' = [arriving EXCEPT ![d] = BytesFrom(@, length)]
            /\ \E f \in {Decode(header[d], SubSeq(arriving[d], 1, length))} :
                 \/ /\ f = Panic
                    /\ crashed' = TRUE
                    /\ UNCHANGED <<fwd, frame, tapped>>
                 \/ /\ f = Error
                    /\ Return(d)
                    /\ UNCHANGED <<frame, crashed>>
                 \/ /\ f \notin {Error, Panic}
                    /\ frame' = [frame EXCEPT ![d] = FixAuthorityHeader(f, Authority[d])]
                    /\ fwd' = [fwd EXCEPT ![d] = "dump"]
                    /\ UNCHANGED <<tapped, crashed>>
         \/ /\ ReadFails(d, length)
            /\ Return(d)
            /\ UNCHANGED <<arriving, frame, crashed>>
      /\ UNCHANGED <<phase, written, dumped, leaving, peers>>

(* Fault: a forwarded frame is dumped when somebody happens to receive it.  *)
DumpOrNot(d) ==
  /\ fwd[d] = "dump" /\ ~crashed
  /\ fwd' = [fwd EXCEPT ![d] = "write"]
  /\ dumped' \in {dumped, [dumped EXCEPT ![d] = @ + 1]}
  /\ UNCHANGED <<phase, header, frame, tapped, crashed, written, network, peers>>

(* dumpFrames receives from either channel and prints before it receives    *)
(* again.                                                                   *)
DumpFrame(d) ==
  /\ fwd[d] = "dump" /\ ~crashed
  /\ fwd' = [fwd EXCEPT ![d] = "write"]
  /\ dumped' = [dumped EXCEPT ![d] = @ + 1]
  /\ UNCHANGED <<phase, header, frame, tapped, crashed, written, network, peers>>

(* conn.Write has no deadline: while the receiver has not closed its side   *)
(* it may take as long as the receiver does not read.                       *)
MayBlock(d) == fwd[d] = "write" /\ tapped[To[d]] /\ peer[To[d]]

(* A write to a receiver that has closed its side may go unnoticed; one to  *)
(* a connection that the other goroutine closes meanwhile fails.            *)
WriteFrame(d) ==
  /\ fwd[d] = "write" /\ ~crashed
  /\ \/ /\ tapped[To[d]]
        /\ \E octets \in Encodings(frame[d]) : leaving' = [leaving EXCEPT ![d] = @ \o octets]
        /\ written' = [written EXCEPT ![d] = @ + 1]
        /\ fwd' = [fwd EXCEPT ![d] = "header"]
        /\ UNCHANGED tapped
     \/ /\ ~tapped[To[d]] \/ ~peer[To[d]]
        /\ Return(d)
        /\ UNCHANGED <<leaving, written>>
  /\ frame' = [frame EXCEPT ![d] = NoFrame]
  /\ UNCHANGED <<phase, header, crashed, dumped, arriving, peers>>

--------------------------------------------------------------------------------
(* The client and the server                                                *)

PeerSends(d) ==
  /\ peer[From[d]] /\ tapped[From[d]]
  /\ phase = "forward" \/ (d = "out" /\ phase \in {"connect", "failed"})
  /\ Len(sent[d]) < MaxFrames[d]
  /\ \E s \in Samples[d] :
       /\ arriving' = [arriving EXCEPT ![d] = @ \o s.octets]
       /\ sent' = [sent EXCEPT ![d] = Append(@, s)]
  /\ cause' = IF d = "in" THEN Append(cause, Len(got["out"])) ELSE cause
  /\ UNCHANGED <<tap, leaving, peer, got>>

(* The receiver reads octets as the wiretap does, one frame at a time.      *)
FirstHeader(octets) == DecodeHeader(SubSeq(octets, 1, HeaderSize))

PeerReads(d) ==
  LET octets == leaving[d]
      size   == HeaderSize + FirstHeader(octets).length
  IN  /\ peer[To[d]]
      /\ Len(octets) >= HeaderSize /\ Len(octets) >= size
      /\ leaving' = [leaving EXCEPT ![d] = BytesFrom(@, size)]
      /\ got' = [got EXCEPT ![d] =
                  Append(@, Decode(FirstHeader(octets), SubSeq(octets, HeaderSize + 1, size)))]
      /\ UNCHANGED <<tap, arriving, peer, sent, cause>>

PeerCloses(e) ==
  /\ peer[e]
  /\ peer' = [peer EXCEPT ![e] = FALSE]
  /\ UNCHANGED <<tap, network, sent, got, cause>>

--------------------------------------------------------------------------------
HandleConnection == NegotiateH2Protocol \/ ReceiveClientPreface \/ ConnectToServer

(* Fault: a frame is dumped when it is on its way already.                  *)
WriteThenDump(d) ==
  \/ ReadHeader(d) \/ ReadPayload(d)
  \/ /\ fwd[d] = "dump" /\ ~crashed /\ tapped[To[d]]
     /\ \E octets \in Encodings(frame[d]) : leaving' = [leaving EXCEPT ![d] = @ \o octets]
     /\ fwd' = [fwd EXCEPT ![d] = "write"]
     /\ UNCHANGED <<phase, header, frame, tapped, crashed, written, dumped, arriving, peers>>
  \/ /\ fwd[d] = "write" /\ ~crashed
     /\ fwd' = [fwd EXCEPT ![d] = "header"]
     /\ dumped' = [dumped EXCEPT ![d] = @ + 1]
     /\ UNCHANGED <<phase, header, frame, tapped, crashed, written, network, peers>>

ForwardFrames(d) == ReadHeader(d) \/ ReadPayload(d) \/ DumpFrame(d) \/ WriteFrame(d)

Next ==
  \/ HandleConnection
  \/ \E d \in Directions : ForwardFrames(d) \/ PeerSends(d) \/ PeerReads(d)
  \/ \E e \in Ends : PeerCloses(e)

(* Goroutines are scheduled fairly.  The dialer has a timeout for the whole *)
(* of ConnectToServer; the handshake with the client and its preface take   *)
(* as long as the client likes, and a write as long as the receiver likes.  *)
Fairness ==
  /\ WF_vars(ConnectToServer)
  /\ \A d \in Directions : WF_vars(ForwardFrames(d) /\ ~MayBlock(d))

Spec == Init /\ [][Next]_vars /\ Fairness

--------------------------------------------------------------------------------
(* Properties                                                               *)

(* The frames of a direction up to the first that is written without a      *)
(* header: from then on the receiver is out of step.                        *)
InStep(d, n) == \A i \in 1..n : sent[d][i].says.type \notin Headerless

(* What the receiver should read for a frame: another :authority, and no    *)
(* priority.                                                                *)
Expected(d, says) ==
  LET Field(h) == [name |-> h.name, value |-> IF h.name = ":authority" THEN Authority[d] ELSE h.value]
      headers  == [i \in DOMAIN says.headers |-> Field(says.headers[i])]
  IN  CASE says.type = "HEADERS"      -> [says EXCEPT !.headers = headers, !.priority = FALSE]
        [] says.type = "PUSH_PROMISE" -> [says EXCEPT !.headers = headers]
        [] OTHER                      -> says

(* What a receiver reads is what was sent, in the same order and with       *)
(* nothing added: each frame says the same after it has been decoded and    *)
(* encoded (DecodeXFrame, Encode), however it was padded, up to the first   *)
(* frame of a type that Encode writes without a header.                     *)
ForwardedIntact ==
  \A d \in Directions :
    /\ InStep(d, Len(sent[d])) => Len(got[d]) <= Len(sent[d])
    /\ \A n \in DOMAIN got[d] \cap DOMAIN sent[d] :
         InStep(d, n) => got[d][n] = Expected(d, sent[d][n].says)

(* The dump shows causes before effects: when a frame of the server is      *)
(* dumped, all the client's frames that the server had read when it sent it *)
(* have been dumped, although two goroutines share the dumping one.  A      *)
(* server that is out of step may read more frames than there were.         *)
DumpInOrder ==
  InStep("out", dumped["out"]) => \A n \in 1..dumped["in"] : cause[n] <= dumped["out"]

(* No write of this direction is blocked for ever.                          *)
WritesReturn(d) == []<>~MayBlock(d)

(* When one side closes, the other side's connection is closed as well and  *)
(* no goroutine stays behind (the deferred calls of Close in forwardFrames).*)
(* The exception: a goroutine that is blocked for ever in conn.Write, by a  *)
(* receiver that neither reads nor closes, keeps itself, and the other one  *)
(* in its read.                                                             *)
BothSidesEnd ==
  (\A d \in Directions : WritesReturn(d)) =>
    \A e \in Ends :
      (phase = "forward" /\ ~peer[e]) ~>
        (crashed \/ ((\A d \in Directions : fwd[d] = "ended") /\ (\A f \in Ends : ~tapped[f])))

Undecodable(d, n) == \E i \in 1..n : sent[d][i].says = Error

(* The goroutine of the other direction has closed both connections first:  *)
(* for a frame that it could not decode, or because the frame it held could *)
(* not be written to the sender of this direction, who has closed.          *)
ClosedByOther(d) ==
  /\ fwd[Other[d]] = "ended" /\ fwd[d] # "ended"
  /\ Undecodable(Other[d], Len(sent[Other[d]])) \/ ~peer[From[d]]

(* Every frame that is sent is forwarded, the last ones before its sender   *)
(* closes included (readNextFrame reads all that has arrived).  A frame is  *)
(* lost only if the process crashes, no server can be connected to, its     *)
(* receiver has closed or never reads, it or one before it in its direction *)
(* cannot be decoded, or the other goroutine has closed both connections    *)
(* with the frame still unread.                                             *)
EverythingForwarded ==
  \A d \in Directions : \A n \in 1..MaxFrames[d] :
    WritesReturn(d) /\ <>(Len(sent[d]) >= n) =>
      <>(\/ written[d] >= n
         \/ crashed \/ phase = "failed"
         \/ ~peer[To[d]]
         \/ Len(sent[d]) >= n /\ Undecodable(d, n)
         \/ ClosedByOther(d))
================================================================================
