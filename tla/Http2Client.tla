------------------------------ MODULE Http2Client ------------------------------
(****************************************************************************)
(* The goroutines around a connection (http2client.go, eventloop/loop.go,   *)
(* util/asyncTask.go).  Each call of the API runs in a goroutine of its own *)
(* (the daemon starts one per command).  A connection has two goroutines:   *)
(* the event loop, which takes commands, frames and shutdowns from          *)
(* unbuffered channels, and the frame reader.  A command that waits for its *)
(* answer has a third, the timer.                                           *)
(*                                                                          *)
(* What the connection does with an event is Connection.tla's subject; here *)
(* an event completes a command, shuts the connection down, or neither, and *)
(* may write to the connection, which takes as long as the server likes.    *)
(* Reads and writes of h2c.loop, isShutdown, terminated and stopFrameReader *)
(* are not synchronised in the code; each read and each write of h2c.loop   *)
(* is a step of its own, immediately visible, in every order.               *)
(****************************************************************************)
EXTENDS AsyncTask, FiniteSets

CONSTANTS
  HttpCalls,     \* calls of Get, Put or Post: they connect if need be
  Connects,      \* calls of Connect
  PingCalls,     \* calls of PingOnce
  Monitorings,   \* calls of PushList or StreamInfo
  Disconnects,   \* calls of Disconnect
  Loops,         \* bound: the event loops that may be started
  NoLoop,        \* nil
  Completions,   \* how often one event may complete the same command
  ServerEnds     \* may the server end the connection (GOAWAY, close)?

Commands == HttpCalls \cup PingCalls \cup Monitorings
Calls == Commands \cup Connects \cup Disconnects

ASSUME LoopsAssumption == NoLoop \notin Loops
ASSUME CallsAssumption ==
  /\ Disconnects \cap (Commands \cup Connects) = {}
  /\ Connects \cap Commands = {}
  /\ HttpCalls \cap PingCalls = {}
  /\ Monitorings \cap (HttpCalls \cup PingCalls) = {}
ASSUME CompletionsAssumption == Completions \subseteq {1, 2} /\ ServerEnds \in BOOLEAN

VARIABLES
  client,    \* h2c.loop
  pc,        \* where each call is
  read,      \* what it reads next there: h2c.loop, or a field of *h2c.loop
  target,    \* the loop that a call has started, or sends to
  task,      \* the callback of each command
  timer,     \* "off", "running" or "sent"
  status,    \* where each event loop is
  sends,     \* completions an event loop has still to send for its event
  inFlight,  \* commands a connection has taken and not completed
  shutdown,  \* conn.isShutdown
  stop,      \* stopFrameReader
  terminated,\* Loop.terminated
  reader,    \* where each frame reader is
  crashed,   \* a nil dereference ended the process
  rivals     \* history: who was connecting or disconnecting when a loop was stored

callVars == <<pc, read, target, task, timer>>
loopVars == <<status, sends, inFlight, shutdown, stop, terminated, reader>>
vars == <<client, callVars, loopVars, crashed, rivals>>

Completion == [cmd : Commands, outcome : {"ok", "error"}, again : BOOLEAN]

Places == {"enter", "complete", "ready", "bare", "connect", "dialing", "store", "match",
           "mismatch", "report", "send", "sending", "waiting", "forget", "returned"}

TypeOK ==
  /\ client \in Loops \cup {NoLoop}
  /\ pc \in [Calls -> Places]
  /\ read \in [Calls -> {"loop", "terminated", "Host", "Port"}]
  /\ target \in [Calls -> Loops \cup {NoLoop}]
  /\ task \in [Commands -> Tasks]
  /\ timer \in [Commands -> {"off", "running", "sent"}]
  /\ status \in [Loops -> {"unused", "running", "writing", "returned"}]
  /\ sends \in [Loops -> Seq(Completion)]
  /\ inFlight \in [Loops -> SUBSET Commands]
  /\ shutdown \in [Loops -> BOOLEAN]
  /\ stop \in [Loops -> BOOLEAN]
  /\ terminated \in [Loops -> BOOLEAN]
  /\ reader \in [Loops -> {"unused", "reading", "sending", "returned"}]
  /\ crashed \in BOOLEAN
  /\ rivals \in [Loops -> SUBSET Calls]

(* Faults: Connect, and the calls that need a connection, check nothing.    *)
EnterUnchecked(c) ==
  CASE c \in HttpCalls -> "complete" [] c \in Connects -> "dialing" [] OTHER -> "send"

(* Where a call begins: putOrPostOrGet, Connect, and the rest, which return *)
(* at once without a connection.                                            *)
Enter(c) ==
  CASE c \in HttpCalls -> "complete" [] c \in Connects -> "connect" [] OTHER -> "enter"

Init ==
  /\ client = NoLoop
  /\ pc = [c \in Calls |-> Enter(c)]
  /\ read = [c \in Calls |-> "loop"]
  /\ target = [c \in Calls |-> NoLoop]
  /\ task = [c \in Commands |-> NewAsyncTask]
  /\ timer = [c \in Commands |-> "off"]
  /\ status = [l \in Loops |-> "unused"]
  /\ sends = [l \in Loops |-> << >>]
  /\ inFlight = [l \in Loops |-> {}]
  /\ shutdown = [l \in Loops |-> FALSE]
  /\ stop = [l \in Loops |-> FALSE]
  /\ terminated = [l \in Loops |-> FALSE]
  /\ reader = [l \in Loops |-> "unused"]
  /\ crashed = FALSE
  /\ rivals = [l \in Loops |-> {}]

--------------------------------------------------------------------------------
(* Calls                                                                    *)

(* isConnected is called in seven places; Connect has a copy of it.  First  *)
(* h2c.loop is compared with nil, then read again to look at terminated.    *)
(* Where a call goes from there, and what it reads next:                    *)
(*   complete  completeUrlWithCurrentConnectionData: reads Host and Port if *)
(*             the URL names no host; which host it names is left open      *)
(*   ready     putOrPostOrGet: the URL has a host, given or completed       *)
(*   bare      the same without a host: "Not connected"                     *)
(*   connect   Connect: "Already connected to" reads Host and Port          *)
(*   match     urlMatchesCurrentConnection                                  *)
(*   mismatch  the same for a URL without a host                            *)
(*   report    "while connected to" reads Host and Port                     *)
IfConnected ==
  [complete |-> {<<"complete", "Host">>, <<"ready", "loop">>},
   ready    |-> {<<"match", "loop">>},
   bare     |-> {<<"mismatch", "loop">>},
   connect  |-> {<<"connect", "Host">>},
   match    |-> {<<"match", "Host">>, <<"report", "Host">>},
   mismatch |-> {<<"report", "Host">>},
   enter    |-> {<<"send", "loop">>}]

IfNotConnected ==
  [complete |-> {<<"ready", "loop">>, <<"bare", "loop">>},
   ready    |-> {<<"connect", "loop">>},
   bare     |-> {<<"returned", "loop">>},
   connect  |-> {<<"dialing", "loop">>},
   match    |-> {<<"report", "Host">>},
   mismatch |-> {<<"report", "Host">>},
   enter    |-> {<<"returned", "loop">>}]

AfterHost ==
  [complete |-> {<<"complete", "Port">>},
   connect  |-> {<<"connect", "Port">>},
   match    |-> {<<"match", "Port">>, <<"report", "Host">>},
   report   |-> {<<"report", "Port">>}]

AfterPort ==
  [complete |-> {<<"ready", "loop">>},
   connect  |-> {<<"returned", "loop">>},
   match    |-> {<<"send", "loop">>, <<"report", "Host">>},
   report   |-> {<<"returned", "loop">>}]

Goes(c, from, to) == /\ ~crashed
                     /\ pc[c] = from
                     /\ pc' = [pc EXCEPT ![c] = to]

(* Call c, about to read field, goes on to one of the places next.          *)
ReadsOn(c, field, next) ==
  /\ ~crashed
  /\ read[c] = field
  /\ \E place \in next : /\ pc'   = [pc EXCEPT ![c] = place[1]]
                         /\ read' = [read EXCEPT ![c] = place[2]]
  /\ UNCHANGED <<client, target, task, timer, loopVars, crashed, rivals>>

(* h2c.loop != nil                                                          *)
CheckLoop(c) ==
  /\ pc[c] \in DOMAIN IfConnected
  /\ ReadsOn(c, "loop", IF client = NoLoop THEN IfNotConnected[pc[c]]
                        ELSE {<<pc[c], "terminated">>})

(* Fault: Connect only looks for nil.                                       *)
TerminatedOrConnect(c) ==
  /\ client # NoLoop
  /\ pc[c] \in DOMAIN IfConnected
  /\ ReadsOn(c, "terminated", IF terminated[client] \/ pc[c] = "connect"
                              THEN IfNotConnected[pc[c]] ELSE IfConnected[pc[c]])

(* !h2c.loop.IsTerminated(), of what h2c.loop is by now                     *)
CheckTerminated(c) ==
  /\ client # NoLoop
  /\ pc[c] \in DOMAIN IfConnected
  /\ ReadsOn(c, "terminated", IF terminated[client] THEN IfNotConnected[pc[c]]
                              ELSE IfConnected[pc[c]])

ReadHost(c) ==
  /\ client # NoLoop
  /\ pc[c] \in DOMAIN AfterHost
  /\ ReadsOn(c, "Host", AfterHost[pc[c]])

ReadPort(c) ==
  /\ client # NoLoop
  /\ pc[c] \in DOMAIN AfterPort
  /\ ReadsOn(c, "Port", AfterPort[pc[c]])

(* A field of h2c.loop, or its channel, is read when h2c.loop is nil.       *)
DereferenceNil(c) ==
  /\ ~crashed
  /\ client = NoLoop
  /\ read[c] # "loop" \/ pc[c] = "send"
  /\ crashed' = TRUE
  /\ UNCHANGED <<client, callVars, loopVars, rivals>>

(* tls.Dial and the preface, in connection.Start                            *)
DialFails(c) ==
  /\ Goes(c, "dialing", "returned")
  /\ UNCHANGED <<client, read, target, task, timer, loopVars, crashed, rivals>>

(* eventloop.Start has started both goroutines when it returns.             *)
DialSucceeds(c, l) ==
  /\ Goes(c, "dialing", "store")
  /\ status[l] = "unused"
  /\ status' = [status EXCEPT ![l] = "running"]
  /\ reader' = [reader EXCEPT ![l] = "reading"]
  /\ target' = [target EXCEPT ![c] = l]
  /\ UNCHANGED <<client, read, task, timer, sends, inFlight, shutdown, stop, terminated,
                 crashed, rivals>>

(* The calls other than c that have found no live connection and dial, or   *)
(* disconnect one.                                                          *)
UnderWay(c) ==
  {k \in Calls \ {c} : \/ pc[k] \in {"dialing", "store"}
                       \/ k \in Disconnects /\ pc[k] \in {"sending", "forget"}}

(* h2c.loop = loop                                                          *)
Store(c) ==
  /\ Goes(c, "store", IF c \in HttpCalls THEN "match" ELSE "returned")
  /\ client' = target[c]
  /\ rivals' = [rivals EXCEPT ![target[c]] = UnderWay(c)]
  /\ UNCHANGED <<read, target, task, timer, loopVars, crashed>>

(* The channel of h2c.loop is evaluated, then the goroutine blocks on it.   *)
Send(c) ==
  /\ client # NoLoop
  /\ Goes(c, "send", "sending")
  /\ target' = [target EXCEPT ![c] = client]
  /\ UNCHANGED <<client, read, task, timer, loopVars, crashed, rivals>>

(* WaitForCompletion's select; either channel if both hold a value.         *)
Receive(c, result) ==
  /\ result \in Available(task[c])
  /\ Goes(c, "waiting", "returned")
  /\ task' = [task EXCEPT ![c] = Taken(@, result)]
  /\ UNCHANGED <<client, read, target, timer, loopVars, crashed, rivals>>

(* Fault: a ticker instead of a timer.                                      *)
TimerTicks(c) ==
  /\ ~crashed
  /\ timer[c] = "running"
  /\ HasRoom(task[c], "timeout")
  /\ task' = [task EXCEPT ![c] = Complete(@, "timeout")]
  /\ UNCHANGED <<client, read, pc, target, timer, loopVars, crashed, rivals>>

(* The timer's goroutine outlives the call; its send waits for room.        *)
TimerFires(c) ==
  /\ ~crashed
  /\ timer[c] = "running"
  /\ HasRoom(task[c], "timeout")
  /\ task' = [task EXCEPT ![c] = Complete(@, "timeout")]
  /\ timer' = [timer EXCEPT ![c] = "sent"]
  /\ UNCHANGED <<client, read, pc, target, loopVars, crashed, rivals>>

(* Disconnect's last statement, after the loop has taken the shutdown.      *)
Forget(c) ==
  /\ Goes(c, "forget", "returned")
  /\ client' = NoLoop
  /\ UNCHANGED <<read, target, task, timer, loopVars, crashed, rivals>>

--------------------------------------------------------------------------------
(* The event loop                                                           *)

AtSelect(l) == ~crashed /\ status[l] = "running" /\ sends[l] = << >>

(* The check at the end of an event, down being the value of IsShutdown.    *)
EndOfEvent(l, down) ==
  /\ status' = [status EXCEPT ![l] = IF down THEN "returned" ELSE "running"]
  /\ stop' = [stop EXCEPT ![l] = @ \/ down]
  /\ terminated' = [terminated EXCEPT ![l] = @ \/ down]

(* The handler of an event writes a frame: conn.Write has no deadline.      *)
Writes(l) ==
  /\ status' = [status EXCEPT ![l] = "writing"]
  /\ UNCHANGED <<stop, terminated>>

Written(l) ==
  /\ ~crashed
  /\ status[l] = "writing"
  /\ EndOfEvent(l, sends[l] = << >> /\ shutdown[l])
  /\ UNCHANGED <<client, callVars, sends, inFlight, shutdown, reader, crashed, rivals>>

(* Fault: a command that is put in flight waits without a timer.            *)
TakeUntimed(l, c) ==
  /\ AtSelect(l)
  /\ c \in Commands
  /\ pc[c] = "sending" /\ target[c] = l
  /\ pc' = [pc EXCEPT ![c] = "waiting"]
  /\ inFlight' = [inFlight EXCEPT ![l] = @ \cup {c}]
  /\ EndOfEvent(l, shutdown[l])
  /\ UNCHANGED <<client, read, target, task, timer, sends, shutdown, reader,
                 crashed, rivals>>

(* An HTTP or a ping command is put in flight and, unless there is a push   *)
(* promise for it, written; a monitoring command, and an HTTP command for a *)
(* push promise that is closed, is completed at once.                       *)
TakeCommand(l, c) ==
  /\ AtSelect(l)
  /\ c \in Commands
  /\ pc[c] = "sending" /\ target[c] = l
  /\ pc' = [pc EXCEPT ![c] = "waiting"]
  /\ timer' = [timer EXCEPT ![c] = "running"]
  /\ \/ /\ c \notin Monitorings
        /\ inFlight' = [inFlight EXCEPT ![l] = @ \cup {c}]
        /\ Writes(l) \/ (c \in HttpCalls /\ EndOfEvent(l, shutdown[l]))
        /\ UNCHANGED sends
     \/ /\ c \notin PingCalls
        /\ \E result \in {"ok", "error"} :
             /\ c \in Monitorings => result = "ok"
             /\ sends' = [sends EXCEPT ![l] = <<[cmd |-> c, outcome |-> result, again |-> FALSE]>>]
        /\ UNCHANGED <<inFlight, status, stop, terminated>>
  /\ UNCHANGED <<client, read, target, task, shutdown, reader, crashed, rivals>>

TakeShutdown(l, c) ==
  /\ AtSelect(l)
  /\ c \in Disconnects
  /\ pc[c] = "sending" /\ target[c] = l
  /\ pc' = [pc EXCEPT ![c] = "forget"]
  /\ shutdown' = [shutdown EXCEPT ![l] = TRUE]
  /\ EndOfEvent(l, TRUE)
  /\ UNCHANGED <<client, read, target, task, timer, sends, inFlight, reader, crashed, rivals>>

(* A frame that completes no command, which may be answered with another,   *)
(* or a GOAWAY.                                                             *)
TakeFrame(l) ==
  /\ AtSelect(l)
  /\ reader[l] = "sending"
  /\ reader' = [reader EXCEPT ![l] = "reading"]
  /\ \E goAway \in {FALSE, ServerEnds} :
       /\ shutdown' = [shutdown EXCEPT ![l] = @ \/ goAway]
       /\ EndOfEvent(l, shutdown'[l]) \/ (~goAway /\ Writes(l))
  /\ UNCHANGED <<client, callVars, sends, inFlight, crashed, rivals>>

(* Fault: the command stays in flight and may be completed again.           *)
AnswerAgain(l, c, result) ==
  /\ AtSelect(l)
  /\ reader[l] = "sending"
  /\ reader' = [reader EXCEPT ![l] = "reading"]
  /\ c \in inFlight[l]
  /\ sends' = [sends EXCEPT ![l] = <<[cmd |-> c, outcome |-> result, again |-> FALSE]>>]
  /\ UNCHANGED <<client, callVars, inFlight, status, shutdown, stop, terminated,
                 crashed, rivals>>

(* A frame that completes command c, a ping only successfully; the handler  *)
(* writes WINDOW_UPDATE or RST_STREAM first.                                *)
TakeAnswer(l, c, result) ==
  /\ AtSelect(l)
  /\ reader[l] = "sending"
  /\ reader' = [reader EXCEPT ![l] = "reading"]
  /\ c \in inFlight[l]
  /\ c \in PingCalls => result = "ok"
  /\ inFlight' = [inFlight EXCEPT ![l] = @ \ {c}]
  /\ \E n \in Completions :
       /\ n > 1 => result = "error"
       /\ sends' = [sends EXCEPT ![l] =
            [k \in 1 .. n |-> [cmd |-> c, outcome |-> result, again |-> k > 1]]]
  /\ UNCHANGED status \/ (c \in HttpCalls /\ status' = [status EXCEPT ![l] = "writing"])
  /\ UNCHANGED <<client, callVars, shutdown, stop, terminated, crashed, rivals>>

(* The loop completes a command: it blocks while the channel is full.       *)
SendCompletion(l) ==
  /\ ~crashed
  /\ status[l] = "running" /\ sends[l] # << >>
  /\ LET s == Head(sends[l])
     IN  /\ HasRoom(task[s.cmd], s.outcome)
         /\ task' = [task EXCEPT ![s.cmd] = Complete(@, s.outcome)]
  /\ sends' = [sends EXCEPT ![l] = Tail(@)]
  /\ EndOfEvent(l, Len(sends[l]) = 1 /\ shutdown[l])
  /\ UNCHANGED <<client, read, pc, target, timer, inFlight, shutdown, reader, crashed, rivals>>

--------------------------------------------------------------------------------
(* The frame reader                                                         *)

(* ReadNextFrame returns a frame; stopFrameReader is looked at next.        *)
ReadFrame(l) ==
  /\ ~crashed
  /\ reader[l] = "reading"
  /\ reader' = [reader EXCEPT ![l] = IF stop[l] THEN "returned" ELSE "sending"]
  /\ UNCHANGED <<client, callVars, status, sends, inFlight, shutdown, stop, terminated,
                 crashed, rivals>>

(* ReadNextFrame fails: the server closed, the stream of frames is broken,  *)
(* or the connection is shut down.                                          *)
ReadFails(l) ==
  /\ ~crashed
  /\ reader[l] = "reading"
  /\ shutdown[l] \/ ServerEnds
  /\ reader' = [reader EXCEPT ![l] = "returned"]
  /\ shutdown' = [shutdown EXCEPT ![l] = TRUE]
  /\ terminated' = [terminated EXCEPT ![l] = TRUE]
  /\ UNCHANGED <<client, callVars, status, sends, inFlight, stop, crashed, rivals>>

--------------------------------------------------------------------------------
Dials(c) == DialFails(c) \/ \E l \in Loops : DialSucceeds(c, l)

CallStep(c) ==
  \/ CheckLoop(c) \/ CheckTerminated(c) \/ ReadHost(c) \/ ReadPort(c) \/ DereferenceNil(c)
  \/ Store(c) \/ Send(c) \/ Forget(c)

CommandStep(c) == \E result \in Outcomes : Receive(c, result)

LoopStep(l) ==
  \/ \E c \in Calls : TakeCommand(l, c) \/ TakeShutdown(l, c)
  \/ TakeFrame(l)
  \/ \E c \in Commands, result \in {"ok", "error"} : TakeAnswer(l, c, result)
  \/ SendCompletion(l) \/ Written(l)

ReaderStep(l) == ReadFrame(l) \/ ReadFails(l)

Next ==
  \/ \E c \in Calls : CallStep(c) \/ Dials(c)
  \/ \E c \in Commands : CommandStep(c) \/ TimerFires(c)
  \/ \E l \in Loops : LoopStep(l) \/ ReaderStep(l)

(* Goroutines are scheduled fairly, and select picks at random among the    *)
(* channels that are ready, so a call that is ready again and again is      *)
(* taken; a timer fires.  Nothing is assumed of the server: it need not     *)
(* send anything, tls.Dial has no timeout, and a write lasts until the      *)
(* server reads.                                                            *)
Fairness ==
  /\ \A c \in Calls : WF_vars(CallStep(c))
  /\ \A c \in Commands : WF_vars(CommandStep(c)) /\ WF_vars(TimerFires(c))
  /\ \A l \in Loops : WF_vars(SendCompletion(l))
  /\ \A c \in Calls :
       SF_vars(\E l \in Loops : TakeCommand(l, c) \/ TakeShutdown(l, c))

Spec == Init /\ [][Next]_vars /\ Fairness

--------------------------------------------------------------------------------
(* Properties                                                               *)

(* The second of two completions for one command, which HEADERS without     *)
(* END_HEADERS lead to, blocks the loop for ever once the call has returned *)
(* (findings in the README); the properties say what holds up to there.     *)
Sticks(l) == sends[l] # << >> /\ Head(sends[l]).again

(* A loop that cannot send a completion waits for a call that will take     *)
(* what is in the channel: no late answer and no timeout leaves the event   *)
(* loop blocked on a channel nobody reads any more (CompleteWithError,      *)
(* WaitForCompletion).                                                      *)
BlockedLoopIsFreed ==
  \A l \in Loops :
    sends[l] # << >> /\ ~Sticks(l) =>
      LET s == Head(sends[l])
      IN  HasRoom(task[s.cmd], s.outcome) \/ pc[s.cmd] = "waiting"

(* A loop gets through every event that completes a command, whatever calls *)
(* and timers do meanwhile, once what the event makes it write is written,  *)
(* unless the event completes the command twice (CompleteSuccessfully,      *)
(* CompleteWithError).                                                      *)
EventsEnd ==
  \A l \in Loops :
    sends[l] # << >> /\ status[l] = "running" ~> (sends[l] = << >> \/ Sticks(l) \/ crashed)

(* The event loop that call c sends to has returned, is stuck in a second   *)
(* completion, or is in a write that the server does not let it finish.     *)
NobodyReceives(c) ==
  /\ pc[c] = "sending"
  /\ status[target[c]] \in {"returned", "writing"} \/ Sticks(target[c])

(* Every call returns, by its timeout at the latest, whatever becomes of    *)
(* the connection (AwaitCompletion), but for two: a call whose dial never   *)
(* ends, and one that checked isConnected and then finds nobody at the      *)
(* other end of the channel.  The timeout starts after both.                *)
CallsReturn ==
  \A c \in Calls :
    \/ <>(crashed \/ pc[c] = "returned")
    \/ <>[](pc[c] = "dialing")
    \/ <>[]NobodyReceives(c)

(* h2c.loop is nil when a call dereferences it only if a Disconnect has     *)
(* gone through: without one, no interleaving of the single reads that      *)
(* isConnected, its callers and Connect make ends the process.              *)
OnlyDisconnectCrashes ==
  crashed => \E d \in Disconnects : pc[d] = "returned" /\ target[d] # NoLoop

(* A connection that is up, but that h2c.loop has lost: no call can use it, *)
(* and none can close it.                                                   *)
Lost(l) ==
  /\ status[l] # "unused" /\ ~terminated[l]
  /\ client # l
  /\ \A c \in Calls : pc[c] = "store" => target[c] # l

(* A connection is lost only if, when it was stored, another call was past  *)
(* its check and dialing too, or a Disconnect was on its way to set         *)
(* h2c.loop to nil: every call that looks at h2c.loop after that keeps it   *)
(* (Connect, Disconnect).                                                   *)
LostOnlyToRivals == \A l \in Loops : Lost(l) => rivals[l] # {}
================================================================================
