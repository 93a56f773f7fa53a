----------------------------- MODULE RepeatedPing -----------------------------
(****************************************************************************)
(* h2c ping --interval and h2c ping --stop (PingRepeatedly and              *)
(* StopPingRepeatedly of http2client.go, util/repeatedTask.go).  A call     *)
(* that repeats a ping starts a task: a ticker whose channel holds one tick *)
(* and a goroutine that waits for a tick or for the end.  Calls and tasks   *)
(* share h2c.pingTask without a lock; each access is a step of its own.     *)
(*                                                                          *)
(* How one ping goes over the connection is in Http2Client.tla; here it     *)
(* succeeds, fails (by its timeout or for want of a connection) or never    *)
(* comes back from handing its command to the event loop.                   *)
(****************************************************************************)
EXTENDS Naturals

CONSTANTS
  Starts,    \* calls of PingRepeatedly; each names the task it starts
  Stops,     \* calls of StopPingRepeatedly
  NoTask     \* nil

Calls == Starts \cup Stops

ASSUME StartsAssumption == NoTask \notin Calls /\ Starts \cap Stops = {}

VARIABLES
  pingTask,  \* h2c.pingTask
  pc,        \* where each call is
  old,       \* oldPingTask of each call of PingRepeatedly
  task,      \* where the goroutine of each task is
  ticking,   \* the ticker runs
  tick,      \* its channel holds a tick
  done,      \* doneChannel is closed
  crashed,   \* Stop was called on nil or closed a closed channel
  late,      \* history: pings a task has begun after it was stopped
  failed,    \* history: a repeated ping has failed
  overlap    \* history: two calls were under way at once

taskVars == <<task, ticking, tick, late>>
vars == <<pingTask, pc, old, taskVars, done, crashed, failed, overlap>>

TypeOK ==
  /\ pingTask \in Starts \cup {NoTask}
  /\ pc \in [Calls -> {"start", "pinged", "assign", "stop", "clear", "returned"}]
  /\ old \in [Starts -> Starts \cup {NoTask}]
  /\ task \in [Starts -> {"none", "select", "pinging", "blocked", "failed", "clear",
                        "ended"}]
  /\ ticking \in [Starts -> BOOLEAN]
  /\ tick \in [Starts -> BOOLEAN]
  /\ done \in [Starts -> BOOLEAN]
  /\ crashed \in BOOLEAN
  /\ late \in [Starts -> Nat]
  /\ failed \in BOOLEAN
  /\ overlap \in BOOLEAN

Init ==
  /\ pingTask = NoTask
  /\ pc = [c \in Calls |-> "start"]
  /\ old = [c \in Starts |-> NoTask]
  /\ task = [t \in Starts |-> "none"]
  /\ ticking = [t \in Starts |-> FALSE]
  /\ tick = [t \in Starts |-> FALSE]
  /\ done = [t \in Starts |-> FALSE]
  /\ crashed = FALSE
  /\ late = [t \in Starts |-> 0]
  /\ failed = FALSE
  /\ overlap = FALSE

--------------------------------------------------------------------------------
(* Stop                                                                     *)

(* Fault: only the goroutine is told.                                       *)
CloseOnly(t) ==
  IF t = NoTask \/ (t # NoTask /\ done[t])
  THEN crashed' = TRUE /\ UNCHANGED <<ticking, done>>
  ELSE /\ done' = [done EXCEPT ![t] = TRUE]
       /\ UNCHANGED <<ticking, crashed>>

(* repeatedTask.Stop: the ticker's channel keeps the tick it holds.  nil    *)
(* has no Stop, and a channel cannot be closed twice.                       *)
Stop(t) ==
  IF t = NoTask \/ (t # NoTask /\ done[t])
  THEN crashed' = TRUE /\ UNCHANGED <<ticking, done>>
  ELSE /\ ticking' = [ticking EXCEPT ![t] = FALSE]
       /\ done' = [done EXCEPT ![t] = TRUE]
       /\ UNCHANGED crashed

UnderWay(c) == pc[c] \notin {"start", "returned"}

Goes(c, from, to) ==
  /\ ~crashed
  /\ pc[c] = from
  /\ pc' = [pc EXCEPT ![c] = to]
  /\ overlap' = (overlap \/ (to # "returned" /\ \E d \in Calls \ {c} : UnderWay(d)))

--------------------------------------------------------------------------------
(* PingRepeatedly                                                           *)

FirstPing(c) ==
  /\ \/ Goes(c, "start", "pinged")
     \/ Goes(c, "start", "returned")
  /\ UNCHANGED <<pingTask, old, taskVars, done, crashed, failed>>

(* oldPingTask is read and StartRepeatedTask runs: the goroutine is there   *)
(* before its task is assigned.                                             *)
StartRepeatedTask(c) ==
  /\ Goes(c, "pinged", "assign")
  /\ old' = [old EXCEPT ![c] = pingTask]
  /\ task' = [task EXCEPT ![c] = "select"]
  /\ ticking' = [ticking EXCEPT ![c] = TRUE]
  /\ UNCHANGED <<pingTask, tick, late, done, crashed, failed>>

(* Fault: the old task is left running.                                     *)
AssignOnly(c) ==
  /\ Goes(c, "assign", "returned")
  /\ pingTask' = c
  /\ UNCHANGED <<old, taskVars, done, crashed, failed>>

Assign(c) ==
  /\ Goes(c, "assign", IF old[c] = NoTask THEN "returned" ELSE "stop")
  /\ pingTask' = c
  /\ UNCHANGED <<old, taskVars, done, crashed, failed>>

StopOldTask(c) ==
  /\ Goes(c, "stop", "returned")
  /\ Stop(old[c])
  /\ UNCHANGED <<pingTask, old, task, tick, late, failed>>

--------------------------------------------------------------------------------
(* StopPingRepeatedly                                                       *)

CheckTask(c) ==
  /\ Goes(c, "start", IF pingTask = NoTask THEN "returned" ELSE "stop")
  /\ UNCHANGED <<pingTask, old, taskVars, done, crashed, failed>>

StopTask(c) ==
  /\ Goes(c, "stop", "clear")
  /\ Stop(pingTask)
  /\ UNCHANGED <<pingTask, old, task, tick, late, failed>>

(* Fault: h2c.pingTask keeps the stopped task.                              *)
ForgetToForget(c) ==
  /\ Goes(c, "clear", "returned")
  /\ UNCHANGED <<pingTask, old, taskVars, done, crashed, failed>>

ForgetTask(c) ==
  /\ Goes(c, "clear", "returned")
  /\ pingTask' = NoTask
  /\ UNCHANGED <<old, taskVars, done, crashed, failed>>

--------------------------------------------------------------------------------
(* The goroutine of a task                                                  *)

Moves(t, from, to) ==
  /\ ~crashed
  /\ task[t] = from
  /\ task' = [task EXCEPT ![t] = to]

(* The ticker drops a tick that nobody has taken.                           *)
Tick(t) ==
  /\ ~crashed
  /\ ticking[t]
  /\ ~tick[t]
  /\ tick' = [tick EXCEPT ![t] = TRUE]
  /\ UNCHANGED <<pingTask, pc, old, task, ticking, done, crashed, late, failed, overlap>>

(* The select: either case if both are ready.                               *)
TakeTick(t) ==
  /\ tick[t]
  /\ Moves(t, "select", "pinging")
  /\ tick' = [tick EXCEPT ![t] = FALSE]
  /\ late' = [late EXCEPT ![t] = IF done[t] THEN @ + 1 ELSE @]
  /\ UNCHANGED <<pingTask, pc, old, ticking, done, crashed, failed, overlap>>

(* Fault: the end is looked for after a tick only.                          *)
TakeDoneWithTick(t) ==
  /\ tick[t] /\ done[t]
  /\ Moves(t, "select", "ended")
  /\ tick' = [tick EXCEPT ![t] = FALSE]
  /\ UNCHANGED <<pingTask, pc, old, ticking, done, crashed, late, failed, overlap>>

TakeDone(t) ==
  /\ done[t]
  /\ Moves(t, "select", "ended")
  /\ UNCHANGED <<pingTask, pc, old, ticking, tick, done, crashed, late, failed, overlap>>

(* PingOnce ends with an answer or with an error; the ten seconds of its    *)
(* timeout count from the moment the loop has taken the command.            *)
PingEnds(t) ==
  /\ \/ Moves(t, "pinging", "select") /\ UNCHANGED failed
     \/ Moves(t, "pinging", "failed") /\ failed' = TRUE
  /\ UNCHANGED <<pingTask, pc, old, ticking, tick, done, crashed, late, overlap>>

(* Nobody takes the command from the unbuffered channel, because the loop   *)
(* has returned or is itself blocked in a write, and no timer runs yet.     *)
PingBlocks(t) ==
  /\ Moves(t, "pinging", "blocked")
  /\ UNCHANGED <<pingTask, pc, old, ticking, tick, done, crashed, late, failed, overlap>>

(* A failed ping stops whatever h2c.pingTask is by then, and clears it.     *)
StopAfterFailure(t) ==
  /\ Moves(t, "failed", "clear")
  /\ Stop(pingTask)
  /\ UNCHANGED <<pingTask, pc, old, tick, late, failed, overlap>>

ForgetAfterFailure(t) ==
  /\ Moves(t, "clear", "select")
  /\ pingTask' = NoTask
  /\ UNCHANGED <<pc, old, ticking, tick, done, crashed, late, failed, overlap>>

--------------------------------------------------------------------------------
CallStep(c) ==
  \/ c \in Starts /\ (FirstPing(c) \/ StartRepeatedTask(c) \/ Assign(c) \/ StopOldTask(c))
  \/ c \in Stops  /\ (CheckTask(c) \/ StopTask(c) \/ ForgetTask(c))

TaskStep(t) ==
  \/ TakeTick(t) \/ TakeDone(t) \/ PingEnds(t) \/ PingBlocks(t)
  \/ StopAfterFailure(t) \/ ForgetAfterFailure(t)

Next ==
  \/ \E c \in Calls : CallStep(c)
  \/ \E t \in Starts : TaskStep(t) \/ Tick(t)

(* Goroutines are scheduled fairly; a ping ends or blocks for ever.  Nobody *)
(* has to call anything.                                                    *)
Fairness == \A t \in Starts : WF_vars(TaskStep(t))

Spec == Init /\ [][Next]_vars /\ Fairness

--------------------------------------------------------------------------------
(* Properties                                                               *)

(* Between two calls at most one ticker runs, that of h2c.pingTask, so that *)
(* ping --stop stops all pinging and a new interval replaces the old one    *)
(* (config.go, "this will update the time interval"): calls that do not     *)
(* overlap never lose a running task, even while pings fail.                *)
StopMeansStopped ==
  ~overlap /\ ~crashed /\ (\A c \in Calls : ~UnderWay(c)) =>
    \A t \in Starts : ticking[t] => t = pingTask

(* Stop is called on nil or on a stopped task only after a repeated ping    *)
(* has failed or when two calls overlap: calls one after the other never    *)
(* end the process, whatever ticks are on their way.                        *)
CrashNeedsFailure == crashed => failed \/ overlap

(* A stopped task pings once more at most: for the tick that its channel    *)
(* held (Stop does not drain it).                                           *)
OneLatePing == \A t \in Starts : late[t] <= 1

(* The goroutine of a stopped task ends, unless a ping of it has blocked on *)
(* the channel of the event loop: the select on doneChannel is then never   *)
(* reached again, and the goroutine stays for as long as the process.       *)
StoppedTaskEnds ==
  \A t \in Starts : done[t] ~> (task[t] \in {"ended", "blocked"} \/ crashed)
================================================================================
