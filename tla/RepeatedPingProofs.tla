--------------------------- MODULE RepeatedPingProofs ---------------------------
(****************************************************************************)
(* Proofs about RepeatedPing: for any number of calls, a stopped task pings *)
(* once more at most, calls that do not overlap lose no running task, and   *)
(* without overlap only a failed ping can crash the process.                *)
(****************************************************************************)
EXTENDS RepeatedPing, TLAPS

(* A task exists from StartRepeatedTask on and is known to others from      *)
(* Assign on.                                                               *)
TasksAgree ==
  \A c \in Starts :
    /\ pc[c] \in {"start", "pinged"} => task[c] = "none"
    /\ task[c] = "none" => ~ticking[c] /\ ~tick[c] /\ late[c] = 0
    /\ pc[c] \notin {"stop", "returned"} => ~done[c] /\ pingTask # c
    /\ pc[c] = "stop" => old[c] # NoTask
    /\ task[c] = "none" => ~done[c] /\ pingTask # c
    /\ \A d \in Starts : old[d] = c => pc[c] \in {"stop", "returned"} /\ task[c] # "none"
    /\ old[c] # c
    /\ pc[c] \in {"assign", "stop"} => task[c] # "none"

(* What is left in the channel of a ticker is all that a stopped task gets. *)
TicksAgree ==
  \A t \in Starts :
    /\ done[t] => ~ticking[t]
    /\ late[t] > 0 => done[t] /\ late[t] = 1 /\ ~tick[t]

OneAtATime ==
  ~overlap => \A c, d \in Calls : UnderWay(c) /\ UnderWay(d) => c = d

(* Calls one after the other, with pings that succeed.                      *)
Orderly ==
  ~failed /\ ~overlap =>
    /\ ~crashed
    /\ \A t \in Starts : task[t] \notin {"failed", "clear"}
    /\ \A c \in Starts : pc[c] = "assign" => old[c] = pingTask
    /\ \A c \in Starts : pc[c] = "stop" => ~done[old[c]] /\ pingTask = c
    /\ \A c \in Stops : pc[c] = "stop" => pingTask # NoTask
    /\ pingTask # NoTask => ~done[pingTask] \/ \E c \in Stops : pc[c] = "clear"

(* A call is about to close the channel of a stopped task again.            *)
Doomed ==
  \E c \in Starts : pc[c] \in {"assign", "stop"} /\ old[c] # NoTask /\ done[old[c]]

(* What a failed ping may do between two steps of one call.                 *)
FailuresAgree ==
  ~overlap /\ ~crashed =>
    /\ \A c \in Starts : pc[c] = "assign" => old[c] = pingTask \/ Doomed
    /\ \A c \in Stops : pc[c] = "clear" => pingTask = NoTask \/ done[pingTask]
    /\ \A t \in Starts : task[t] = "clear" =>
         \/ Doomed
         \/ /\ pingTask # NoTask /\ done[pingTask]
            /\ \A u \in Starts : task[u] = "clear" => u = t
            /\ \A c \in Stops : pc[c] # "clear"

(* Who is responsible for a ticker that runs.                               *)
TickersAgree ==
  ~overlap /\ ~crashed =>
    \A t \in Starts : ticking[t] =>
      \/ t = pingTask
      \/ Doomed
      \/ pc[t] = "assign"
      \/ \E c \in Starts : pc[c] = "stop" /\ old[c] = t

PInv ==
  /\ TypeOK /\ TasksAgree /\ TicksAgree /\ OneAtATime
  /\ Orderly /\ FailuresAgree /\ TickersAgree

LEMMA FirstPingStep ==
  ASSUME PInv, NEW c \in Starts, FirstPing(c)
  PROVE  PInv'
<1> USE StartsAssumption DEF Calls, taskVars
<1>1. TypeOK'
  BY DEF PInv, TypeOK, FirstPing, Goes
<1>2. TasksAgree'
  BY DEF PInv, TypeOK, TasksAgree, FirstPing, Goes
<1>3. TicksAgree'
  BY DEF PInv, TypeOK, TasksAgree, TicksAgree, FirstPing, Goes
<1>4. OneAtATime'
  BY DEF PInv, TypeOK, OneAtATime, UnderWay, FirstPing, Goes
<1>5. Orderly'
  BY DEF PInv, TypeOK, TasksAgree, OneAtATime, Orderly, UnderWay, FirstPing, Goes
<1>6. FailuresAgree'
  BY DEF PInv, TypeOK, TasksAgree, OneAtATime, FailuresAgree, Doomed, UnderWay, FirstPing, Goes
<1>7. TickersAgree'
  BY DEF PInv, TypeOK, TasksAgree, TicksAgree, OneAtATime, FailuresAgree, TickersAgree, Doomed, UnderWay, FirstPing, Goes
<1>8. QED
  BY <1>1, <1>2, <1>3, <1>4, <1>5, <1>6, <1>7 DEF PInv

LEMMA StartRepeatedTaskStep ==
  ASSUME PInv, NEW c \in Starts, StartRepeatedTask(c)
  PROVE  PInv'
<1> USE StartsAssumption DEF Calls, taskVars
<1>1. TypeOK'
  BY DEF PInv, TypeOK, StartRepeatedTask, Goes
<1>2. TasksAgree'
  BY DEF PInv, TypeOK, TasksAgree, StartRepeatedTask, Goes
<1>3. TicksAgree'
  BY DEF PInv, TypeOK, TasksAgree, TicksAgree, StartRepeatedTask, Goes
<1>4. OneAtATime'
  BY DEF PInv, TypeOK, OneAtATime, UnderWay, StartRepeatedTask, Goes
<1>5. Orderly'
  BY DEF PInv, TypeOK, TasksAgree, OneAtATime, Orderly, UnderWay, StartRepeatedTask, Goes
<1>6. FailuresAgree'
  BY DEF PInv, TypeOK, TasksAgree, OneAtATime, FailuresAgree, Doomed, UnderWay, StartRepeatedTask, Goes
<1>7. TickersAgree'
  BY DEF PInv, TypeOK, TasksAgree, TicksAgree, OneAtATime, FailuresAgree, TickersAgree, Doomed, UnderWay, StartRepeatedTask, Goes
<1>8. QED
  BY <1>1, <1>2, <1>3, <1>4, <1>5, <1>6, <1>7 DEF PInv

LEMMA AssignStep ==
  ASSUME PInv, NEW c \in Starts, Assign(c)
  PROVE  PInv'
<1> USE StartsAssumption DEF Calls, taskVars
<1>1. TypeOK'
  BY DEF PInv, TypeOK, Assign, Goes
<1>2. TasksAgree'
  BY DEF PInv, TypeOK, TasksAgree, Assign, Goes
<1>3. TicksAgree'
  BY DEF PInv, TypeOK, TasksAgree, TicksAgree, Assign, Goes
<1>4. OneAtATime'
  BY DEF PInv, TypeOK, OneAtATime, UnderWay, Assign, Goes
<1>5. Orderly'
  BY DEF PInv, TypeOK, TasksAgree, OneAtATime, Orderly, UnderWay, Assign, Goes
<1>6. FailuresAgree'
  BY DEF PInv, TypeOK, TasksAgree, OneAtATime, FailuresAgree, Doomed, UnderWay, Assign, Goes
<1>7. TickersAgree'
  BY DEF PInv, TypeOK, TasksAgree, TicksAgree, OneAtATime, FailuresAgree, TickersAgree, Doomed, UnderWay, Assign, Goes
<1>8. QED
  BY <1>1, <1>2, <1>3, <1>4, <1>5, <1>6, <1>7 DEF PInv

LEMMA StopOldTaskStep ==
  ASSUME PInv, NEW c \in Starts, StopOldTask(c)
  PROVE  PInv'
<1> USE StartsAssumption DEF Calls, taskVars
<1>1. TypeOK'
  BY DEF PInv, TypeOK, StopOldTask, Goes, Stop
<1>2. TasksAgree'
  BY DEF PInv, TypeOK, TasksAgree, StopOldTask, Goes, Stop
<1>3. TicksAgree'
  BY DEF PInv, TypeOK, TasksAgree, TicksAgree, StopOldTask, Goes, Stop
<1>4. OneAtATime'
  BY DEF PInv, TypeOK, OneAtATime, UnderWay, StopOldTask, Goes, Stop
<1>5. Orderly'
  BY DEF PInv, TypeOK, TasksAgree, OneAtATime, Orderly, UnderWay, StopOldTask, Goes, Stop
<1>6. FailuresAgree'
  BY DEF PInv, TypeOK, TasksAgree, OneAtATime, FailuresAgree, Doomed, UnderWay, StopOldTask, Goes, Stop
<1>7. TickersAgree'
  BY DEF PInv, TypeOK, TasksAgree, TicksAgree, OneAtATime, FailuresAgree, TickersAgree, Doomed, UnderWay, StopOldTask, Goes, Stop
<1>8. QED
  BY <1>1, <1>2, <1>3, <1>4, <1>5, <1>6, <1>7 DEF PInv

LEMMA CheckTaskStep ==
  ASSUME PInv, NEW c \in Stops, CheckTask(c)
  PROVE  PInv'
<1> USE StartsAssumption DEF Calls, taskVars
<1>1. TypeOK'
  BY DEF PInv, TypeOK, CheckTask, Goes
<1>2. TasksAgree'
  BY DEF PInv, TypeOK, TasksAgree, CheckTask, Goes
<1>3. TicksAgree'
  BY DEF PInv, TypeOK, TasksAgree, TicksAgree, CheckTask, Goes
<1>4. OneAtATime'
  BY DEF PInv, TypeOK, OneAtATime, UnderWay, CheckTask, Goes
<1>5. Orderly'
  BY DEF PInv, TypeOK, TasksAgree, OneAtATime, Orderly, UnderWay, CheckTask, Goes
<1>6. FailuresAgree'
  BY DEF PInv, TypeOK, TasksAgree, OneAtATime, FailuresAgree, Doomed, UnderWay, CheckTask, Goes
<1>7. TickersAgree'
  BY DEF PInv, TypeOK, TasksAgree, TicksAgree, OneAtATime, FailuresAgree, TickersAgree, Doomed, UnderWay, CheckTask, Goes
<1>8. QED
  BY <1>1, <1>2, <1>3, <1>4, <1>5, <1>6, <1>7 DEF PInv

LEMMA StopTaskStep ==
  ASSUME PInv, NEW c \in Stops, StopTask(c)
  PROVE  PInv'
<1> USE StartsAssumption DEF Calls, taskVars
<1>1. TypeOK'
  BY DEF PInv, TypeOK, StopTask, Goes, Stop
<1>2. TasksAgree'
  BY DEF PInv, TypeOK, TasksAgree, StopTask, Goes, Stop
<1>3. TicksAgree'
  BY DEF PInv, TypeOK, TasksAgree, TicksAgree, StopTask, Goes, Stop
<1>4. OneAtATime'
  BY DEF PInv, TypeOK, OneAtATime, UnderWay, StopTask, Goes, Stop
<1>5. Orderly'
  BY DEF PInv, TypeOK, TasksAgree, OneAtATime, Orderly, UnderWay, StopTask, Goes, Stop
<1>6. FailuresAgree'
  BY DEF PInv, TypeOK, TasksAgree, OneAtATime, FailuresAgree, Doomed, UnderWay, StopTask, Goes, Stop
<1>7. TickersAgree'
  BY DEF PInv, TypeOK, TasksAgree, TicksAgree, OneAtATime, FailuresAgree, TickersAgree, Doomed, UnderWay, StopTask, Goes, Stop
<1>8. QED
  BY <1>1, <1>2, <1>3, <1>4, <1>5, <1>6, <1>7 DEF PInv

LEMMA ForgetTaskStep ==
  ASSUME PInv, NEW c \in Stops, ForgetTask(c)
  PROVE  PInv'
<1> USE StartsAssumption DEF Calls, taskVars
<1>1. TypeOK'
  BY DEF PInv, TypeOK, ForgetTask, Goes
<1>2. TasksAgree'
  BY DEF PInv, TypeOK, TasksAgree, ForgetTask, Goes
<1>3. TicksAgree'
  BY DEF PInv, TypeOK, TasksAgree, TicksAgree, ForgetTask, Goes
<1>4. OneAtATime'
  BY DEF PInv, TypeOK, OneAtATime, UnderWay, ForgetTask, Goes
<1>5. Orderly'
  BY DEF PInv, TypeOK, TasksAgree, OneAtATime, Orderly, UnderWay, ForgetTask, Goes
<1>6. FailuresAgree'
  BY DEF PInv, TypeOK, TasksAgree, OneAtATime, FailuresAgree, Doomed, UnderWay, ForgetTask, Goes
<1>7. TickersAgree'
  BY DEF PInv, TypeOK, TasksAgree, TicksAgree, OneAtATime, FailuresAgree, TickersAgree, Doomed, UnderWay, ForgetTask, Goes
<1>8. QED
  BY <1>1, <1>2, <1>3, <1>4, <1>5, <1>6, <1>7 DEF PInv

LEMMA TickStep ==
  ASSUME PInv, NEW t \in Starts, Tick(t)
  PROVE  PInv'
<1> USE StartsAssumption DEF Calls, taskVars
<1>1. TypeOK'
  BY DEF PInv, TypeOK, Tick
<1>2. TasksAgree'
  BY DEF PInv, TypeOK, TasksAgree, Tick
<1>3. TicksAgree'
  BY DEF PInv, TypeOK, TasksAgree, TicksAgree, Tick
<1>4. OneAtATime'
  BY DEF PInv, TypeOK, OneAtATime, UnderWay, Tick
<1>5. Orderly'
  BY DEF PInv, TypeOK, TasksAgree, OneAtATime, Orderly, UnderWay, Tick
<1>6. FailuresAgree'
  BY DEF PInv, TypeOK, TasksAgree, OneAtATime, FailuresAgree, Doomed, UnderWay, Tick
<1>7. TickersAgree'
  BY DEF PInv, TypeOK, TasksAgree, TicksAgree, OneAtATime, FailuresAgree, TickersAgree, Doomed, UnderWay, Tick
<1>8. QED
  BY <1>1, <1>2, <1>3, <1>4, <1>5, <1>6, <1>7 DEF PInv

LEMMA TakeTickStep ==
  ASSUME PInv, NEW t \in Starts, TakeTick(t)
  PROVE  PInv'
<1> USE StartsAssumption DEF Calls, taskVars
<1>1. TypeOK'
  BY DEF PInv, TypeOK, TakeTick, Moves
<1>2. TasksAgree'
  BY DEF PInv, TypeOK, TasksAgree, TakeTick, Moves
<1>3. TicksAgree'
  BY DEF PInv, TypeOK, TasksAgree, TicksAgree, TakeTick, Moves
<1>4. OneAtATime'
  BY DEF PInv, TypeOK, OneAtATime, UnderWay, TakeTick, Moves
<1>5. Orderly'
  BY DEF PInv, TypeOK, TasksAgree, OneAtATime, Orderly, UnderWay, TakeTick, Moves
<1>6. FailuresAgree'
  BY DEF PInv, TypeOK, TasksAgree, OneAtATime, FailuresAgree, Doomed, UnderWay, TakeTick, Moves
<1>7. TickersAgree'
  BY DEF PInv, TypeOK, TasksAgree, TicksAgree, OneAtATime, FailuresAgree, TickersAgree, Doomed, UnderWay, TakeTick, Moves
<1>8. QED
  BY <1>1, <1>2, <1>3, <1>4, <1>5, <1>6, <1>7 DEF PInv

LEMMA TakeDoneStep ==
  ASSUME PInv, NEW t \in Starts, TakeDone(t)
  PROVE  PInv'
<1> USE StartsAssumption DEF Calls, taskVars
<1>1. TypeOK'
  BY DEF PInv, TypeOK, TakeDone, Moves
<1>2. TasksAgree'
  BY DEF PInv, TypeOK, TasksAgree, TakeDone, Moves
<1>3. TicksAgree'
  BY DEF PInv, TypeOK, TasksAgree, TicksAgree, TakeDone, Moves
<1>4. OneAtATime'
  BY DEF PInv, TypeOK, OneAtATime, UnderWay, TakeDone, Moves
<1>5. Orderly'
  BY DEF PInv, TypeOK, TasksAgree, OneAtATime, Orderly, UnderWay, TakeDone, Moves
<1>6. FailuresAgree'
  BY DEF PInv, TypeOK, TasksAgree, OneAtATime, FailuresAgree, Doomed, UnderWay, TakeDone, Moves
<1>7. TickersAgree'
  BY DEF PInv, TypeOK, TasksAgree, TicksAgree, OneAtATime, FailuresAgree, TickersAgree, Doomed, UnderWay, TakeDone, Moves
<1>8. QED
  BY <1>1, <1>2, <1>3, <1>4, <1>5, <1>6, <1>7 DEF PInv

LEMMA PingEndsStep ==
  ASSUME PInv, NEW t \in Starts, PingEnds(t)
  PROVE  PInv'
<1> USE StartsAssumption DEF Calls, taskVars
<1>1. TypeOK'
  BY DEF PInv, TypeOK, PingEnds, Moves
<1>2. TasksAgree'
  BY DEF PInv, TypeOK, TasksAgree, PingEnds, Moves
<1>3. TicksAgree'
  BY DEF PInv, TypeOK, TasksAgree, TicksAgree, PingEnds, Moves
<1>4. OneAtATime'
  BY DEF PInv, TypeOK, OneAtATime, UnderWay, PingEnds, Moves
<1>5. Orderly'
  BY DEF PInv, TypeOK, TasksAgree, OneAtATime, Orderly, UnderWay, PingEnds, Moves
<1>6. FailuresAgree'
  BY DEF PInv, TypeOK, TasksAgree, OneAtATime, FailuresAgree, Doomed, UnderWay, PingEnds, Moves
<1>7. TickersAgree'
  BY DEF PInv, TypeOK, TasksAgree, TicksAgree, OneAtATime, FailuresAgree, TickersAgree, Doomed, UnderWay, PingEnds, Moves
<1>8. QED
  BY <1>1, <1>2, <1>3, <1>4, <1>5, <1>6, <1>7 DEF PInv

LEMMA PingBlocksStep ==
  ASSUME PInv, NEW t \in Starts, PingBlocks(t)
  PROVE  PInv'
<1> USE StartsAssumption DEF Calls, taskVars
<1>1. TypeOK'
  BY DEF PInv, TypeOK, PingBlocks, Moves
<1>2. TasksAgree'
  BY DEF PInv, TypeOK, TasksAgree, PingBlocks, Moves
<1>3. TicksAgree'
  BY DEF PInv, TypeOK, TasksAgree, TicksAgree, PingBlocks, Moves
<1>4. OneAtATime'
  BY DEF PInv, TypeOK, OneAtATime, UnderWay, PingBlocks, Moves
<1>5. Orderly'
  BY DEF PInv, TypeOK, TasksAgree, OneAtATime, Orderly, UnderWay, PingBlocks, Moves
<1>6. FailuresAgree'
  BY DEF PInv, TypeOK, TasksAgree, OneAtATime, FailuresAgree, Doomed, UnderWay, PingBlocks, Moves
<1>7. TickersAgree'
  BY DEF PInv, TypeOK, TasksAgree, TicksAgree, OneAtATime, FailuresAgree, TickersAgree, Doomed, UnderWay, PingBlocks, Moves
<1>8. QED
  BY <1>1, <1>2, <1>3, <1>4, <1>5, <1>6, <1>7 DEF PInv

LEMMA StopAfterFailureStep ==
  ASSUME PInv, NEW t \in Starts, StopAfterFailure(t)
  PROVE  PInv'
<1> USE StartsAssumption DEF Calls, taskVars
<1>1. TypeOK'
  BY DEF PInv, TypeOK, StopAfterFailure, Moves, Stop
<1>2. TasksAgree'
  BY DEF PInv, TypeOK, TasksAgree, StopAfterFailure, Moves, Stop
<1>3. TicksAgree'
  BY DEF PInv, TypeOK, TasksAgree, TicksAgree, StopAfterFailure, Moves, Stop
<1>4. OneAtATime'
  BY DEF PInv, TypeOK, OneAtATime, UnderWay, StopAfterFailure, Moves, Stop
<1>5. Orderly'
  BY DEF PInv, TypeOK, TasksAgree, OneAtATime, Orderly, UnderWay, StopAfterFailure, Moves, Stop
<1>6. FailuresAgree'
  BY DEF PInv, TypeOK, TasksAgree, OneAtATime, FailuresAgree, Doomed, UnderWay, StopAfterFailure, Moves, Stop
<1>7. TickersAgree'
  BY DEF PInv, TypeOK, TasksAgree, TicksAgree, OneAtATime, FailuresAgree, TickersAgree, Doomed, UnderWay, StopAfterFailure, Moves, Stop
<1>8. QED
  BY <1>1, <1>2, <1>3, <1>4, <1>5, <1>6, <1>7 DEF PInv

LEMMA ForgetAfterFailureStep ==
  ASSUME PInv, NEW t \in Starts, ForgetAfterFailure(t)
  PROVE  PInv'
<1> USE StartsAssumption DEF Calls, taskVars
<1>1. TypeOK'
  BY DEF PInv, TypeOK, ForgetAfterFailure, Moves
<1>2. TasksAgree'
  BY DEF PInv, TypeOK, TasksAgree, ForgetAfterFailure, Moves
<1>3. TicksAgree'
  BY DEF PInv, TypeOK, TasksAgree, TicksAgree, ForgetAfterFailure, Moves
<1>4. OneAtATime'
  BY DEF PInv, TypeOK, OneAtATime, UnderWay, ForgetAfterFailure, Moves
<1>5. Orderly'
  BY DEF PInv, TypeOK, TasksAgree, OneAtATime, Orderly, UnderWay, ForgetAfterFailure, Moves
<1>6. FailuresAgree'
  BY DEF PInv, TypeOK, TasksAgree, OneAtATime, FailuresAgree, Doomed, UnderWay, ForgetAfterFailure, Moves
<1>7. TickersAgree'
  BY DEF PInv, TypeOK, TasksAgree, TicksAgree, OneAtATime, FailuresAgree, TickersAgree, Doomed, UnderWay, ForgetAfterFailure, Moves
<1>8. QED
  BY <1>1, <1>2, <1>3, <1>4, <1>5, <1>6, <1>7 DEF PInv

LEMMA NextPInv ==
  ASSUME PInv, [Next]_vars
  PROVE  PInv'
<1>1. ASSUME NEW c \in Starts, CallStep(c) PROVE PInv'
  BY <1>1, FirstPingStep, StartRepeatedTaskStep, AssignStep, StopOldTaskStep,
     StartsAssumption DEF CallStep
<1>2. ASSUME NEW c \in Stops, CallStep(c) PROVE PInv'
  BY <1>2, CheckTaskStep, StopTaskStep, ForgetTaskStep, StartsAssumption DEF CallStep
<1>3. ASSUME NEW t \in Starts, TaskStep(t) \/ Tick(t) PROVE PInv'
  BY <1>3, TickStep, TakeTickStep, TakeDoneStep, PingEndsStep, PingBlocksStep,
     StopAfterFailureStep, ForgetAfterFailureStep DEF TaskStep
<1>4. CASE UNCHANGED vars
  BY <1>4 DEF vars, taskVars, Calls, PInv, TypeOK, TasksAgree, TicksAgree, OneAtATime,
     UnderWay, Orderly, FailuresAgree, TickersAgree, Doomed
<1>5. QED
  BY <1>1, <1>2, <1>3, <1>4 DEF Next, Calls

(* The inductive invariant: who owns each task and each running ticker, in  *)
(* every order of calls, ticks and failures.                                *)
THEOREM PingInvariance == Spec => []PInv
<1>1. Init => PInv
  <2> SUFFICES ASSUME Init PROVE PInv
    OBVIOUS
  <2> USE StartsAssumption DEF Init
  <2>1. TypeOK
    BY DEF TypeOK, Calls
  <2>2. TasksAgree /\ TicksAgree
    BY DEF TasksAgree, TicksAgree, Calls
  <2>3. OneAtATime
    BY DEF OneAtATime, UnderWay
  <2>4. Orderly
    BY DEF Orderly, Calls
  <2>5. FailuresAgree /\ TickersAgree
    BY DEF FailuresAgree, TickersAgree, Calls
  <2>6. QED
    BY <2>1, <2>2, <2>3, <2>4, <2>5 DEF PInv
<1>2. PInv /\ [Next]_vars => PInv'
  BY NextPInv
<1>3. QED
  BY <1>1, <1>2, PTL DEF Spec

(* Every variable keeps its type, with any number of calls.                 *)
THEOREM PingTypeCorrect == Spec => []TypeOK
<1>1. PInv => TypeOK
  BY DEF PInv
<1>2. QED
  BY <1>1, PingInvariance, PTL

(* A task that was stopped pings once more at most, whoever stopped it and  *)
(* whenever (repeatedTask.Stop leaves the tick in the channel).             *)
THEOREM OnlyOneLatePing == Spec => []OneLatePing
<1>1. PInv => OneLatePing
  <2>1. SUFFICES ASSUME PInv, NEW t \in Starts PROVE late[t] <= 1
    BY DEF OneLatePing
  <2>2. late[t] \in Nat
    BY <2>1 DEF PInv, TypeOK
  <2>3. late[t] > 0 => late[t] = 1
    BY <2>1 DEF PInv, TicksAgree
  <2>4. QED
    BY <2>2, <2>3
<1>2. QED
  BY <1>1, PingInvariance, PTL

(* Without overlapping calls and failing pings no call stops a task twice   *)
(* or dereferences nil (StopPingRepeatedly, PingRepeatedly).                *)
THEOREM OrderlyCallsDoNotCrash == Spec => []CrashNeedsFailure
<1>1. PInv => CrashNeedsFailure
  BY DEF PInv, Orderly, CrashNeedsFailure
<1>2. QED
  BY <1>1, PingInvariance, PTL

(* When no call is under way, the only ticker that runs is that of          *)
(* h2c.pingTask, unless two calls have overlapped, however pings failed.    *)
THEOREM StoppingIsComplete == Spec => []StopMeansStopped
<1>1. PInv => StopMeansStopped
  BY DEF PInv, TypeOK, FailuresAgree, TickersAgree, Doomed, StopMeansStopped, UnderWay, Calls
<1>2. QED
  BY <1>1, PingInvariance, PTL
================================================================================
