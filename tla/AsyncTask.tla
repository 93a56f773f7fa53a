------------------------------- MODULE AsyncTask -------------------------------
(****************************************************************************)
(* The callback of a command (http2client/internal/util/asyncTask.go): two  *)
(* channels with room for one value each, written by the event loop and by  *)
(* the timer, read once by the goroutine that waits for the command.  The   *)
(* module is constant.                                                      *)
(****************************************************************************)
EXTENDS Naturals, Sequences

Failures == {"error", "timeout"}
Outcomes == {"ok"} \cup Failures

Tasks == [success : BOOLEAN,                      \* the channel holds a value
          error   : {<< >>} \cup {<<f>> : f \in Failures}]

NewAsyncTask == [success |-> FALSE, error |-> << >>]

(* Fault: a channel of errors with room for two.                            *)
RoomForTwo(task, outcome) ==
  IF outcome = "ok" THEN ~task.success ELSE Len(task.error) < 2

(* A send blocks while its channel is full.                                 *)
HasRoom(task, outcome) ==
  IF outcome = "ok" THEN ~task.success ELSE task.error = << >>

(* CompleteSuccessfully, CompleteWithError and the timer.                   *)
Complete(task, outcome) ==
  IF outcome = "ok" THEN [task EXCEPT !.success = TRUE]
  ELSE [task EXCEPT !.error = Append(@, outcome)]

(* What the select of WaitForCompletion may take.                           *)
Available(task) ==
  (IF task.success THEN {"ok"} ELSE {}) \cup {task.error[k] : k \in DOMAIN task.error}

Taken(task, outcome) ==
  IF outcome = "ok" THEN [task EXCEPT !.success = FALSE]
  ELSE [task EXCEPT !.error = << >>]
================================================================================
