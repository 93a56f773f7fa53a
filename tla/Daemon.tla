--------------------------------- MODULE Daemon ---------------------------------
(****************************************************************************)
(* The processes of h2c on one machine (cli/cli.go, cli/shellrunner.go,     *)
(* cli/rpc/ipc_default.go, cli/daemon/daemon.go).  Every invocation of h2c  *)
(* is a process.  "start" becomes the background process and listens on a   *)
(* unix socket; every other command dials the socket, and starts a          *)
(* background process first if there is no socket file.                     *)
(*                                                                          *)
(* The file system and the sockets of the kernel are modelled from how      *)
(* these files use them: a socket file names the listener that was bound to *)
(* it; to bind fails while a file is there; to dial succeeds while the      *)
(* listener of the file is open; closing a listener removes the file,       *)
(* whoever's it is, each time, as the Go releases do that h2c is developed  *)
(* with (1.5 and 1.6), and then closes the socket; a process that exits     *)
(* closes its sockets and leaves its file.                                  *)
(****************************************************************************)
EXTENDS Naturals, FiniteSets

CONSTANTS
  Starts, Stops, Requests,  \* processes the user runs: h2c start, stop, and the rest
  Spares,      \* bound: the processes that the ones above may start
  NoProcess,   \* no process
  Attempts,    \* how often shellrunner.go runs h2c pid, 3 in the code
  Signals      \* the signals the background process may get

UserProcesses == Starts \cup Stops \cup Requests
Processes     == UserProcesses \cup Spares

ASSUME ProcessesAssumption ==
  /\ NoProcess \notin Processes
  /\ Starts \cap (Stops \cup Requests) = {} /\ Stops \cap Requests = {}
  /\ Spares \cap UserProcesses = {}
ASSUME AttemptsAssumption == Attempts \in Nat \ {0}
ASSUME SignalsAssumption == Signals \subseteq {"SIGINT", "SIGTERM"}

VARIABLES
  file,      \* whose socket the socket file is
  cmd,       \* the command of each process
  pc,        \* where its main goroutine is
  tries,     \* how often it ran h2c pid
  child,     \* the h2c pid it waits for
  conn,      \* its connection to a background process
  result,    \* how it ended
  listener,  \* the listening socket of each background process
  stopper,   \* the goroutines that execute stop(): for a client or for a signal
  signalled, \* has a background process got a signal that it handles?
  ending     \* history: what ended a background process, stop() or another cause

clientVars == <<cmd, pc, tries, child, result>>
vars == <<file, clientVars, conn, listener, stopper, signalled, ending>>

NoConnection == [to |-> NoProcess, state |-> "none", answered |-> FALSE]

TypeOK ==
  /\ file \in Processes \cup {NoProcess}
  /\ cmd \in [Processes -> {"none", "start", "stop", "request", "pid"}]
  /\ pc \in [Processes -> {"unused", "check", "listen", "bound", "open", "serving", "fork",
                           "try", "wait", "dial", "await", "end"}]
  /\ tries \in [Processes -> 0 .. Attempts]
  /\ child \in [Processes -> Processes \cup {NoProcess}]
  /\ conn \in [Processes -> [to : Processes \cup {NoProcess},
                             state : {"none", "queued", "accepted", "stopping", "closed"},
                             answered : BOOLEAN]]
  /\ result \in [Processes -> {"none", "answered", "failed"}]
  /\ listener \in [Processes -> {"none", "bound", "open", "unlinked", "closed"}]
  /\ stopper \in [Processes -> {"none", "unlink", "close", "exit"}]
  /\ signalled \in [Processes -> BOOLEAN]
  /\ ending \in [Processes -> {"none", "stop", "other"}]

Init ==
  /\ file = NoProcess
  /\ cmd = [p \in Processes |-> IF p \in Starts THEN "start"
                                ELSE IF p \in Stops THEN "stop"
                                ELSE IF p \in Requests THEN "request" ELSE "none"]
  /\ pc = [p \in Processes |-> IF p \in Spares THEN "unused" ELSE "check"]
  /\ tries = [p \in Processes |-> 0]
  /\ child = [p \in Processes |-> NoProcess]
  /\ conn = [p \in Processes |-> NoConnection]
  /\ result = [p \in Processes |-> "none"]
  /\ listener = [p \in Processes |-> "none"]
  /\ stopper = [p \in Processes |-> "none"]
  /\ signalled = [p \in Processes |-> FALSE]
  /\ ending = [p \in Processes |-> "none"]

--------------------------------------------------------------------------------
(* Clients                                                                  *)

GoTo(p, place) == pc' = [pc EXCEPT ![p] = place]

Ends(p, outcome) ==
  /\ GoTo(p, "end")
  /\ result' = [result EXCEPT ![p] = outcome]

(* IsListening: only the file counts.  A process that has not got here has  *)
(* not been run yet.  "start" asks the process that listens for its pid.    *)
IsListening(p) ==
  /\ pc[p] = "check"
  /\ \/ file # NoProcess /\ GoTo(p, "dial") /\ UNCHANGED result
     \/ file = NoProcess /\ cmd[p] = "stop" /\ Ends(p, "failed")
     \/ file = NoProcess /\ cmd[p] = "start" /\ GoTo(p, "listen") /\ UNCHANGED result
     \/ file = NoProcess /\ cmd[p] \in {"request", "pid"} /\ GoTo(p, "fork") /\ UNCHANGED result
  /\ UNCHANGED <<file, cmd, tries, child, conn, listener, stopper, signalled, ending>>

(* The process id of the next process.                                      *)
NextProcess == CHOOSE q \in Spares : pc[q] = "unused"

(* runDaemonShellCommand: "h2c start" is run and not waited for.            *)
ForkDaemon(p, q) ==
  /\ pc[p] = "fork"
  /\ pc[q] = "unused" /\ q = NextProcess
  /\ pc' = [pc EXCEPT ![p] = "try", ![q] = "check"]
  /\ cmd' = [cmd EXCEPT ![q] = "start"]
  /\ UNCHANGED <<file, tries, child, conn, result, listener, stopper, signalled, ending>>

(* "h2c pid" is run and waited for.  It is a client like others: if it      *)
(* finds no socket file it starts a background process of its own.          *)
ForkPid(p, q) ==
  /\ pc[p] = "try"
  /\ pc[q] = "unused" /\ q = NextProcess
  /\ pc' = [pc EXCEPT ![p] = "wait", ![q] = "check"]
  /\ cmd' = [cmd EXCEPT ![q] = "pid"]
  /\ child' = [child EXCEPT ![p] = q]
  /\ UNCHANGED <<file, tries, conn, result, listener, stopper, signalled, ending>>

(* h2c pid failed or could not be run: the next try, or none.               *)
TryFails(p) ==
  /\ tries' = [tries EXCEPT ![p] = @ + 1]
  /\ IF tries[p] + 1 = Attempts THEN Ends(p, "failed")
     ELSE GoTo(p, "try") /\ UNCHANGED result

PidEnds(p) ==
  /\ pc[p] = "wait"
  /\ pc[child[p]] = "end"
  /\ IF result[child[p]] = "answered"
     THEN GoTo(p, "dial") /\ UNCHANGED <<tries, result>>
     ELSE TryFails(p)
  /\ UNCHANGED <<file, cmd, child, conn, listener, stopper, signalled, ending>>

(* The system has no room for another process.                              *)
ForkFails(p) ==
  /\ \A q \in Spares : pc[q] # "unused"
  /\ \/ pc[p] = "fork" /\ Ends(p, "failed") /\ UNCHANGED tries
     \/ pc[p] = "try" /\ TryFails(p)
  /\ UNCHANGED <<file, cmd, child, conn, listener, stopper, signalled, ending>>

(* sendCommand: dial and write the command.                                 *)
Dial(p) ==
  /\ pc[p] = "dial"
  /\ IF file # NoProcess /\ listener[file] = "open"
     THEN /\ conn' = [conn EXCEPT ![p] =
                        [to |-> file, state |-> "queued", answered |-> FALSE]]
          /\ GoTo(p, "await") /\ UNCHANGED result
     ELSE Ends(p, "failed") /\ UNCHANGED conn
  /\ UNCHANGED <<file, cmd, tries, child, listener, stopper, signalled, ending>>

(* sendCommand reads to the end of the stream; without a result it reports  *)
(* a communication error.  "start" fails whatever it reads.                 *)
Await(p) ==
  /\ pc[p] = "await"
  /\ conn[p].state = "closed"
  /\ Ends(p, IF conn[p].answered /\ cmd[p] # "start" THEN "answered" ELSE "failed")
  /\ UNCHANGED <<file, cmd, tries, child, conn, listener, stopper, signalled, ending>>

ClientStep(p) ==
  \/ PidEnds(p) \/ ForkFails(p) \/ Dial(p) \/ Await(p)
  \/ \E q \in Spares : ForkDaemon(p, q) \/ ForkPid(p, q)

--------------------------------------------------------------------------------
(* The background process                                                   *)

(* os.Exit, the end of main, a panic, or a signal that is not handled.      *)
Exits(d, cause) ==
  /\ GoTo(d, "end")
  /\ ending' = [ending EXCEPT ![d] = cause]
  /\ conn' = [p \in Processes |-> IF conn[p].to = d THEN [conn[p] EXCEPT !.state = "closed"]
                                  ELSE conn[p]]
  /\ listener' = [listener EXCEPT ![d] = "closed"]
  /\ stopper' = [x \in Processes |-> IF x = d \/ conn[x].to = d THEN "none" ELSE stopper[x]]

(* Fault: a file that is in the way is removed first.                       *)
BindAnyway(d) ==
  /\ pc[d] = "listen"
  /\ file' = d
  /\ listener' = [listener EXCEPT ![d] = "bound"]
  /\ GoTo(d, "bound")
  /\ UNCHANGED <<cmd, tries, child, conn, result, stopper, signalled, ending>>

(* Listen: the file is created when the socket is bound; only then is the   *)
(* socket told to listen.                                                   *)
Bind(d) ==
  /\ pc[d] = "listen"
  /\ IF file = NoProcess
     THEN /\ file' = d
          /\ listener' = [listener EXCEPT ![d] = "bound"]
          /\ GoTo(d, "bound") /\ UNCHANGED result
     ELSE Ends(d, "failed") /\ UNCHANGED <<file, listener>>
  /\ UNCHANGED <<cmd, tries, child, conn, stopper, signalled, ending>>

Listen(d) ==
  /\ pc[d] = "bound"
  /\ listener' = [listener EXCEPT ![d] = "open"]
  /\ GoTo(d, "open")
  /\ UNCHANGED <<file, cmd, tries, child, conn, result, stopper, signalled, ending>>

(* stopOnSigterm: from here on an interrupt is handled.                     *)
NotifySignals(d) ==
  /\ pc[d] = "open"
  /\ GoTo(d, "serving")
  /\ UNCHANGED <<file, cmd, tries, child, conn, result, listener, stopper, signalled, ending>>

(* Run: accept, and execute the command in a goroutine.                     *)
Accept(d, p) ==
  /\ pc[d] = "serving"
  /\ listener[d] \in {"open", "unlinked"}
  /\ conn[p].to = d /\ conn[p].state = "queued"
  /\ conn' = [conn EXCEPT ![p].state = "accepted"]
  /\ UNCHANGED <<file, clientVars, listener, stopper, signalled, ending>>

(* Run returns at any error of Accept, the one of a closed listener among   *)
(* them, and main exits: the call of stop() after the return is never       *)
(* reached.                                                                 *)
AcceptFails(d) ==
  /\ pc[d] = "serving"
  /\ Exits(d, IF listener[d] = "closed" THEN "stop" ELSE "other")
  /\ UNCHANGED <<file, cmd, tries, child, result, signalled>>

(* A goroutine panics, or a connection calls os.Exit(-1).                   *)
Dies(d) ==
  /\ pc[d] = "serving"
  /\ Exits(d, "other")
  /\ UNCHANGED <<file, cmd, tries, child, result, signalled>>

(* Fault: the connection of "stop" is closed before the process is stopped. *)
AnswerAndClose(p) ==
  /\ conn[p].state = "accepted"
  /\ conn' = [conn EXCEPT ![p].answered = TRUE, ![p].state = "closed"]
  /\ stopper' = [stopper EXCEPT ![p] = IF cmd[p] = "stop" THEN "unlink" ELSE @]
  /\ UNCHANGED <<file, clientVars, listener, signalled, ending>>

(* Fault: the connection is not closed after the answer.                    *)
AnswerOnly(p) ==
  /\ conn[p].state = "accepted"
  /\ conn' = [conn EXCEPT ![p].answered = TRUE, ![p].state = "stopping"]
  /\ stopper' = [stopper EXCEPT ![p] = IF cmd[p] = "stop" THEN "unlink" ELSE @]
  /\ UNCHANGED <<file, clientVars, listener, signalled, ending>>

(* executeCommandAndCloseConnection: the result is written and the          *)
(* connection closed.  The one of "stop" stays open until the process ends. *)
ExecuteCommandAndCloseConnection(p) ==
  /\ conn[p].state = "accepted"
  /\ IF cmd[p] = "stop"
     THEN /\ conn' = [conn EXCEPT ![p].answered = TRUE, ![p].state = "stopping"]
          /\ stopper' = [stopper EXCEPT ![p] = "unlink"]
     ELSE /\ conn' = [conn EXCEPT ![p].answered = TRUE, ![p].state = "closed"]
          /\ UNCHANGED stopper
  /\ UNCHANGED <<file, clientVars, listener, signalled, ending>>

(* The process a stop() runs in: x is its client, or itself for a signal.   *)
StopsProcess(x) == IF cmd[x] = "stop" THEN conn[x].to ELSE x

(* Fault: stop() exits without closing the socket.                          *)
JustExit(x) ==
  /\ stopper[x] = "unlink"
  /\ stopper' = [stopper EXCEPT ![x] = "exit"]
  /\ UNCHANGED <<file, clientVars, conn, listener, signalled, ending>>

(* stop: sock.Close removes the file, then closes the socket ...            *)
Unlink(x) ==
  /\ stopper[x] = "unlink"
  /\ file' = NoProcess
  /\ listener' = [listener EXCEPT ![StopsProcess(x)] = IF @ = "open" THEN "unlinked" ELSE @]
  /\ stopper' = [stopper EXCEPT ![x] = "close"]
  /\ UNCHANGED <<clientVars, conn, signalled, ending>>

Close(x) ==
  /\ stopper[x] = "close"
  /\ listener' = [listener EXCEPT ![StopsProcess(x)] = "closed"]
  /\ stopper' = [stopper EXCEPT ![x] = "exit"]
  /\ UNCHANGED <<file, clientVars, conn, signalled, ending>>

(* ... and the process exits.                                               *)
Exit(x) ==
  /\ stopper[x] = "exit"
  /\ Exits(StopsProcess(x), "stop")
  /\ UNCHANGED <<file, cmd, tries, child, result, signalled>>

DaemonStep(d) ==
  \/ Bind(d) \/ Listen(d) \/ NotifySignals(d)
  \/ \E p \in Processes : Accept(d, p)

StopStep(x) == Unlink(x) \/ Close(x) \/ Exit(x)

--------------------------------------------------------------------------------
(* The user                                                                 *)

(* SIGINT ends in stop() once NotifySignals has run.                        *)
Interrupt(d) ==
  /\ "SIGINT" \in Signals
  /\ pc[d] = "serving" /\ ~signalled[d]
  /\ signalled' = [signalled EXCEPT ![d] = TRUE]
  /\ stopper' = [stopper EXCEPT ![d] = "unlink"]
  /\ UNCHANGED <<file, clientVars, conn, listener, ending>>

(* Any other signal, and SIGINT before that, end the process at once.       *)
Kill(d, signal) ==
  /\ pc[d] \in {"bound", "open"} \/ (pc[d] = "serving" /\ signal # "SIGINT")
  /\ Exits(d, "other")
  /\ UNCHANGED <<file, cmd, tries, child, result, signalled>>

IsRunning(p) == pc[p] \notin {"unused", "end"} /\ ~(p \in UserProcesses /\ pc[p] = "check")

(* "Make sure h2c is not running and remove the file."                      *)
RemoveFile ==
  /\ file # NoProcess
  /\ \A p \in Processes : ~IsRunning(p)
  /\ file' = NoProcess
  /\ UNCHANGED <<clientVars, conn, listener, stopper, signalled, ending>>

Next ==
  \/ \E p \in Processes : IsListening(p) \/ ClientStep(p) \/ ExecuteCommandAndCloseConnection(p)
  \/ \E d \in Processes : DaemonStep(d) \/ StopStep(d) \/ AcceptFails(d) \/ Dies(d)
  \/ \E d \in Processes : Interrupt(d) \/ \E signal \in Signals : Kill(d, signal)
  \/ RemoveFile

(* Processes and goroutines are scheduled.  "stop" and "pid" are executed   *)
(* at once; any other command may keep its goroutine for ever, in the calls *)
(* of Http2Client.tla that never return.  The user need not run any         *)
(* command, nor send a signal.                                              *)
Fairness ==
  /\ \A p \in Processes : WF_vars(ClientStep(p)) /\ WF_vars(StopStep(p))
  /\ \A p \in Processes :
       WF_vars(cmd[p] # "request" /\ ExecuteCommandAndCloseConnection(p))
  /\ \A p \in Spares : WF_vars(IsListening(p))
  /\ \A d \in Processes :
       WF_vars(DaemonStep(d)) /\ WF_vars(listener[d] = "closed" /\ AcceptFails(d))

Spec == Init /\ [][Next]_vars /\ Fairness

--------------------------------------------------------------------------------
(* Properties                                                               *)

(* The clients and the signal that stop() has been called for in process d. *)
StopCalls(d) ==
  {p \in Processes : \/ cmd[p] = "stop" /\ conn[p].to = d /\ conn[p].answered
                     \/ p = d /\ signalled[d]}

(* The second Close may remove the file of a process started since.         *)
StoppedTwice(d) == \E p, q \in StopCalls(d) : p # q

(* However many processes are started at once or while another stops, only  *)
(* one listens, unless some process was stopped twice (startDaemon,         *)
(* ipc.Listen, stop).                                                       *)
OneDaemonListens ==
  \A d, e \in Processes :
    listener[d] \in {"bound", "open"} /\ listener[e] \in {"bound", "open"} =>
      d = e \/ \E p \in Processes : StoppedTwice(p)

(* A socket file without a process is left by one that a signal, a panic,   *)
(* os.Exit or an error of Accept ended before it could close its socket:    *)
(* neither "stop" nor an interrupt of a process that serves, nor any race   *)
(* between them, leaves one behind (stop, Run).                             *)
StopLeavesNoFile == file # NoProcess /\ pc[file] = "end" => ending[file] # "stop"

(* When "h2c stop" returns with success the process it stopped is gone and  *)
(* so is its file, so that "h2c start" may follow, unless the process ended *)
(* otherwise while it was stopping (stop, sendCommand).                     *)
StoppedMeansGone ==
  \A p \in Processes :
    cmd[p] = "stop" /\ result[p] = "answered" =>
      /\ pc[conn[p].to] = "end"
      /\ file = conn[p].to => ending[file] # "stop"

(* The command has reached its goroutine, which may not come back.          *)
InHandler(p) == cmd[p] = "request" /\ conn[p].state = "accepted"

(* Every command that has been run ends, whoever stops or kills the         *)
(* background process meanwhile, but for those whose handler never returns; *)
(* besides them only background processes stay (sendCommand, Run).          *)
CommandsReturn ==
  <>[](\A p \in Processes : IsRunning(p) => pc[p] = "serving" \/ InHandler(p))
================================================================================
