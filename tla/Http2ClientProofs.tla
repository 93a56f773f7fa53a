--------------------------- MODULE Http2ClientProofs ---------------------------
(****************************************************************************)
(* Proofs about the goroutines around a connection, for any number of calls *)
(* and event loops: the types, that the event loop never waits for a caller *)
(* that has gone, when a call dereferences nil, and what loses a connection.*)
(****************************************************************************)
EXTENDS Http2Client, TLAPS

--------------------------------------------------------------------------------
(* The inductive invariant                                                  *)

(* The command that loop l is about to complete for the first time.         *)
Pending(l) ==
  {c \in Commands :
     sends[l] # << >> /\ sends[l][1].cmd = c /\ ~sends[l][1].again}

(* The commands whose first completion loop l owes.                         *)
Owed(l) == inFlight[l] \cup Pending(l)

(* The command waits for its answer, or its call has returned.              *)
PastSend(c) == pc[c] \in {"waiting", "returned"}

(* Nobody but its timer has written to the callback of a command that is    *)
(* not completed: the call has returned only if it took the timeout.        *)
OnlyTimedOut(c) ==
  /\ ~task[c].success
  /\ \/ pc[c] = "waiting" /\ timer[c] = "running" /\ task[c].error = << >>
     \/ pc[c] = "waiting" /\ timer[c] = "sent" /\ task[c].error = <<"timeout">>
     \/ pc[c] = "returned" /\ timer[c] = "sent" /\ task[c].error = << >>

(* Some Disconnect has gone through.                                        *)
Disconnected == \E d \in Disconnects : pc[d] = "returned" /\ target[d] # NoLoop

(* The callback of a command that is not sent yet is new, and nobody but    *)
(* the timer has written to that of a command that is owed.                 *)
TasksFit ==
  /\ \A c \in Commands : ~PastSend(c) => task[c] = NewAsyncTask /\ timer[c] = "off"
  /\ \A l \in Loops : \A c \in Owed(l) : OnlyTimedOut(c)

(* A first completion is owed once.                                         *)
OneOwner ==
  /\ \A l \in Loops : inFlight[l] \cap Pending(l) = {}
  /\ \A k, l \in Loops : k # l => Owed(k) \cap Owed(l) = {}

(* A loop sends for one command at a time; what it sends after the first    *)
(* completion is owed by no loop.                                           *)
SendsFit ==
  \A l \in Loops : sends[l] # << >> =>
    /\ PastSend(sends[l][1].cmd)
    /\ \A k \in 2 .. Len(sends[l]) :
         sends[l][k].again /\ sends[l][k].cmd = sends[l][1].cmd
    /\ sends[l][1].again => \A k \in Loops : sends[l][1].cmd \notin Owed(k)

(* The call has seen h2c.loop not to be nil, or has stored a loop there.    *)
Relies(c) == read[c] # "loop" \/ pc[c] \in {"match", "mismatch", "report", "send"}

(* A call that relies on h2c.loop finds it unless a Disconnect has gone     *)
(* through.                                                                 *)
ClientFits ==
  /\ \A c \in Calls : pc[c] = "forget" => c \in Disconnects
  /\ \A c \in Calls : pc[c] \in {"store", "sending", "forget"} => target[c] # NoLoop
  /\ \A c \in Calls : Relies(c) /\ client = NoLoop => Disconnected
  /\ crashed => Disconnected

HInv == TypeOK /\ TasksFit /\ OneOwner /\ SendsFit /\ ClientFits

--------------------------------------------------------------------------------
(* Lemmas                                                                   *)

LEMMA EndOfEventType ==
  ASSUME TypeOK, NEW l \in Loops, NEW down, EndOfEvent(l, down)
  PROVE  /\ status' \in [Loops -> {"unused", "running", "writing", "returned"}]
         /\ stop' \in [Loops -> BOOLEAN]
         /\ terminated' \in [Loops -> BOOLEAN]
<1>1. CASE down
  BY <1>1 DEF EndOfEvent, TypeOK
<1>2. CASE ~down
  BY <1>2 DEF EndOfEvent, TypeOK
<1> QED
  BY <1>1, <1>2

LEMMA WritesType ==
  ASSUME TypeOK, NEW l \in Loops, Writes(l)
  PROVE  /\ status' \in [Loops -> {"unused", "running", "writing", "returned"}]
         /\ stop' \in [Loops -> BOOLEAN]
         /\ terminated' \in [Loops -> BOOLEAN]
BY DEF Writes, TypeOK

(* A loop sends to one of the commands.                                     *)
LEMMA SendsType ==
  ASSUME TypeOK, NEW l \in Loops, sends[l] # << >>
  PROVE  /\ sends[l] \in Seq(Completion)
         /\ Len(sends[l]) \in Nat /\ Len(sends[l]) > 0
         /\ Head(sends[l]) = sends[l][1]
         /\ sends[l][1] \in Completion
BY DEF TypeOK

(* A callback stays one, whatever is taken from it or sent to it while      *)
(* there is room.                                                           *)
LEMMA TaskTypes ==
  ASSUME NEW a \in Tasks, NEW outcome \in Outcomes
  PROVE  /\ Taken(a, outcome) \in Tasks
         /\ HasRoom(a, outcome) => Complete(a, outcome) \in Tasks
<1> DEFINE Errors == {<< >>} \cup {<<f>> : f \in Failures}
<1>1. Tasks = [success : BOOLEAN, error : Errors]
  BY DEF Tasks
<1>2. << >> \in Errors /\ \A f \in Failures : Append(<< >>, f) \in Errors
  OBVIOUS
<1>3. outcome # "ok" => outcome \in Failures
  BY DEF Outcomes
<1> HIDE DEF Errors
<1> QED
  BY <1>1, <1>2, <1>3 DEF Taken, Complete, HasRoom

(* A call that was not past its send, and does not wait now, changes        *)
(* nothing for the commands that are.                                       *)
LEMMA CallMoves ==
  ASSUME HInv, NEW c \in Calls, NEW to, to # "waiting",
         ~PastSend(c),
         pc' = [pc EXCEPT ![c] = to],
         UNCHANGED <<task, timer, sends, inFlight>>
  PROVE  TasksFit' /\ OneOwner' /\ SendsFit'
<1>1. /\ \A d \in Calls : d # c => pc'[d] = pc[d]
      /\ \A d \in Calls : PastSend(d) => d # c /\ PastSend(d)'
  BY DEF HInv, TypeOK, PastSend
<1>2. \A l \in Loops : Owed(l)' = Owed(l) /\ Pending(l)' = Pending(l) /\ inFlight'[l] = inFlight[l]
  BY DEF Owed, Pending
<1>3. \A l \in Loops : Owed(l) \subseteq Commands
  BY DEF Owed, Pending, HInv, TypeOK
<1>4. TasksFit'
  <2>1. ASSUME NEW d \in Commands, ~PastSend(d)'
        PROVE  task'[d] = NewAsyncTask /\ timer'[d] = "off"
    <3>1. ~PastSend(d)
      BY <1>1, <2>1 DEF Calls
    <3> QED
      BY <3>1 DEF HInv, TasksFit
  <2>2. ASSUME NEW l \in Loops, NEW d \in Owed(l)' PROVE OnlyTimedOut(d)'
    <3>1. d \in Owed(l) /\ d \in Calls
      BY <1>2, <1>3 DEF Calls
    <3>2. OnlyTimedOut(d)
      BY <3>1 DEF HInv, TasksFit
    <3>3. pc'[d] = pc[d]
      BY <1>1, <3>1, <3>2 DEF OnlyTimedOut, PastSend
    <3> QED
      BY <3>2, <3>3 DEF OnlyTimedOut
  <2> QED
    BY <2>1, <2>2 DEF TasksFit
<1>5. OneOwner'
  BY <1>2 DEF HInv, OneOwner
<1>6. SendsFit'
  <2> SUFFICES ASSUME NEW l \in Loops, sends[l] # << >>
               PROVE  /\ PastSend(sends[l][1].cmd)'
                      /\ \A k \in 2 .. Len(sends[l]) :
                           sends[l][k].again /\ sends[l][k].cmd = sends[l][1].cmd
                      /\ sends[l][1].again => \A k \in Loops : sends[l][1].cmd \notin Owed(k)'
    BY DEF SendsFit
  <2>1. sends[l][1].cmd \in Calls
    BY SendsType DEF HInv, Completion, Calls
  <2> QED
    BY <1>1, <1>2, <2>1 DEF HInv, SendsFit
<1> QED
  BY <1>4, <1>5, <1>6

(* A call goes on, with the client it relies on.                            *)
LEMMA ClientStays ==
  ASSUME HInv, NEW c \in Calls, NEW to,
         pc[c] # "returned",
         pc' = [pc EXCEPT ![c] = to],
         to = "forget" => c \in Disconnects,
         to \in {"store", "sending", "forget"} => target[c] # NoLoop,
         to \notin {"match", "mismatch", "report", "send"},
         UNCHANGED <<client, read, target, crashed>>
  PROVE  ClientFits'
<1>1. pc'[c] = to /\ \A d \in Calls : d # c => pc'[d] = pc[d]
  BY DEF HInv, TypeOK
<1>2. Disconnected => Disconnected'
  BY <1>1 DEF Disconnected, Calls
<1>3. \A d \in Calls : Relies(d)' => Relies(d)
  BY <1>1 DEF Relies
<1> QED
  BY <1>1, <1>2, <1>3 DEF HInv, ClientFits

(* Only callbacks, timers and what the loops do change.                     *)
LEMMA ClientUntouched ==
  ASSUME HInv, UNCHANGED <<client, pc, read, target, crashed>>
  PROVE  ClientFits'
BY DEF HInv, ClientFits, Disconnected, Relies

--------------------------------------------------------------------------------
(* Calls                                                                    *)

(* A call that reads h2c.loop, or a field of what it points to, goes on     *)
(* from and to places before it sends; where h2c.loop is nil it goes to one *)
(* that relies on h2c.loop only if it relied on it already.                 *)
LEMMA TableFacts ==
  /\ DOMAIN IfConnected = {"complete", "ready", "bare", "connect", "match", "mismatch", "enter"}
  /\ \A p \in DOMAIN IfConnected : \A s \in IfConnected[p] \cup IfNotConnected[p] :
       /\ s[1] \in Places \ {"store", "sending", "waiting", "forget"}
       /\ s[2] \in {"loop", "Host"}
  /\ \A p \in DOMAIN IfConnected \ {"match", "mismatch"} : \A s \in IfNotConnected[p] :
       s[2] = "loop" /\ s[1] \notin {"match", "mismatch", "report", "send"}
  /\ DOMAIN AfterHost = {"complete", "connect", "match", "report"}
  /\ DOMAIN AfterPort = {"complete", "connect", "match", "report"}
  /\ \A p \in DOMAIN AfterHost : \A s \in AfterHost[p] \cup AfterPort[p] :
       /\ s[1] \in Places \ {"store", "sending", "waiting", "forget"}
       /\ s[2] \in {"loop", "Host", "Port"}
BY DEF IfConnected, IfNotConnected, AfterHost, AfterPort, Places

(* A call goes on to one of the places next; it did not rely on h2c.loop    *)
(* only if h2c.loop is there, or it does not rely on it now.                *)
LEMMA ReadsOnStep ==
  ASSUME HInv, NEW c \in Calls, NEW field, NEW next,
         pc[c] \notin {"waiting", "returned"},
         \A s \in next : /\ s[1] \in Places \ {"store", "sending", "waiting", "forget"}
                         /\ s[2] \in {"loop", "Host", "Port", "terminated"},
         \/ client # NoLoop
         \/ Relies(c)
         \/ \A s \in next : s[2] = "loop" /\ s[1] \notin {"match", "mismatch", "report", "send"},
         ReadsOn(c, field, next)
  PROVE  HInv'
<1>1. PICK s \in next : /\ pc' = [pc EXCEPT ![c] = s[1]]
                        /\ read' = [read EXCEPT ![c] = s[2]]
  BY DEF ReadsOn
<1>2. UNCHANGED <<client, target, task, timer, loopVars, crashed, rivals>>
  BY DEF ReadsOn
<1>3. TypeOK'
  BY <1>1, <1>2 DEF HInv, TypeOK, loopVars
<1>4. ClientFits'
  <2>1. /\ pc'[c] = s[1] /\ read'[c] = s[2]
        /\ \A d \in Calls : d # c => pc'[d] = pc[d] /\ read'[d] = read[d]
    BY <1>1 DEF HInv, TypeOK
  <2>2. Disconnected => Disconnected'
    BY <1>2, <2>1 DEF Disconnected, Calls
  <2>3. Relies(c)' => client # NoLoop \/ Relies(c)
    BY <2>1 DEF Relies
  <2>4. \A d \in Calls : d # c => Relies(d)' = Relies(d)
    BY <2>1 DEF Relies
  <2> QED
    BY <1>2, <2>1, <2>2, <2>3, <2>4 DEF HInv, ClientFits
<1>5. TasksFit' /\ OneOwner' /\ SendsFit'
  BY <1>1, <1>2, CallMoves DEF PastSend, loopVars
<1> QED
  BY <1>3, <1>4, <1>5 DEF HInv

LEMMA ChecksStep ==
  ASSUME HInv, NEW c \in Calls,
         CheckLoop(c) \/ CheckTerminated(c) \/ ReadHost(c) \/ ReadPort(c)
  PROVE  HInv'
<1>1. CASE CheckLoop(c)
  <2>1. pc[c] \in DOMAIN IfConnected /\ pc[c] \notin {"waiting", "returned"}
    BY <1>1, TableFacts DEF CheckLoop
  <2>2. CASE client = NoLoop
    <3>1. pc[c] \in {"match", "mismatch"} => Relies(c)
      BY DEF Relies
    <3> QED
      BY <1>1, <2>1, <2>2, <3>1, TableFacts, ReadsOnStep DEF CheckLoop
  <2>3. CASE client # NoLoop
    <3>1. ReadsOn(c, "loop", {<<pc[c], "terminated">>})
      BY <1>1, <2>3 DEF CheckLoop
    <3>2. pc[c] \in Places \ {"store", "sending", "waiting", "forget"}
      BY <2>1, TableFacts DEF HInv, TypeOK
    <3>3. \A s \in {<<pc[c], "terminated">>} : s[1] = pc[c] /\ s[2] = "terminated"
      OBVIOUS
    <3> QED
      BY <2>1, <2>3, <3>1, <3>2, <3>3, ReadsOnStep
  <2> QED
    BY <2>2, <2>3
<1>2. CASE CheckTerminated(c)
  <2>1. PICK next \in {IfConnected[pc[c]], IfNotConnected[pc[c]]} :
          ReadsOn(c, "terminated", next)
    BY <1>2 DEF CheckTerminated
  <2>2. pc[c] \in DOMAIN IfConnected /\ pc[c] \notin {"waiting", "returned"} /\ client # NoLoop
    BY <1>2, TableFacts DEF CheckTerminated
  <2> QED
    BY <2>1, <2>2, TableFacts, ReadsOnStep
<1>3. CASE ReadHost(c)
  <2>1. /\ pc[c] \in DOMAIN AfterHost /\ pc[c] \notin {"waiting", "returned"}
        /\ client # NoLoop
        /\ ReadsOn(c, "Host", AfterHost[pc[c]])
    BY <1>3, TableFacts DEF ReadHost
  <2> QED
    BY <2>1, TableFacts, ReadsOnStep
<1>4. CASE ReadPort(c)
  <2>1. /\ pc[c] \in DOMAIN AfterHost /\ pc[c] \notin {"waiting", "returned"}
        /\ client # NoLoop
        /\ ReadsOn(c, "Port", AfterPort[pc[c]])
    BY <1>4, TableFacts DEF ReadPort
  <2> QED
    BY <2>1, TableFacts, ReadsOnStep
<1> QED
  BY <1>1, <1>2, <1>3, <1>4

LEMMA DereferenceNilStep ==
  ASSUME HInv, NEW c \in Calls, DereferenceNil(c)
  PROVE  HInv'
<1>1. Disconnected
  BY DEF DereferenceNil, HInv, ClientFits, Relies
<1>2. UNCHANGED <<client, callVars, loopVars, rivals>> /\ crashed' = TRUE
  BY DEF DereferenceNil
<1>3. TypeOK'
  BY <1>2 DEF HInv, TypeOK, callVars, loopVars
<1>4. ClientFits'
  BY <1>1, <1>2 DEF HInv, ClientFits, Disconnected, Relies, callVars
<1>5. TasksFit' /\ OneOwner' /\ SendsFit'
  BY <1>2 DEF HInv, TasksFit, OneOwner, SendsFit, Owed, Pending, PastSend,
              OnlyTimedOut, callVars, loopVars
<1> QED
  BY <1>3, <1>4, <1>5 DEF HInv

LEMMA DialFailsStep ==
  ASSUME HInv, NEW c \in Calls, DialFails(c)
  PROVE  HInv'
<1>1. /\ pc[c] = "dialing" /\ pc' = [pc EXCEPT ![c] = "returned"]
      /\ UNCHANGED <<client, read, target, task, timer, loopVars, crashed, rivals>>
  BY DEF DialFails, Goes
<1>2. TypeOK'
  BY <1>1 DEF HInv, TypeOK, Places, loopVars
<1>3. ClientFits'
  BY <1>1, ClientStays
<1>4. TasksFit' /\ OneOwner' /\ SendsFit'
  BY <1>1, CallMoves DEF PastSend, loopVars
<1> QED
  BY <1>2, <1>3, <1>4 DEF HInv

LEMMA DialSucceedsStep ==
  ASSUME HInv, NEW c \in Calls, NEW l \in Loops, DialSucceeds(c, l)
  PROVE  HInv'
<1>1. /\ pc[c] = "dialing" /\ pc' = [pc EXCEPT ![c] = "store"]
      /\ target' = [target EXCEPT ![c] = l]
      /\ UNCHANGED <<client, read, task, timer, sends, inFlight, crashed>>
  BY DEF DialSucceeds, Goes
<1>2. TypeOK'
  BY <1>1 DEF DialSucceeds, HInv, TypeOK, Places
<1>3. ClientFits'
  <2>1. /\ pc'[c] = "store" /\ target'[c] = l
        /\ \A d \in Calls : d # c => pc'[d] = pc[d] /\ target'[d] = target[d]
    BY <1>1 DEF HInv, TypeOK
  <2>2. Disconnected => Disconnected'
    BY <1>1, <2>1 DEF Disconnected, Calls
  <2>3. \A d \in Calls : Relies(d)' => Relies(d)
    BY <1>1, <2>1 DEF Relies
  <2> QED
    BY <1>1, <2>1, <2>2, <2>3, LoopsAssumption DEF HInv, ClientFits
<1>4. TasksFit' /\ OneOwner' /\ SendsFit'
  BY <1>1, CallMoves DEF PastSend
<1> QED
  BY <1>2, <1>3, <1>4 DEF HInv

LEMMA StoreStep ==
  ASSUME HInv, NEW c \in Calls, Store(c)
  PROVE  HInv'
<1>1. PICK to \in {"match", "returned"} : pc' = [pc EXCEPT ![c] = to]
  BY DEF Store, Goes
<1>2. /\ pc[c] = "store" /\ client' = target[c]
      /\ rivals' = [rivals EXCEPT ![target[c]] = UnderWay(c)]
      /\ UNCHANGED <<read, target, task, timer, loopVars, crashed>>
  BY DEF Store, Goes
<1>3. target[c] \in Loops
  BY <1>2 DEF HInv, TypeOK, ClientFits
<1>4. TypeOK'
  <2>1. UnderWay(c) \in SUBSET Calls
    BY DEF UnderWay
  <2>2. rivals' \in [Loops -> SUBSET Calls]
    BY <1>2, <2>1 DEF HInv, TypeOK
  <2> QED
    BY <1>1, <1>2, <1>3, <2>2 DEF HInv, TypeOK, Places, loopVars
<1>5. ClientFits'
  <2>1. pc'[c] = to /\ \A d \in Calls : d # c => pc'[d] = pc[d]
    BY <1>1 DEF HInv, TypeOK
  <2>2. client' # NoLoop
    BY <1>2, <1>3, LoopsAssumption
  <2>3. Disconnected => Disconnected'
    BY <1>2, <2>1 DEF Disconnected, Calls
  <2> QED
    BY <1>2, <2>1, <2>2, <2>3 DEF HInv, ClientFits
<1>6. TasksFit' /\ OneOwner' /\ SendsFit'
  BY <1>1, <1>2, CallMoves DEF PastSend, loopVars
<1> QED
  BY <1>4, <1>5, <1>6 DEF HInv

LEMMA SendStep ==
  ASSUME HInv, NEW c \in Calls, Send(c)
  PROVE  HInv'
<1>1. /\ client # NoLoop
      /\ pc[c] = "send" /\ pc' = [pc EXCEPT ![c] = "sending"]
      /\ target' = [target EXCEPT ![c] = client]
      /\ UNCHANGED <<client, read, task, timer, loopVars, crashed, rivals>>
  BY DEF Send, Goes
<1>2. TypeOK'
  BY <1>1 DEF HInv, TypeOK, Places, loopVars
<1>3. ClientFits'
  <2>1. /\ pc'[c] = "sending" /\ target'[c] = client
        /\ \A d \in Calls : d # c => pc'[d] = pc[d] /\ target'[d] = target[d]
    BY <1>1 DEF HInv, TypeOK
  <2>2. Disconnected => Disconnected'
    BY <1>1, <2>1 DEF Disconnected, Calls
  <2> QED
    BY <1>1, <2>1, <2>2 DEF HInv, ClientFits
<1>4. TasksFit' /\ OneOwner' /\ SendsFit'
  BY <1>1, CallMoves DEF PastSend, loopVars
<1> QED
  BY <1>2, <1>3, <1>4 DEF HInv

LEMMA ForgetStep ==
  ASSUME HInv, NEW c \in Calls, Forget(c)
  PROVE  HInv'
<1>1. /\ pc[c] = "forget" /\ pc' = [pc EXCEPT ![c] = "returned"]
      /\ client' = NoLoop
      /\ UNCHANGED <<read, target, task, timer, loopVars, crashed, rivals>>
  BY DEF Forget, Goes
<1>2. TypeOK'
  BY <1>1 DEF HInv, TypeOK, Places, loopVars
<1>3. ClientFits'
  <2>1. pc'[c] = "returned" /\ \A d \in Calls : d # c => pc'[d] = pc[d]
    BY <1>1 DEF HInv, TypeOK
  <2>2. c \in Disconnects /\ target[c] # NoLoop
    BY <1>1 DEF HInv, ClientFits
  <2>3. Disconnected'
    BY <1>1, <2>1, <2>2 DEF Disconnected
  <2> QED
    BY <1>1, <2>1, <2>3 DEF HInv, ClientFits
<1>4. TasksFit' /\ OneOwner' /\ SendsFit'
  BY <1>1, CallMoves DEF PastSend, loopVars
<1> QED
  BY <1>2, <1>3, <1>4 DEF HInv

LEMMA AnyCallStep ==
  ASSUME HInv, NEW c \in Calls, CallStep(c) \/ Dials(c)
  PROVE  HInv'
BY ChecksStep, DereferenceNilStep, DialFailsStep, DialSucceedsStep, StoreStep, SendStep,
   ForgetStep DEF CallStep, Dials

(* The answer of a command that is still owed can only be the timeout.      *)
LEMMA ReceiveStep ==
  ASSUME HInv, NEW c \in Commands, NEW outcome \in Outcomes, Receive(c, outcome)
  PROVE  HInv'
<1>1. /\ outcome \in Available(task[c])
      /\ pc[c] = "waiting" /\ pc' = [pc EXCEPT ![c] = "returned"]
      /\ task' = [task EXCEPT ![c] = Taken(task[c], outcome)]
      /\ UNCHANGED <<client, read, target, timer, loopVars, crashed, rivals>>
  BY DEF Receive, Goes
<1>2. c \in Calls
  BY DEF Calls
<1>3. task[c] \in Tasks /\ Taken(task[c], outcome) \in Tasks
  BY TaskTypes DEF HInv, TypeOK
<1>4. TypeOK'
  BY <1>1, <1>2, <1>3 DEF HInv, TypeOK, Places, loopVars
<1>5. ClientFits'
  BY <1>1, <1>2, ClientStays
<1>6. /\ pc'[c] = "returned" /\ task'[c] = Taken(task[c], outcome)
      /\ \A d \in Calls : d # c => pc'[d] = pc[d]
      /\ \A d \in Commands : d # c => task'[d] = task[d]
      /\ timer' = timer
  BY <1>1, <1>2 DEF HInv, TypeOK
<1>7. \A l \in Loops : Owed(l)' = Owed(l) /\ Pending(l)' = Pending(l)
  BY <1>1 DEF Owed, Pending, loopVars
<1>8. TasksFit'
  <2>1. ASSUME NEW d \in Commands, ~PastSend(d)'
        PROVE  task'[d] = NewAsyncTask /\ timer'[d] = "off"
    BY <1>6, <2>1 DEF HInv, TasksFit, PastSend, Calls
  <2>2. ASSUME NEW l \in Loops, NEW d \in Owed(l)' PROVE OnlyTimedOut(d)'
    <3>1. d \in Owed(l) /\ d \in Commands
      BY <1>7 DEF Owed, Pending, HInv, TypeOK
    <3>2. OnlyTimedOut(d)
      BY <3>1 DEF HInv, TasksFit
    <3>3. CASE d = c
      <4>1. /\ ~task[c].success
            /\ \/ timer[c] = "running" /\ task[c].error = << >>
               \/ timer[c] = "sent" /\ task[c].error = <<"timeout">>
        BY <1>1, <3>2, <3>3 DEF OnlyTimedOut
      <4>2. task[c].error = <<"timeout">> /\ timer[c] = "sent" /\ outcome = "timeout"
        BY <1>1, <4>1 DEF Available
      <4>3. /\ Taken(task[c], outcome).error = << >>
            /\ ~Taken(task[c], outcome).success
        BY <1>3, <4>1, <4>2 DEF Taken, Tasks
      <4> QED
        BY <1>6, <3>3, <4>2, <4>3 DEF OnlyTimedOut
    <3>4. CASE d # c
      BY <1>6, <3>1, <3>2, <3>4 DEF OnlyTimedOut, Calls
    <3> QED
      BY <3>3, <3>4
  <2> QED
    BY <2>1, <2>2 DEF TasksFit
<1>9. OneOwner'
  BY <1>1, <1>7 DEF HInv, OneOwner, loopVars
<1>10. SendsFit'
  <2>1. \A d \in Commands : PastSend(d) => PastSend(d)'
    BY <1>6 DEF PastSend, Calls
  <2>2. \A l \in Loops : sends[l] # << >> => sends[l][1].cmd \in Commands
    BY SendsType DEF HInv, Completion
  <2>3. sends' = sends
    BY <1>1 DEF loopVars
  <2> QED
    BY <1>7, <2>1, <2>2, <2>3 DEF HInv, SendsFit
<1> QED
  BY <1>4, <1>5, <1>8, <1>9, <1>10 DEF HInv

LEMMA TimerFiresStep ==
  ASSUME HInv, NEW c \in Commands, TimerFires(c)
  PROVE  HInv'
<1>1. /\ timer[c] = "running" /\ timer' = [timer EXCEPT ![c] = "sent"]
      /\ task[c].error = << >>
      /\ task' = [task EXCEPT ![c] = Complete(task[c], "timeout")]
      /\ UNCHANGED <<client, read, pc, target, loopVars, crashed, rivals>>
  BY DEF TimerFires, HasRoom
<1>2. task[c] \in Tasks /\ Complete(task[c], "timeout") \in Tasks
  BY <1>1, TaskTypes DEF HInv, TypeOK, HasRoom, Outcomes, Failures
<1>3. TypeOK'
  BY <1>1, <1>2 DEF HInv, TypeOK, loopVars
<1>4. ClientFits'
  BY <1>1, ClientUntouched
<1>5. /\ timer'[c] = "sent" /\ task'[c] = Complete(task[c], "timeout")
      /\ \A d \in Commands : d # c => task'[d] = task[d] /\ timer'[d] = timer[d]
  BY <1>1 DEF HInv, TypeOK
<1>6. \A l \in Loops : Owed(l)' = Owed(l) /\ Pending(l)' = Pending(l)
  BY <1>1 DEF Owed, Pending, loopVars
<1>7. TasksFit'
  <2>1. ASSUME NEW d \in Commands, ~PastSend(d)'
        PROVE  task'[d] = NewAsyncTask /\ timer'[d] = "off"
    BY <1>1, <1>5, <2>1 DEF HInv, TasksFit, PastSend
  <2>2. ASSUME NEW l \in Loops, NEW d \in Owed(l)' PROVE OnlyTimedOut(d)'
    <3>1. d \in Owed(l) /\ d \in Commands
      BY <1>6 DEF Owed, Pending, HInv, TypeOK
    <3>2. OnlyTimedOut(d)
      BY <3>1 DEF HInv, TasksFit
    <3>3. CASE d = c
      <4>1. ~task[c].success /\ pc[c] = "waiting"
        BY <1>1, <3>2, <3>3 DEF OnlyTimedOut
      <4>2. Append(<< >>, "timeout") = <<"timeout">>
        OBVIOUS
      <4>3. /\ Complete(task[c], "timeout").error = <<"timeout">>
            /\ ~Complete(task[c], "timeout").success
        BY <1>1, <1>2, <4>1, <4>2 DEF Complete, Tasks
      <4> QED
        BY <1>1, <1>5, <3>3, <4>1, <4>3 DEF OnlyTimedOut
    <3>4. CASE d # c
      BY <1>1, <1>5, <3>1, <3>2, <3>4 DEF OnlyTimedOut
    <3> QED
      BY <3>3, <3>4
  <2> QED
    BY <2>1, <2>2 DEF TasksFit
<1>8. OneOwner' /\ SendsFit'
  BY <1>1, <1>6 DEF HInv, OneOwner, SendsFit, PastSend, loopVars
<1> QED
  BY <1>3, <1>4, <1>7, <1>8 DEF HInv

--------------------------------------------------------------------------------
(* The event loop and the frame reader                                      *)

(* A step that leaves the commands and what is owed to them alone.          *)
LEMMA LoopIdles ==
  ASSUME HInv, TypeOK',
         UNCHANGED <<client, callVars, sends, inFlight, crashed, rivals>>
  PROVE  HInv'
<1>1. ClientFits'
  BY ClientUntouched DEF callVars
<1>2. TasksFit' /\ OneOwner' /\ SendsFit'
  BY DEF HInv, TasksFit, OneOwner, SendsFit, Owed, Pending, PastSend, OnlyTimedOut, callVars
<1> QED
  BY <1>1, <1>2 DEF HInv

LEMMA TakeCommandStep ==
  ASSUME HInv, NEW l \in Loops, NEW c \in Commands, TakeCommand(l, c)
  PROVE  HInv'
<1>1. /\ sends[l] = << >>
      /\ pc[c] = "sending" /\ pc' = [pc EXCEPT ![c] = "waiting"]
      /\ timer' = [timer EXCEPT ![c] = "running"]
      /\ UNCHANGED <<client, read, target, task, shutdown, reader, crashed, rivals>>
  BY DEF TakeCommand, AtSelect
<1>2. c \in Calls
  BY DEF Calls
<1>3. PICK result \in {"ok", "error"} :
        \/ /\ inFlight' = [inFlight EXCEPT ![l] = inFlight[l] \cup {c}]
           /\ Writes(l) \/ EndOfEvent(l, shutdown[l])
           /\ sends' = sends
        \/ /\ sends' = [sends EXCEPT ![l] = <<[cmd |-> c, outcome |-> result, again |-> FALSE]>>]
           /\ UNCHANGED <<inFlight, status, stop, terminated>>
  BY DEF TakeCommand
<1> DEFINE first == [cmd |-> c, outcome |-> result, again |-> FALSE]
<1>4. <<first>> \in Seq(Completion)
  BY DEF Completion
<1>5. /\ inFlight' \in [Loops -> SUBSET Commands]
      /\ sends' \in [Loops -> Seq(Completion)]
  <2>1. \/ /\ inFlight' = [inFlight EXCEPT ![l] = inFlight[l] \cup {c}]
           /\ sends' = sends
        \/ /\ sends' = [sends EXCEPT ![l] = <<first>>]
           /\ inFlight' = inFlight
    BY <1>3
  <2>2. inFlight[l] \cup {c} \in SUBSET Commands /\ sends \in [Loops -> Seq(Completion)]
        /\ inFlight \in [Loops -> SUBSET Commands]
    BY DEF HInv, TypeOK
  <2> HIDE DEF first
  <2>3. inFlight' \in [Loops -> SUBSET Commands]
    BY <2>1, <2>2
  <2>4. sends' \in [Loops -> Seq(Completion)]
    BY <1>4, <2>1, <2>2
  <2> QED
    BY <2>3, <2>4
<1>6. TypeOK'
  <2>1. /\ status' \in [Loops -> {"unused", "running", "writing", "returned"}]
        /\ stop' \in [Loops -> BOOLEAN]
        /\ terminated' \in [Loops -> BOOLEAN]
    BY <1>3, EndOfEventType, WritesType DEF HInv, TypeOK
  <2>2. /\ pc' \in [Calls -> Places]
        /\ timer' \in [Commands -> {"off", "running", "sent"}]
    BY <1>1, <1>2 DEF HInv, TypeOK, Places
  <2> QED
    BY <1>1, <1>5, <2>1, <2>2 DEF HInv, TypeOK
<1>7. ClientFits'
  BY <1>1, <1>2, ClientStays
<1>8. /\ pc'[c] = "waiting" /\ timer'[c] = "running"
      /\ \A d \in Commands : d # c => pc'[d] = pc[d] /\ timer'[d] = timer[d]
      /\ task' = task
  BY <1>1, <1>2 DEF HInv, TypeOK, Calls
<1>9. \A k \in Loops : c \notin Owed(k)
  BY <1>1 DEF HInv, TasksFit, OnlyTimedOut
<1>10. Pending(l) = {}
  BY <1>1 DEF Pending
<1>11. /\ \A k \in Loops : k # l => /\ sends'[k] = sends[k]
                                    /\ inFlight'[k] = inFlight[k]
                                    /\ Owed(k)' = Owed(k)
                                    /\ Pending(k)' = Pending(k)
       /\ \/ /\ inFlight'[l] = inFlight[l] \cup {c}
             /\ sends'[l] = << >>
             /\ Pending(l)' = {}
          \/ /\ inFlight'[l] = inFlight[l]
             /\ sends'[l] = <<first>>
             /\ Pending(l)' = {c}
  <2>1. \A k \in Loops : k # l => sends'[k] = sends[k] /\ inFlight'[k] = inFlight[k]
    BY <1>3 DEF HInv, TypeOK
  <2>2. \A k \in Loops : k # l => Owed(k)' = Owed(k) /\ Pending(k)' = Pending(k)
    BY <2>1 DEF Owed, Pending
  <2>3. CASE inFlight' = [inFlight EXCEPT ![l] = inFlight[l] \cup {c}] /\ sends' = sends
    BY <1>1, <2>1, <2>2, <2>3 DEF HInv, TypeOK, Pending
  <2>4. CASE inFlight' = inFlight /\ sends' = [sends EXCEPT ![l] = <<first>>]
    <3>1. sends'[l] = <<first>>
      BY <2>4 DEF HInv, TypeOK
    <3>2. <<first>> # << >> /\ <<first>>[1].cmd = c /\ ~<<first>>[1].again
      OBVIOUS
    <3>3. Pending(l)' = {c}
      <4> HIDE DEF first
      <4> QED
        BY <3>1, <3>2 DEF Pending
    <3> QED
      BY <2>1, <2>2, <2>4, <3>1, <3>3
  <2> QED
    BY <1>3, <2>3, <2>4
<1>12. Owed(l)' = Owed(l) \cup {c}
  BY <1>10, <1>11 DEF Owed
<1>13. TasksFit'
  <2>1. ASSUME NEW d \in Commands, ~PastSend(d)'
        PROVE  task'[d] = NewAsyncTask /\ timer'[d] = "off"
    BY <1>8, <2>1 DEF HInv, TasksFit, PastSend
  <2>2. ASSUME NEW k \in Loops, NEW d \in Owed(k)' PROVE OnlyTimedOut(d)'
    <3>1. CASE d = c
      <4>1. task[c] = NewAsyncTask
        BY <1>1 DEF HInv, TasksFit, PastSend
      <4> QED
        BY <1>8, <3>1, <4>1 DEF OnlyTimedOut, NewAsyncTask
    <3>2. CASE d # c
      <4>1. d \in Owed(k) /\ d \in Commands
        BY <1>11, <1>12, <3>2 DEF Owed, Pending, HInv, TypeOK
      <4> QED
        BY <1>8, <3>2, <4>1 DEF HInv, TasksFit, OnlyTimedOut
    <3> QED
      BY <3>1, <3>2
  <2> QED
    BY <2>1, <2>2 DEF TasksFit
<1>14. OneOwner'
  <2>1. c \notin inFlight[l]
    BY <1>9 DEF Owed
  <2>2. \A k \in Loops : inFlight'[k] \cap Pending(k)' = {}
    BY <1>11, <2>1 DEF HInv, OneOwner
  <2>3. \A j, k \in Loops : j # k => Owed(j)' \cap Owed(k)' = {}
    BY <1>9, <1>11, <1>12 DEF HInv, OneOwner
  <2> QED
    BY <2>2, <2>3 DEF OneOwner
<1>15. SendsFit'
  <2> SUFFICES ASSUME NEW k \in Loops, sends'[k] # << >>
               PROVE  /\ pc'[sends'[k][1].cmd] \in {"waiting", "returned"}
                      /\ \A i \in 2 .. Len(sends'[k]) :
                           sends'[k][i].again /\ sends'[k][i].cmd = sends'[k][1].cmd
                      /\ sends'[k][1].again =>
                           \A j \in Loops : sends'[k][1].cmd \notin Owed(j)'
    BY DEF SendsFit, PastSend
  <2>1. CASE k = l
    <3>1. sends'[l] = <<first>>
      BY <1>11, <2>1
    <3>2. Len(<<first>>) = 1 /\ <<first>>[1].cmd = c /\ ~<<first>>[1].again
      OBVIOUS
    <3> HIDE DEF first
    <3> QED
      BY <1>8, <2>1, <3>1, <3>2 DEF PastSend
  <2>2. CASE k # l
    <3>1. sends'[k] = sends[k] /\ sends[k][1].cmd \in Commands /\ PastSend(sends[k][1].cmd)
      BY <1>11, <2>2, SendsType DEF HInv, SendsFit, Completion
    <3>2. sends[k][1].cmd # c
      BY <1>1, <3>1 DEF PastSend
    <3>3. \A j \in Loops : sends[k][1].cmd \in Owed(j)' => sends[k][1].cmd \in Owed(j)
      BY <1>11, <1>12, <3>2
    <3> QED
      BY <1>8, <3>1, <3>2, <3>3 DEF HInv, SendsFit, PastSend
  <2> QED
    BY <2>1, <2>2
<1> QED
  BY <1>6, <1>7, <1>13, <1>14, <1>15 DEF HInv

LEMMA TakeShutdownStep ==
  ASSUME HInv, NEW l \in Loops, NEW c \in Calls, TakeShutdown(l, c)
  PROVE  HInv'
<1>1. /\ c \in Disconnects /\ target[c] = l
      /\ pc[c] = "sending" /\ pc' = [pc EXCEPT ![c] = "forget"]
      /\ shutdown' = [shutdown EXCEPT ![l] = TRUE]
      /\ EndOfEvent(l, TRUE)
      /\ UNCHANGED <<client, read, target, task, timer, sends, inFlight, reader, crashed, rivals>>
  BY DEF TakeShutdown
<1>2. TypeOK'
  BY <1>1, EndOfEventType DEF HInv, TypeOK, Places
<1>3. ClientFits'
  BY <1>1, LoopsAssumption, ClientStays
<1>4. TasksFit' /\ OneOwner' /\ SendsFit'
  BY <1>1, CallMoves DEF PastSend
<1> QED
  BY <1>2, <1>3, <1>4 DEF HInv

LEMMA TakeFrameStep ==
  ASSUME HInv, NEW l \in Loops, TakeFrame(l)
  PROVE  HInv'
<1>1. PICK goAway \in {FALSE, ServerEnds} :
        /\ shutdown' = [shutdown EXCEPT ![l] = shutdown[l] \/ goAway]
        /\ EndOfEvent(l, shutdown'[l]) \/ Writes(l)
  BY DEF TakeFrame
<1>2. /\ reader' = [reader EXCEPT ![l] = "reading"]
      /\ UNCHANGED <<client, callVars, sends, inFlight, crashed, rivals>>
  BY DEF TakeFrame
<1>3. (shutdown[l] \/ goAway) \in BOOLEAN
  OBVIOUS
<1>4. TypeOK'
  BY <1>1, <1>2, <1>3, EndOfEventType, WritesType DEF HInv, TypeOK, callVars
<1> QED
  BY <1>2, <1>4, LoopIdles

(* The first completion of c is still owed once it is taken out of flight.  *)
LEMMA TakeAnswerStep ==
  ASSUME HInv, NEW l \in Loops, NEW c \in Commands, NEW result \in {"ok", "error"},
         TakeAnswer(l, c, result)
  PROVE  HInv'
<1>1. PICK n \in Completions :
        sends' = [sends EXCEPT ![l] =
          [k \in 1 .. n |-> [cmd |-> c, outcome |-> result, again |-> k > 1]]]
  BY DEF TakeAnswer
<1> DEFINE q == [k \in 1 .. n |-> [cmd |-> c, outcome |-> result, again |-> k > 1]]
<1>2. /\ sends[l] = << >>
      /\ c \in inFlight[l]
      /\ inFlight' = [inFlight EXCEPT ![l] = inFlight[l] \ {c}]
      /\ reader' = [reader EXCEPT ![l] = "reading"]
      /\ status' = status \/ status' = [status EXCEPT ![l] = "writing"]
      /\ UNCHANGED <<client, callVars, shutdown, stop, terminated, crashed, rivals>>
  BY DEF TakeAnswer, AtSelect
<1>3. n \in 1 .. 2
  BY CompletionsAssumption
<1>4. /\ q \in Seq(Completion)
      /\ q # << >> /\ Len(q) = n
      /\ q[1].cmd = c /\ ~q[1].again
      /\ \A k \in 2 .. Len(q) : q[k].again /\ q[k].cmd = c
  <2>1. \A k \in 1 .. n : [cmd |-> c, outcome |-> result, again |-> k > 1] \in Completion
    BY DEF Completion
  <2>2. q \in Seq(Completion)
    BY <1>3, <2>1
  <2>3. Len(q) = n
    BY <1>3
  <2>4. q # << >>
    BY <1>3, <2>3
  <2>5. \A k \in 1 .. n : q[k].cmd = c /\ (q[k].again <=> k > 1)
    OBVIOUS
  <2> HIDE DEF q
  <2> QED
    BY <1>3, <2>2, <2>3, <2>4, <2>5
<1>5. sends' = [sends EXCEPT ![l] = q]
  BY <1>1
<1> HIDE DEF q
<1>6. TypeOK'
  BY <1>2, <1>4, <1>5 DEF HInv, TypeOK, callVars
<1>7. ClientFits'
  BY <1>2, ClientUntouched DEF callVars
<1>8. /\ sends'[l] = q /\ inFlight'[l] = inFlight[l] \ {c}
      /\ \A k \in Loops : k # l => sends'[k] = sends[k] /\ inFlight'[k] = inFlight[k]
  BY <1>2, <1>5 DEF HInv, TypeOK
<1>9. \A k \in Loops : k # l => Owed(k)' = Owed(k) /\ Pending(k)' = Pending(k)
  BY <1>8 DEF Owed, Pending
<1>10. Pending(l) = {} /\ Pending(l)' = {c}
  BY <1>2, <1>4, <1>8 DEF Pending
<1>11. Owed(l)' = Owed(l)
  BY <1>2, <1>8, <1>10 DEF Owed
<1>12. TasksFit'
  BY <1>2, <1>9, <1>11 DEF HInv, TasksFit, PastSend, OnlyTimedOut, callVars
<1>13. OneOwner'
  BY <1>8, <1>9, <1>10, <1>11 DEF HInv, OneOwner
<1>14. PastSend(c)
  BY <1>2 DEF HInv, TasksFit, Owed, OnlyTimedOut, PastSend
<1>15. SendsFit'
  <2> SUFFICES ASSUME NEW k \in Loops, sends'[k] # << >>
               PROVE  /\ pc'[sends'[k][1].cmd] \in {"waiting", "returned"}
                      /\ \A i \in 2 .. Len(sends'[k]) :
                           sends'[k][i].again /\ sends'[k][i].cmd = sends'[k][1].cmd
                      /\ sends'[k][1].again =>
                           \A j \in Loops : sends'[k][1].cmd \notin Owed(j)'
    BY DEF SendsFit, PastSend
  <2>1. CASE k = l
    BY <1>2, <1>4, <1>8, <1>14, <2>1 DEF PastSend, callVars
  <2>2. CASE k # l
    <3>1. \A j \in Loops : Owed(j)' = Owed(j)
      BY <1>9, <1>11
    <3> QED
      BY <1>2, <1>8, <2>2, <3>1 DEF HInv, SendsFit, PastSend, callVars
  <2> QED
    BY <2>1, <2>2
<1> QED
  BY <1>6, <1>7, <1>12, <1>13, <1>15 DEF HInv

(* A completion that is sent was the first and is owed no more, or nobody   *)
(* owed it.                                                                 *)
LEMMA SendCompletionStep ==
  ASSUME HInv, NEW l \in Loops, SendCompletion(l)
  PROVE  HInv'
<1> DEFINE s == sends[l][1]
           c == s.cmd
           q == Tail(sends[l])
<1>1. sends[l] # << >>
  BY DEF SendCompletion
<1>2. /\ sends[l] \in Seq(Completion)
      /\ Len(sends[l]) \in Nat /\ Len(sends[l]) > 0
      /\ Head(sends[l]) = s
      /\ s \in Completion
  BY <1>1, SendsType DEF HInv
<1>3. /\ HasRoom(task[c], s.outcome)
      /\ task' = [task EXCEPT ![c] = Complete(task[c], s.outcome)]
      /\ sends' = [sends EXCEPT ![l] = q]
      /\ EndOfEvent(l, Len(sends[l]) = 1 /\ shutdown[l])
      /\ UNCHANGED <<client, read, pc, target, timer, inFlight, shutdown, reader, crashed,
                   rivals>>
  BY <1>2 DEF SendCompletion
<1>4. c \in Commands /\ s.outcome \in Outcomes
  BY <1>2 DEF Completion, Outcomes, Failures
<1>5. /\ q \in Seq(Completion)
      /\ Len(q) = Len(sends[l]) - 1
      /\ \A k \in 1 .. Len(q) : q[k] = sends[l][k + 1]
  BY <1>1, <1>2
<1>6. \A k \in 1 .. Len(q) : q[k].again /\ q[k].cmd = c
  <2> SUFFICES ASSUME NEW k \in 1 .. Len(q) PROVE q[k].again /\ q[k].cmd = c
    OBVIOUS
  <2>1. k + 1 \in 2 .. Len(sends[l]) /\ q[k] = sends[l][k + 1]
    BY <1>2, <1>5
  <2> HIDE DEF q
  <2> QED
    BY <1>1, <2>1 DEF HInv, SendsFit
<1> HIDE DEF q
<1>7. TypeOK'
  <2>1. Complete(task[c], s.outcome) \in Tasks
    BY <1>3, <1>4, TaskTypes DEF HInv, TypeOK
  <2>2. task' \in [Commands -> Tasks] /\ sends' \in [Loops -> Seq(Completion)]
    BY <1>3, <1>5, <2>1 DEF HInv, TypeOK
  <2> QED
    BY <1>3, <2>2, EndOfEventType DEF HInv, TypeOK
<1>8. ClientFits'
  BY <1>3, ClientUntouched
<1>9. /\ sends'[l] = q
      /\ \A k \in Loops : k # l => sends'[k] = sends[k]
      /\ \A d \in Commands : d # c => task'[d] = task[d]
      /\ inFlight' = inFlight /\ pc' = pc /\ timer' = timer
  BY <1>3 DEF HInv, TypeOK
<1>10. \A k \in Loops : k # l => Owed(k)' = Owed(k) /\ Pending(k)' = Pending(k)
  BY <1>9 DEF Owed, Pending
<1>11. Pending(l)' = {}
  BY <1>5, <1>6, <1>9 DEF Pending
<1>12. Owed(l)' = inFlight[l]
  BY <1>9, <1>11 DEF Owed
<1>13. \A k \in Loops : Owed(k)' \subseteq Owed(k) /\ c \notin Owed(k)'
  <2>1. CASE s.again
    BY <1>1, <1>10, <1>12, <2>1 DEF HInv, SendsFit, Owed
  <2>2. CASE ~s.again
    <3>1. c \in Pending(l)
      BY <1>1, <1>4, <2>2 DEF Pending
    <3> QED
      BY <1>10, <1>12, <3>1 DEF HInv, OneOwner, Owed
  <2> QED
    BY <2>1, <2>2
<1>14. PastSend(c)
  BY <1>1 DEF HInv, SendsFit
<1>15. TasksFit'
  <2>1. ASSUME NEW d \in Commands, ~PastSend(d)'
        PROVE  task'[d] = NewAsyncTask /\ timer'[d] = "off"
    BY <1>9, <1>14, <2>1 DEF HInv, TasksFit, PastSend
  <2>2. ASSUME NEW k \in Loops, NEW d \in Owed(k)' PROVE OnlyTimedOut(d)'
    <3>1. d \in Owed(k) /\ d # c /\ d \in Commands
      BY <1>13 DEF Owed, Pending, HInv, TypeOK
    <3> QED
      BY <1>9, <3>1 DEF HInv, TasksFit, OnlyTimedOut
  <2> QED
    BY <2>1, <2>2 DEF TasksFit
<1>16. OneOwner'
  <2>1. \A k \in Loops : inFlight'[k] \cap Pending(k)' = {}
    BY <1>9, <1>10, <1>11 DEF HInv, OneOwner
  <2>2. \A j, k \in Loops : j # k => Owed(j)' \cap Owed(k)' = {}
    BY <1>13 DEF HInv, OneOwner
  <2> QED
    BY <2>1, <2>2 DEF OneOwner
<1>17. SendsFit'
  <2> SUFFICES ASSUME NEW k \in Loops, sends'[k] # << >>
               PROVE  /\ pc'[sends'[k][1].cmd] \in {"waiting", "returned"}
                      /\ \A i \in 2 .. Len(sends'[k]) :
                           sends'[k][i].again /\ sends'[k][i].cmd = sends'[k][1].cmd
                      /\ sends'[k][1].again =>
                           \A j \in Loops : sends'[k][1].cmd \notin Owed(j)'
    BY DEF SendsFit, PastSend
  <2>1. CASE k = l
    <3>1. Len(q) \in Nat /\ Len(q) > 0
      BY <1>5, <1>9, <2>1
    <3>2. q[1].again /\ q[1].cmd = c /\ \A i \in 2 .. Len(q) : q[i].again /\ q[i].cmd = c
      BY <1>6, <3>1
    <3> QED
      BY <1>9, <1>13, <1>14, <2>1, <3>2 DEF PastSend
  <2>2. CASE k # l
    BY <1>9, <1>13, <2>2 DEF HInv, SendsFit, PastSend
  <2> QED
    BY <2>1, <2>2
<1> QED
  BY <1>7, <1>8, <1>15, <1>16, <1>17 DEF HInv

LEMMA WrittenStep ==
  ASSUME HInv, NEW l \in Loops, Written(l)
  PROVE  HInv'
<1>1. TypeOK'
  BY EndOfEventType DEF Written, HInv, TypeOK, callVars
<1> QED
  BY <1>1, LoopIdles DEF Written

LEMMA AnyReaderStep ==
  ASSUME HInv, NEW l \in Loops, ReaderStep(l)
  PROVE  HInv'
<1>1. CASE ReadFrame(l)
  <2>1. TypeOK'
    BY <1>1 DEF ReadFrame, HInv, TypeOK, callVars
  <2> QED
    BY <1>1, <2>1, LoopIdles DEF ReadFrame
<1>2. CASE ReadFails(l)
  <2>1. TypeOK'
    BY <1>2 DEF ReadFails, HInv, TypeOK, callVars
  <2> QED
    BY <1>2, <2>1, LoopIdles DEF ReadFails
<1> QED
  BY <1>1, <1>2 DEF ReaderStep

LEMMA NextHInv == HInv /\ [Next]_vars => HInv'
<1> SUFFICES ASSUME HInv, [Next]_vars PROVE HInv'
  OBVIOUS
<1>1. ASSUME NEW c \in Calls, CallStep(c) \/ Dials(c) PROVE HInv'
  BY <1>1, AnyCallStep
<1>2. ASSUME NEW c \in Commands, CommandStep(c) \/ TimerFires(c) PROVE HInv'
  BY <1>2, ReceiveStep, TimerFiresStep DEF CommandStep
<1>3. ASSUME NEW l \in Loops, LoopStep(l) PROVE HInv'
  <2>1. ASSUME NEW c \in Calls, TakeCommand(l, c) PROVE HInv'
    <3>1. c \in Commands
      BY <2>1 DEF TakeCommand
    <3> QED
      BY <2>1, <3>1, TakeCommandStep
  <2> QED
    BY <1>3, <2>1, TakeShutdownStep, TakeFrameStep, TakeAnswerStep, SendCompletionStep,
       WrittenStep DEF LoopStep
<1>4. ASSUME NEW l \in Loops, ReaderStep(l) PROVE HInv'
  BY <1>4, AnyReaderStep
<1>5. CASE UNCHANGED vars
  <2>1. TypeOK'
    BY <1>5 DEF vars, callVars, loopVars, HInv, TypeOK
  <2> QED
    BY <1>5, <2>1, LoopIdles DEF vars, loopVars
<1> QED
  BY <1>1, <1>2, <1>3, <1>4, <1>5 DEF Next

LEMMA InitHInv == Init => HInv
<1> SUFFICES ASSUME Init PROVE HInv
  OBVIOUS
<1>1. TypeOK
  <2>1. NewAsyncTask \in Tasks
    BY DEF NewAsyncTask, Tasks
  <2>2. << >> \in Seq(Completion)
    OBVIOUS
  <2> QED
    BY <2>1, <2>2 DEF Init, TypeOK, Enter, Places
<1>2. \A l \in Loops : Owed(l) = {} /\ Pending(l) = {} /\ sends[l] = << >>
  BY DEF Init, Owed, Pending
<1>3. TasksFit
  BY <1>2 DEF Init, TasksFit, PastSend, Enter
<1>4. OneOwner /\ SendsFit
  BY <1>2 DEF OneOwner, SendsFit
<1>5. ClientFits
  BY DEF Init, ClientFits, Relies, Enter
<1> QED
  BY <1>1, <1>3, <1>4, <1>5 DEF HInv

--------------------------------------------------------------------------------
(* Lost connections                                                         *)

(* Loop l has been started and has not terminated.                          *)
Up(l) == status[l] # "unused" /\ ~terminated[l]

(* Call c may make h2c.loop forget l: it has been past its check since      *)
(* before l was stored.                                                     *)
Threatens(c, l) ==
  \/ pc[c] = "dialing"
  \/ pc[c] = "store" /\ target[c] # l
  \/ c \in Disconnects /\ pc[c] \in {"sending", "forget"} /\ target[c] # l

LostFits ==
  /\ client # NoLoop => status[client] # "unused"
  /\ \A c \in Calls : pc[c] = "store" => status[target[c]] # "unused"
  /\ \A c \in Calls : pc[c] = "forget" => terminated[target[c]]
  /\ \A l \in Loops : client = l /\ Up(l) =>
       \A c \in Calls : Threatens(c, l) => c \in rivals[l]
  /\ \A l \in Loops : Lost(l) => rivals[l] # {}

LInv == HInv /\ LostFits

(* A step that leaves h2c.loop alone, starts no loop and brings no call     *)
(* nearer to storing or forgetting one.                                     *)
LEMMA LostKept ==
  ASSUME HInv, LostFits, UNCHANGED <<client, rivals>>,
         \A l \in Loops : /\ status'[l] = "unused" <=> status[l] = "unused"
                          /\ terminated[l] => terminated'[l],
         \A c \in Calls : pc'[c] = "store" <=> pc[c] = "store",
         \A c \in Calls : pc[c] = "store" => target'[c] = target[c],
         \A c \in Calls : pc'[c] = "forget" => terminated'[target'[c]],
         \A c \in Calls : \A l \in Loops :
           client = l /\ Up(l) /\ Threatens(c, l)' => Threatens(c, l)
  PROVE  LostFits'
<1>1. \A l \in Loops : Up(l)' => Up(l)
  BY DEF Up
<1>2. \A l \in Loops : Lost(l)' => Lost(l)
  BY DEF Lost
<1>3. client' # NoLoop => status'[client'] # "unused"
  BY DEF HInv, TypeOK, LostFits
<1>4. \A c \in Calls : pc'[c] = "store" => status'[target'[c]] # "unused"
  <2> SUFFICES ASSUME NEW c \in Calls, pc'[c] = "store" PROVE status'[target'[c]] # "unused"
    OBVIOUS
  <2>1. pc[c] = "store" /\ target'[c] = target[c] /\ target[c] \in Loops
    BY DEF HInv, TypeOK, ClientFits
  <2> QED
    BY <2>1 DEF LostFits
<1>5. \A l \in Loops : client' = l /\ Up(l)' =>
        \A c \in Calls : Threatens(c, l)' => c \in rivals'[l]
  BY <1>1 DEF LostFits
<1>6. \A l \in Loops : Lost(l)' => rivals'[l] # {}
  BY <1>2 DEF LostFits
<1> QED
  BY <1>3, <1>4, <1>5, <1>6 DEF LostFits

(* Call c moves, and only it.                                               *)
LEMMA LostKeptByCall ==
  ASSUME HInv, LostFits, NEW c \in Calls, NEW to,
         pc' = [pc EXCEPT ![c] = to],
         pc[c] # "store", to # "store",
         to = "forget" => c \in Disconnects /\ pc[c] = "sending" /\ terminated'[target[c]],
         to = "dialing" => client = NoLoop \/ (client \in Loops /\ ~Up(client)),
         to = "sending" => target'[c] = client,
         \/ target' = target
         \/ target' = [target EXCEPT ![c] = client] /\ to = "sending",
         UNCHANGED <<client, rivals>>,
         \A l \in Loops : /\ status'[l] = "unused" <=> status[l] = "unused"
                          /\ terminated[l] => terminated'[l]
  PROVE  LostFits'
<1>1. /\ pc'[c] = to /\ \A d \in Calls : d # c => pc'[d] = pc[d] /\ target'[d] = target[d]
      /\ to # "sending" => target'[c] = target[c]
  BY DEF HInv, TypeOK
<1>2. \A d \in Calls : pc'[d] = "forget" => terminated'[target'[d]]
  <2> SUFFICES ASSUME NEW d \in Calls, pc'[d] = "forget" PROVE terminated'[target'[d]]
    OBVIOUS
  <2>1. CASE d = c
    BY <1>1, <2>1
  <2>2. CASE d # c
    <3>1. pc[d] = "forget" /\ target'[d] = target[d] /\ target[d] \in Loops
      BY <1>1, <2>2 DEF HInv, TypeOK, ClientFits
    <3> QED
      BY <3>1 DEF LostFits
  <2> QED
    BY <2>1, <2>2
<1>3. ASSUME NEW d \in Calls, NEW l \in Loops, client = l, Up(l), Threatens(d, l)'
      PROVE  Threatens(d, l)
  <2>1. CASE d = c
    <3>1. to # "dialing"
      BY <1>3, LoopsAssumption
    <3> QED
      BY <1>1, <1>3, <2>1, <3>1 DEF Threatens
  <2>2. CASE d # c
    BY <1>1, <1>3, <2>2 DEF Threatens
  <2> QED
    BY <2>1, <2>2
<1> QED
  BY <1>1, <1>2, <1>3, LostKept

(* Every call stays where it is.                                            *)
LEMMA LostKeptByLoop ==
  ASSUME HInv, LostFits, UNCHANGED <<client, pc, target, rivals>>,
         \A l \in Loops : /\ status'[l] = "unused" <=> status[l] = "unused"
                          /\ terminated[l] => terminated'[l]
  PROVE  LostFits'
<1>1. \A c \in Calls : pc'[c] = "forget" => terminated'[target'[c]]
  BY DEF HInv, TypeOK, ClientFits, LostFits
<1>2. \A c \in Calls : \A l \in Loops : Threatens(c, l)' = Threatens(c, l)
  BY DEF Threatens
<1> QED
  BY <1>1, <1>2, LostKept

(* A call starts to dial only when it finds h2c.loop nil or terminated.     *)
LEMMA DialTables ==
  /\ \A p \in DOMAIN IfConnected : \A s \in IfConnected[p] : s[1] # "dialing"
  /\ \A p \in DOMAIN AfterHost : \A s \in AfterHost[p] \cup AfterPort[p] : s[1] # "dialing"
  /\ DOMAIN AfterPort = DOMAIN AfterHost
BY DEF IfConnected, AfterHost, AfterPort

LEMMA LostReadsOn ==
  ASSUME HInv, LostFits, NEW c \in Calls, NEW field, NEW next,
         pc[c] # "store",
         \A s \in next : s[1] \in Places \ {"store", "sending", "waiting", "forget"},
         \/ client = NoLoop \/ (client \in Loops /\ ~Up(client))
         \/ \A s \in next : s[1] # "dialing",
         ReadsOn(c, field, next)
  PROVE  LostFits'
<1>1. PICK s \in next : pc' = [pc EXCEPT ![c] = s[1]]
  BY DEF ReadsOn
<1>2. /\ UNCHANGED <<client, target, rivals>>
      /\ status' = status /\ terminated' = terminated
  BY DEF ReadsOn, loopVars
<1>3. s[1] \notin {"store", "sending", "forget"}
  OBVIOUS
<1> QED
  BY <1>1, <1>2, <1>3, LostKeptByCall

LEMMA LostChecks ==
  ASSUME HInv, LostFits, NEW c \in Calls,
         CheckLoop(c) \/ CheckTerminated(c) \/ ReadHost(c) \/ ReadPort(c)
  PROVE  LostFits'
<1>1. CASE CheckLoop(c)
  <2>1. pc[c] \in DOMAIN IfConnected /\ pc[c] # "store"
    BY <1>1, TableFacts DEF CheckLoop
  <2>2. CASE client = NoLoop
    BY <1>1, <2>1, <2>2, TableFacts, LostReadsOn DEF CheckLoop
  <2>3. CASE client # NoLoop
    <3>1. ReadsOn(c, "loop", {<<pc[c], "terminated">>})
      BY <1>1, <2>3 DEF CheckLoop
    <3>2. pc[c] \in Places \ {"store", "sending", "waiting", "forget"} /\ pc[c] # "dialing"
      BY <2>1, TableFacts DEF HInv, TypeOK
    <3>3. \A s \in {<<pc[c], "terminated">>} : s[1] = pc[c]
      OBVIOUS
    <3> QED
      BY <2>1, <3>1, <3>2, <3>3, LostReadsOn
  <2> QED
    BY <2>2, <2>3
<1>2. CASE CheckTerminated(c)
  <2>1. pc[c] \in DOMAIN IfConnected /\ pc[c] # "store" /\ client \in Loops
    BY <1>2, TableFacts DEF CheckTerminated, HInv, TypeOK
  <2>2. CASE terminated[client]
    <3>1. ReadsOn(c, "terminated", IfNotConnected[pc[c]])
      BY <1>2, <2>2 DEF CheckTerminated
    <3>2. ~Up(client)
      BY <2>2 DEF Up
    <3> QED
      BY <2>1, <3>1, <3>2, TableFacts, LostReadsOn
  <2>3. CASE ~terminated[client]
    <3>1. ReadsOn(c, "terminated", IfConnected[pc[c]])
      BY <1>2, <2>3 DEF CheckTerminated
    <3> QED
      BY <2>1, <3>1, DialTables, TableFacts, LostReadsOn
  <2> QED
    BY <2>2, <2>3
<1>3. CASE ReadHost(c)
  <2>1. /\ pc[c] \in DOMAIN AfterHost /\ pc[c] # "store"
        /\ ReadsOn(c, "Host", AfterHost[pc[c]])
    BY <1>3, TableFacts DEF ReadHost
  <2> QED
    BY <2>1, DialTables, TableFacts, LostReadsOn
<1>4. CASE ReadPort(c)
  <2>1. /\ pc[c] \in DOMAIN AfterHost /\ pc[c] # "store"
        /\ ReadsOn(c, "Port", AfterPort[pc[c]])
    BY <1>4, TableFacts DEF ReadPort
  <2> QED
    BY <2>1, DialTables, TableFacts, LostReadsOn
<1> QED
  BY <1>1, <1>2, <1>3, <1>4

(* A loop that has just started is still with the call that dialed it.      *)
LEMMA LostDialSucceeds ==
  ASSUME HInv, LostFits, NEW c \in Calls, NEW k \in Loops, DialSucceeds(c, k)
  PROVE  LostFits'
<1>1. /\ pc[c] = "dialing" /\ pc'[c] = "store" /\ target'[c] = k
      /\ \A d \in Calls : d # c => pc'[d] = pc[d] /\ target'[d] = target[d]
      /\ status[k] = "unused" /\ status'[k] = "running"
      /\ \A l \in Loops : l # k => status'[l] = status[l]
      /\ UNCHANGED <<client, terminated, rivals>>
  BY DEF DialSucceeds, Goes, HInv, TypeOK
<1>2. client # k
  BY <1>1, LoopsAssumption DEF LostFits
<1>3. client' # NoLoop => status'[client'] # "unused"
  BY <1>1, <1>2 DEF HInv, TypeOK, LostFits
<1>4. \A d \in Calls : pc'[d] = "store" => status'[target'[d]] # "unused"
  <2> SUFFICES ASSUME NEW d \in Calls, pc'[d] = "store" PROVE status'[target'[d]] # "unused"
    OBVIOUS
  <2>1. CASE d = c
    BY <1>1, <2>1
  <2>2. CASE d # c
    <3>1. pc[d] = "store" /\ target'[d] = target[d] /\ target[d] \in Loops
      BY <1>1, <2>2 DEF HInv, TypeOK, ClientFits
    <3>2. status[target[d]] # "unused"
      BY <3>1 DEF LostFits
    <3> QED
      BY <1>1, <3>1, <3>2
  <2> QED
    BY <2>1, <2>2
<1>5. \A d \in Calls : pc'[d] = "forget" => terminated'[target'[d]]
  BY <1>1 DEF LostFits
<1>6. \A l \in Loops : client' = l /\ Up(l)' =>
        \A d \in Calls : Threatens(d, l)' => d \in rivals'[l]
  <2> SUFFICES ASSUME NEW l \in Loops, client = l, Up(l)',
                      NEW d \in Calls, Threatens(d, l)'
               PROVE  d \in rivals[l]
    BY <1>1
  <2>1. l # k /\ Up(l)
    BY <1>1, <1>2 DEF Up
  <2>2. Threatens(d, l)
    BY <1>1 DEF Threatens
  <2> QED
    BY <2>1, <2>2 DEF LostFits
<1>7. \A l \in Loops : Lost(l)' => rivals'[l] # {}
  <2> SUFFICES ASSUME NEW l \in Loops, Lost(l)' PROVE rivals[l] # {}
    BY <1>1
  <2>1. l # k
    BY <1>1 DEF Lost
  <2>2. Lost(l)
    BY <1>1, <2>1 DEF Lost
  <2> QED
    BY <2>2 DEF LostFits
<1> QED
  BY <1>3, <1>4, <1>5, <1>6, <1>7 DEF LostFits

(* The loop that h2c.loop held is lost to a call that was its rival.        *)
LEMMA LostStore ==
  ASSUME HInv, LostFits, NEW c \in Calls, Store(c)
  PROVE  LostFits'
<1> DEFINE k == target[c]
<1>1. k \in Loops /\ k # NoLoop /\ pc[c] = "store"
  BY LoopsAssumption DEF Store, Goes, HInv, TypeOK, ClientFits
<1>2. /\ pc'[c] \in {"match", "returned"}
      /\ \A d \in Calls : d # c => pc'[d] = pc[d]
      /\ UNCHANGED <<target, status, terminated>>
      /\ client' = k
      /\ rivals'[k] = UnderWay(c)
      /\ \A l \in Loops : l # k => rivals'[l] = rivals[l]
  BY <1>1 DEF Store, Goes, HInv, TypeOK, loopVars
<1> HIDE DEF k
<1>3. client' # NoLoop => status'[client'] # "unused"
  BY <1>1, <1>2 DEF LostFits, k
<1>4. \A d \in Calls : pc'[d] = "store" => status'[target'[d]] # "unused"
  BY <1>2 DEF LostFits
<1>5. \A d \in Calls : pc'[d] = "forget" => terminated'[target'[d]]
  BY <1>2 DEF LostFits
<1>6. \A l \in Loops : client' = l /\ Up(l)' =>
        \A d \in Calls : Threatens(d, l)' => d \in rivals'[l]
  <2> SUFFICES ASSUME NEW l \in Loops, client' = l, NEW d \in Calls, Threatens(d, l)'
               PROVE  d \in rivals'[l]
    OBVIOUS
  <2>1. l = k /\ rivals'[l] = UnderWay(c)
    BY <1>2
  <2>2. d # c
    BY <1>1, <1>2, <2>1 DEF Threatens, k
  <2>3. d \in UnderWay(c)
    BY <1>2, <2>2 DEF Threatens, UnderWay
  <2> QED
    BY <2>1, <2>3
<1>7. \A l \in Loops : Lost(l)' => rivals'[l] # {}
  <2> SUFFICES ASSUME NEW l \in Loops, Lost(l)' PROVE rivals'[l] # {}
    OBVIOUS
  <2>1. l # k
    BY <1>2 DEF Lost
  <2>2. CASE client = l
    <3>1. Up(l)
      BY <1>2 DEF Lost, Up
    <3>2. Threatens(c, l)
      BY <1>1, <2>1 DEF Threatens, k
    <3> QED
      BY <1>2, <2>1, <2>2, <3>1, <3>2 DEF LostFits
  <2>3. CASE client # l
    <3>1. Lost(l)
      BY <1>1, <1>2, <2>1, <2>3 DEF Lost, k
    <3> QED
      BY <1>2, <2>1, <3>1 DEF LostFits
  <2> QED
    BY <2>2, <2>3
<1> QED
  BY <1>3, <1>4, <1>5, <1>6, <1>7 DEF LostFits

(* The loop that a Disconnect has shut down has terminated: what h2c.loop   *)
(* loses besides is a later one.                                            *)
LEMMA LostForget ==
  ASSUME HInv, LostFits, NEW c \in Calls, Forget(c)
  PROVE  LostFits'
<1>1. /\ pc[c] = "forget" /\ pc'[c] = "returned"
      /\ \A d \in Calls : d # c => pc'[d] = pc[d]
      /\ client' = NoLoop
      /\ UNCHANGED <<target, status, terminated, rivals>>
  BY DEF Forget, Goes, HInv, TypeOK, loopVars
<1>2. c \in Disconnects /\ terminated[target[c]]
  BY <1>1 DEF HInv, ClientFits, LostFits
<1>3. \A l \in Loops : Lost(l)' => rivals'[l] # {}
  <2> SUFFICES ASSUME NEW l \in Loops, Lost(l)' PROVE rivals[l] # {}
    BY <1>1
  <2>1. CASE client = l
    <3>1. Up(l)
      BY <1>1 DEF Lost, Up
    <3>2. Threatens(c, l)
      BY <1>1, <1>2, <3>1 DEF Threatens, Up
    <3> QED
      BY <2>1, <3>1, <3>2 DEF LostFits
  <2>2. CASE client # l
    <3>1. Lost(l)
      BY <1>1, <2>2 DEF Lost
    <3> QED
      BY <3>1 DEF LostFits
  <2> QED
    BY <2>1, <2>2
<1>4. \A d \in Calls : pc'[d] = "store" => status'[target'[d]] # "unused"
  BY <1>1 DEF LostFits
<1>5. \A d \in Calls : pc'[d] = "forget" => terminated'[target'[d]]
  BY <1>1 DEF LostFits
<1> QED
  BY <1>1, <1>3, <1>4, <1>5, LoopsAssumption DEF LostFits

LEMMA LostDialFails ==
  ASSUME HInv, LostFits, NEW c \in Calls, DialFails(c)
  PROVE  LostFits'
<1>1. /\ pc[c] = "dialing" /\ pc' = [pc EXCEPT ![c] = "returned"]
      /\ UNCHANGED <<client, target, status, terminated, rivals>>
  BY DEF DialFails, Goes, loopVars
<1> QED
  BY <1>1, LostKeptByCall

LEMMA LostSend ==
  ASSUME HInv, LostFits, NEW c \in Calls, Send(c)
  PROVE  LostFits'
<1>1. /\ pc[c] = "send" /\ pc' = [pc EXCEPT ![c] = "sending"]
      /\ target' = [target EXCEPT ![c] = client]
      /\ target'[c] = client
      /\ UNCHANGED <<client, status, terminated, rivals>>
  BY DEF Send, Goes, loopVars, HInv, TypeOK
<1> QED
  BY <1>1, LostKeptByCall

LEMMA LostCall ==
  ASSUME LInv, NEW c \in Calls, CallStep(c) \/ Dials(c)
  PROVE  LostFits'
<1>1. HInv /\ LostFits
  BY DEF LInv
<1>2. ASSUME DereferenceNil(c) PROVE LostFits'
  BY <1>1, <1>2, LostKeptByLoop DEF DereferenceNil, callVars, loopVars
<1> QED
  BY <1>1, <1>2, LostChecks, LostDialFails, LostDialSucceeds, LostStore, LostSend,
     LostForget DEF CallStep, Dials

LEMMA LostCommand ==
  ASSUME LInv, NEW c \in Commands, CommandStep(c) \/ TimerFires(c)
  PROVE  LostFits'
<1>1. HInv /\ LostFits /\ c \in Calls
  BY DEF LInv, Calls
<1>2. ASSUME NEW outcome \in Outcomes, Receive(c, outcome) PROVE LostFits'
  <2>1. /\ pc[c] = "waiting" /\ pc' = [pc EXCEPT ![c] = "returned"]
        /\ UNCHANGED <<client, target, status, terminated, rivals>>
    BY <1>2 DEF Receive, Goes, loopVars
  <2> QED
    BY <1>1, <2>1, LostKeptByCall
<1>3. ASSUME TimerFires(c) PROVE LostFits'
  BY <1>1, <1>3, LostKeptByLoop DEF TimerFires, loopVars
<1> QED
  BY <1>2, <1>3 DEF CommandStep

(* What the end of an event does to the loops: none is started, and what    *)
(* has terminated stays so.                                                 *)
LoopsStay ==
  \A l \in Loops : /\ status'[l] = "unused" <=> status[l] = "unused"
                   /\ terminated[l] => terminated'[l]

LEMMA EventEndsAlive ==
  ASSUME TypeOK, NEW l \in Loops, status[l] # "unused", NEW down,
         EndOfEvent(l, down) \/ Writes(l)
  PROVE  LoopsStay
<1>1. CASE EndOfEvent(l, down)
  BY <1>1 DEF EndOfEvent, LoopsStay, TypeOK
<1>2. CASE Writes(l)
  BY <1>2 DEF Writes, LoopsStay, TypeOK
<1> QED
  BY <1>1, <1>2

LEMMA LostLoop ==
  ASSUME LInv, NEW l \in Loops, LoopStep(l)
  PROVE  LostFits'
<1>1. HInv /\ LostFits /\ TypeOK
  BY DEF LInv, HInv
<1>2. ASSUME NEW c \in Calls, TakeCommand(l, c) PROVE LostFits'
  <2>1. /\ pc[c] = "sending" /\ pc' = [pc EXCEPT ![c] = "waiting"]
        /\ UNCHANGED <<client, target, rivals>>
        /\ status[l] # "unused"
        /\ EndOfEvent(l, shutdown[l]) \/ Writes(l) \/ UNCHANGED <<status, stop, terminated>>
    BY <1>2 DEF TakeCommand, AtSelect
  <2>2. LoopsStay
    BY <1>1, <2>1, EventEndsAlive DEF LoopsStay
  <2> QED
    BY <1>1, <2>1, <2>2, LostKeptByCall DEF LoopsStay
<1>3. ASSUME NEW c \in Calls, TakeShutdown(l, c) PROVE LostFits'
  <2>1. /\ pc[c] = "sending" /\ pc' = [pc EXCEPT ![c] = "forget"]
        /\ UNCHANGED <<client, target, rivals>>
        /\ status[l] # "unused" /\ EndOfEvent(l, TRUE)
        /\ c \in Disconnects /\ target[c] = l
    BY <1>3 DEF TakeShutdown, AtSelect
  <2>2. LoopsStay
    BY <1>1, <2>1, EventEndsAlive
  <2>3. terminated'[l]
    BY <1>1, <2>1 DEF EndOfEvent, TypeOK
  <2> QED
    BY <1>1, <2>1, <2>2, <2>3, LostKeptByCall DEF LoopsStay
<1>4. ASSUME TakeFrame(l) PROVE LostFits'
  <2>1. PICK goAway \in {FALSE, ServerEnds} : EndOfEvent(l, shutdown'[l]) \/ Writes(l)
    BY <1>4 DEF TakeFrame
  <2>2. status[l] # "unused" /\ UNCHANGED <<client, pc, target, rivals>>
    BY <1>4 DEF TakeFrame, AtSelect, callVars
  <2>3. LoopsStay
    BY <1>1, <2>1, <2>2, EventEndsAlive
  <2> QED
    BY <1>1, <2>2, <2>3, LostKeptByLoop DEF LoopsStay
<1>5. ASSUME NEW c \in Commands, NEW result \in {"ok", "error"}, TakeAnswer(l, c, result)
      PROVE  LostFits'
  <2>1. /\ status[l] # "unused" /\ UNCHANGED <<client, pc, target, rivals, terminated>>
        /\ status' = status \/ status' = [status EXCEPT ![l] = "writing"]
    BY <1>5 DEF TakeAnswer, AtSelect, callVars
  <2>2. LoopsStay
    BY <1>1, <2>1 DEF LoopsStay, TypeOK
  <2> QED
    BY <1>1, <2>1, <2>2, LostKeptByLoop DEF LoopsStay
<1>6. ASSUME SendCompletion(l) PROVE LostFits'
  <2>1. /\ status[l] # "unused" /\ UNCHANGED <<client, pc, target, rivals>>
        /\ EndOfEvent(l, Len(sends[l]) = 1 /\ shutdown[l])
    BY <1>6 DEF SendCompletion
  <2>2. LoopsStay
    BY <1>1, <2>1, EventEndsAlive
  <2> QED
    BY <1>1, <2>1, <2>2, LostKeptByLoop DEF LoopsStay
<1>7. ASSUME Written(l) PROVE LostFits'
  <2>1. /\ status[l] # "unused" /\ UNCHANGED <<client, pc, target, rivals>>
        /\ EndOfEvent(l, sends[l] = << >> /\ shutdown[l])
    BY <1>7 DEF Written, callVars
  <2>2. LoopsStay
    BY <1>1, <2>1, EventEndsAlive
  <2> QED
    BY <1>1, <2>1, <2>2, LostKeptByLoop DEF LoopsStay
<1> QED
  BY <1>2, <1>3, <1>4, <1>5, <1>6, <1>7 DEF LoopStep

LEMMA LostReader ==
  ASSUME LInv, NEW l \in Loops, ReaderStep(l)
  PROVE  LostFits'
<1>1. HInv /\ LostFits
  BY DEF LInv
<1>2. UNCHANGED <<client, pc, target, rivals>>
  BY DEF ReaderStep, ReadFrame, ReadFails, callVars
<1>3. \A k \in Loops : /\ status'[k] = "unused" <=> status[k] = "unused"
                       /\ terminated[k] => terminated'[k]
  BY <1>1 DEF ReaderStep, ReadFrame, ReadFails, HInv, TypeOK
<1> QED
  BY <1>1, <1>2, <1>3, LostKeptByLoop

LEMMA NextLInv == LInv /\ [Next]_vars => LInv'
<1> SUFFICES ASSUME LInv, [Next]_vars PROVE LInv'
  OBVIOUS
<1>1. HInv'
  BY NextHInv DEF LInv
<1>2. ASSUME UNCHANGED vars PROVE LostFits'
  BY <1>2, LostKeptByLoop DEF vars, callVars, loopVars, LInv
<1>3. ASSUME Next PROVE LostFits'
  BY <1>3, LostCall, LostCommand, LostLoop, LostReader DEF Next
<1> QED
  BY <1>1, <1>2, <1>3 DEF LInv

LEMMA InitLInv == Init => LInv
<1> SUFFICES ASSUME Init PROVE LInv
  OBVIOUS
<1>1. LostFits
  BY DEF Init, LostFits, Lost, Up, Enter
<1> QED
  BY <1>1, InitHInv DEF LInv

--------------------------------------------------------------------------------
(* The theorems                                                             *)

(* The inductive invariant: what the callback of a command holds until the  *)
(* event loop completes it, whatever calls, loops and timers do meanwhile.  *)
THEOREM ClientInvariance == Spec => []HInv
<1> QED
  BY InitHInv, NextHInv, PTL DEF Spec

(* Every variable keeps its type, with any number of calls and loops.       *)
THEOREM ClientTypeCorrect == Spec => []TypeOK
<1>1. HInv => TypeOK
  BY DEF HInv
<1> QED
  BY <1>1, ClientInvariance, PTL

(* A late answer never leaves the event loop at a channel that nobody reads *)
(* any more, nor does a timeout: a call that has returned left room for the *)
(* first completion of its command (CompleteWithError, WaitForCompletion).  *)
THEOREM BlockedLoopsAreFreed == Spec => []BlockedLoopIsFreed
<1>1. HInv => BlockedLoopIsFreed
  <2> SUFFICES ASSUME HInv, NEW l \in Loops, sends[l] # << >>, ~Sticks(l)
               PROVE  \/ HasRoom(task[Head(sends[l]).cmd], Head(sends[l]).outcome)
                      \/ pc[Head(sends[l]).cmd] = "waiting"
    BY DEF BlockedLoopIsFreed
  <2>1. /\ Head(sends[l]) = sends[l][1]
        /\ sends[l][1].cmd \in Commands
    BY SendsType DEF HInv, Completion
  <2>2. sends[l][1].cmd \in Owed(l)
    BY <2>1 DEF Sticks, Owed, Pending
  <2>3. OnlyTimedOut(sends[l][1].cmd)
    BY <2>2 DEF HInv, TasksFit
  <2> QED
    BY <2>1, <2>3 DEF OnlyTimedOut, HasRoom
<1> QED
  BY <1>1, ClientInvariance, PTL

(* No interleaving of connects, terminations and of the single reads of     *)
(* h2c.loop and its fields, those within isConnected and its callers        *)
(* included, dereferences nil unless a Disconnect has gone through          *)
(* (isConnected, putOrPostOrGet, Connect, Disconnect).                      *)
THEOREM CrashesNeedDisconnect == Spec => []OnlyDisconnectCrashes
<1>1. HInv => OnlyDisconnectCrashes
  BY DEF HInv, ClientFits, Disconnected, OnlyDisconnectCrashes
<1> QED
  BY <1>1, ClientInvariance, PTL

(* A connection that is up is lost to h2c.loop only if another call was     *)
(* connecting or disconnecting when it was stored: calls that run one after *)
(* the other lose none, whatever servers and loops do (Connect,             *)
(* Disconnect).                                                             *)
THEOREM LossesNeedRivals == Spec => []LostOnlyToRivals
<1>1. LInv => LostOnlyToRivals
  BY DEF LInv, LostFits, LostOnlyToRivals
<1> QED
  BY <1>1, InitLInv, NextLInv, PTL DEF Spec
================================================================================
