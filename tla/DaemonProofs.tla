------------------------------ MODULE DaemonProofs ------------------------------
(****************************************************************************)
(* Proofs about Daemon: for any number of processes, any number of attempts *)
(* and any signals, one process listens unless one is stopped twice, stop() *)
(* leaves no socket file behind, and "stop" reports a process that is gone. *)
(****************************************************************************)
EXTENDS Daemon, TLAPS

Listens(d) == listener[d] \in {"bound", "open"}

(* A background process has a listener from Bind on.                        *)
PlacesAgree ==
  \A d \in Processes :
    /\ pc[d] \in {"listen", "bound", "open", "serving"} => cmd[d] = "start"
    /\ pc[d] \notin {"bound", "open", "serving", "end"} => listener[d] = "none"
    /\ pc[d] = "bound" <=> listener[d] = "bound"
    /\ pc[d] = "open" => listener[d] = "open"
    /\ pc[d] = "serving" => listener[d] # "none"
    /\ pc[d] = "end" => ~Listens(d)
    /\ pc[d] \in {"unused", "check", "fork", "try", "wait"} => tries[d] < Attempts

SomeTwice == \E p \in Processes : StoppedTwice(p)

(* A process that listens has its file, unless a second Close of another    *)
(* has removed it; the file is that of a process which listens, or of one   *)
(* that something else than stop() ended.                                   *)
FileAgrees ==
  /\ \A d \in Processes :
       Listens(d) => file = d \/ SomeTwice
  /\ file # NoProcess =>
       Listens(file) \/ (pc[file] = "end" /\ ending[file] # "stop")

(* A connection that is not closed has a client that waits for it.          *)
ConnectionsAgree ==
  \A p \in Processes :
    /\ conn[p].state \in {"queued", "accepted", "stopping"} =>
         /\ pc[p] = "await"
         /\ conn[p].to \in Processes
         /\ pc[conn[p].to] \in {"open", "serving"}
    /\ conn[p].state \in {"accepted", "stopping"} => pc[conn[p].to] = "serving"
    /\ conn[p].state = "none" => conn[p].to = NoProcess
    /\ pc[p] = "await" => conn[p].state # "none"
    /\ conn[p].state \in {"none", "queued", "accepted"} => ~conn[p].answered
    /\ conn[p].state = "stopping" => conn[p].answered
    /\ conn[p].state = "closed" /\ conn[p].answered /\ cmd[p] = "stop" =>
         conn[p].to \in Processes /\ pc[conn[p].to] = "end"
    /\ conn[p].state # "none" => pc[p] \in {"await", "end"}
    /\ result[p] = "answered" => /\ pc[p] = "end"
                                 /\ conn[p].state = "closed" /\ conn[p].answered

(* A goroutine in stop() belongs to a waiting client or to the process      *)
(* itself, and past the first step the listener has no file any more.       *)
StoppersAgree ==
  \A x \in Processes :
    stopper[x] # "none" =>
      /\ \/ cmd[x] = "stop" /\ conn[x].state = "stopping"
         \/ cmd[x] # "stop" /\ pc[x] = "serving" /\ signalled[x]
      /\ stopper[x] \in {"close", "exit"} =>
           listener[StopsProcess(x)] \in {"unlinked", "closed"}

(* A goroutine in the stop() of process d has removed the file.             *)
HasUnlinker(d) == \E x \in Processes : stopper[x] \in {"close", "exit"} /\ StopsProcess(x) = d

(* Nothing else stops a process that serves from listening.                 *)
ClosersAgree == \A d \in Processes : pc[d] = "serving" /\ ~Listens(d) => HasUnlinker(d)

DInv == TypeOK /\ PlacesAgree /\ FileAgrees /\ ConnectionsAgree /\ StoppersAgree /\ ClosersAgree

--------------------------------------------------------------------------------
(* Lemmas                                                                   *)

(* What stop() has been called for stays so.                                *)
LEMMA TwiceStays ==
  ASSUME \A p \in Processes :
           /\ conn[p].answered => conn'[p].answered /\ conn'[p].to = conn[p].to
           /\ cmd[p] = "stop" /\ conn[p].answered => cmd'[p] = "stop"
           /\ signalled[p] => signalled'[p]
  PROVE  SomeTwice => SomeTwice'
<1>1. \A d \in Processes : StopCalls(d) \subseteq StopCalls(d)'
  BY DEF StopCalls
<1> QED
  BY <1>1 DEF SomeTwice, StoppedTwice

(* The goroutines that have removed the file of process d still run.        *)
LEMMA UnlinkerStays ==
  ASSUME NEW d \in Processes,
         \A x \in Processes :
           stopper[x] \in {"close", "exit"} /\ StopsProcess(x) = d =>
             stopper'[x] \in {"close", "exit"} /\ StopsProcess(x)' = d
  PROVE  HasUnlinker(d) => HasUnlinker(d)'
BY DEF HasUnlinker

--------------------------------------------------------------------------------
(* Steps                                                                    *)

LEMMA IsListeningStep ==
  ASSUME DInv, NEW p \in Processes, IsListening(p)
  PROVE  DInv'
<1> USE ProcessesAssumption, AttemptsAssumption DEF Processes, clientVars
<1>1. TypeOK'
  BY DEF DInv, TypeOK, IsListening, Ends, GoTo
<1>2. PlacesAgree'
  BY DEF DInv, TypeOK, PlacesAgree, Listens, IsListening, Ends, GoTo
<1>3. ConnectionsAgree'
  BY DEF DInv, TypeOK, PlacesAgree, ConnectionsAgree, IsListening, Ends, GoTo
<1>4. StoppersAgree'
  BY DEF DInv, TypeOK, PlacesAgree, ConnectionsAgree, StoppersAgree, StopsProcess,
         IsListening, Ends, GoTo
<1>5. SomeTwice => SomeTwice'
  BY TwiceStays DEF DInv, TypeOK, ConnectionsAgree, IsListening, Ends, GoTo
<1>6. FileAgrees'
  BY <1>5 DEF DInv, TypeOK, PlacesAgree, FileAgrees, Listens, IsListening, Ends, GoTo
<1>7. ClosersAgree'
  <2> SUFFICES ASSUME NEW d1 \in Processes, pc'[d1] = "serving", ~Listens(d1)'
               PROVE  HasUnlinker(d1)'
    BY DEF ClosersAgree
  <2>1. pc[d1] = "serving" /\ ~Listens(d1)
    BY DEF DInv, TypeOK, PlacesAgree, Listens, IsListening, Ends, GoTo
  <2>2. HasUnlinker(d1)
    BY <2>1 DEF DInv, ClosersAgree
  <2>3. \A x1 \in Processes :
          stopper[x1] \in {"close", "exit"} /\ StopsProcess(x1) = d1 =>
            stopper'[x1] \in {"close", "exit"} /\ StopsProcess(x1)' = d1
    BY <2>1 DEF DInv, TypeOK, PlacesAgree, ConnectionsAgree, StoppersAgree, StopsProcess,
       IsListening, Ends, GoTo
  <2> QED
    BY <2>2, <2>3, UnlinkerStays
<1> QED
  BY <1>1, <1>2, <1>3, <1>4, <1>6, <1>7 DEF DInv

LEMMA ForkDaemonStep ==
  ASSUME DInv, NEW p \in Processes, NEW q \in Spares, ForkDaemon(p, q)
  PROVE  DInv'
<1> USE ProcessesAssumption, AttemptsAssumption DEF Processes, clientVars
<1>1. TypeOK'
  BY DEF DInv, TypeOK, ForkDaemon
<1>2. PlacesAgree'
  BY DEF DInv, TypeOK, PlacesAgree, Listens, ForkDaemon
<1>3. ConnectionsAgree'
  BY DEF DInv, TypeOK, PlacesAgree, ConnectionsAgree, ForkDaemon
<1>4. StoppersAgree'
  BY DEF DInv, TypeOK, PlacesAgree, ConnectionsAgree, StoppersAgree, StopsProcess,
         ForkDaemon
<1>5. SomeTwice => SomeTwice'
  BY TwiceStays DEF DInv, TypeOK, ConnectionsAgree, ForkDaemon
<1>6. FileAgrees'
  BY <1>5 DEF DInv, TypeOK, PlacesAgree, FileAgrees, Listens, ForkDaemon
<1>7. ClosersAgree'
  <2> SUFFICES ASSUME NEW d1 \in Processes, pc'[d1] = "serving", ~Listens(d1)'
               PROVE  HasUnlinker(d1)'
    BY DEF ClosersAgree
  <2>1. pc[d1] = "serving" /\ ~Listens(d1)
    BY DEF DInv, TypeOK, PlacesAgree, Listens, ForkDaemon
  <2>2. HasUnlinker(d1)
    BY <2>1 DEF DInv, ClosersAgree
  <2>3. \A x1 \in Processes :
          stopper[x1] \in {"close", "exit"} /\ StopsProcess(x1) = d1 =>
            stopper'[x1] \in {"close", "exit"} /\ StopsProcess(x1)' = d1
    BY <2>1 DEF DInv, TypeOK, PlacesAgree, ConnectionsAgree, StoppersAgree, StopsProcess, ForkDaemon
  <2> QED
    BY <2>2, <2>3, UnlinkerStays
<1> QED
  BY <1>1, <1>2, <1>3, <1>4, <1>6, <1>7 DEF DInv

LEMMA ForkPidStep ==
  ASSUME DInv, NEW p \in Processes, NEW q \in Spares, ForkPid(p, q)
  PROVE  DInv'
<1> USE ProcessesAssumption, AttemptsAssumption DEF Processes, clientVars
<1>1. TypeOK'
  BY DEF DInv, TypeOK, ForkPid
<1>2. PlacesAgree'
  BY DEF DInv, TypeOK, PlacesAgree, Listens, ForkPid
<1>3. ConnectionsAgree'
  BY DEF DInv, TypeOK, PlacesAgree, ConnectionsAgree, ForkPid
<1>4. StoppersAgree'
  BY DEF DInv, TypeOK, PlacesAgree, ConnectionsAgree, StoppersAgree, StopsProcess, ForkPid
<1>5. SomeTwice => SomeTwice'
  BY TwiceStays DEF DInv, TypeOK, ConnectionsAgree, ForkPid
<1>6. FileAgrees'
  BY <1>5 DEF DInv, TypeOK, PlacesAgree, FileAgrees, Listens, ForkPid
<1>7. ClosersAgree'
  <2> SUFFICES ASSUME NEW d1 \in Processes, pc'[d1] = "serving", ~Listens(d1)'
               PROVE  HasUnlinker(d1)'
    BY DEF ClosersAgree
  <2>1. pc[d1] = "serving" /\ ~Listens(d1)
    BY DEF DInv, TypeOK, PlacesAgree, Listens, ForkPid
  <2>2. HasUnlinker(d1)
    BY <2>1 DEF DInv, ClosersAgree
  <2>3. \A x1 \in Processes :
          stopper[x1] \in {"close", "exit"} /\ StopsProcess(x1) = d1 =>
            stopper'[x1] \in {"close", "exit"} /\ StopsProcess(x1)' = d1
    BY <2>1 DEF DInv, TypeOK, PlacesAgree, ConnectionsAgree, StoppersAgree, StopsProcess, ForkPid
  <2> QED
    BY <2>2, <2>3, UnlinkerStays
<1> QED
  BY <1>1, <1>2, <1>3, <1>4, <1>6, <1>7 DEF DInv

LEMMA PidEndsStep ==
  ASSUME DInv, NEW p \in Processes, PidEnds(p)
  PROVE  DInv'
<1> USE ProcessesAssumption, AttemptsAssumption DEF Processes, clientVars
<1>1. TypeOK'
  <2>1. tries' \in [Processes -> 0 .. Attempts]
    BY DEF DInv, TypeOK, PlacesAgree, PidEnds, TryFails
  <2>2. pc' \in [Processes -> {"unused", "check", "listen", "bound", "open", "serving", "fork",
                               "try", "wait", "dial", "await", "end"}]
    BY DEF DInv, TypeOK, PidEnds, TryFails, Ends, GoTo
  <2>3. result' \in [Processes -> {"none", "answered", "failed"}]
    BY DEF DInv, TypeOK, PidEnds, TryFails, Ends
  <2> QED
    BY <2>1, <2>2, <2>3 DEF DInv, TypeOK, PidEnds
<1>2. PlacesAgree'
  BY DEF DInv, TypeOK, PlacesAgree, FileAgrees, ConnectionsAgree, StoppersAgree,
         Listens, StopsProcess, PidEnds, TryFails, Ends, GoTo
<1>3. ConnectionsAgree'
  BY DEF DInv, TypeOK, PlacesAgree, ConnectionsAgree, PidEnds, TryFails, Ends, GoTo
<1>4. StoppersAgree'
  BY DEF DInv, TypeOK, PlacesAgree, ConnectionsAgree, StoppersAgree, StopsProcess,
         PidEnds, TryFails, Ends, GoTo
<1>5. SomeTwice => SomeTwice'
  BY TwiceStays DEF DInv, TypeOK, ConnectionsAgree, PidEnds, TryFails, Ends, GoTo
<1>6. FileAgrees'
  BY <1>5 DEF DInv, TypeOK, PlacesAgree, FileAgrees, Listens, PidEnds, TryFails, Ends, GoTo
<1>7. ClosersAgree'
  <2> SUFFICES ASSUME NEW d1 \in Processes, pc'[d1] = "serving", ~Listens(d1)'
               PROVE  HasUnlinker(d1)'
    BY DEF ClosersAgree
  <2>1. pc[d1] = "serving" /\ ~Listens(d1)
    BY DEF DInv, TypeOK, PlacesAgree, Listens, PidEnds, TryFails, Ends, GoTo
  <2>2. HasUnlinker(d1)
    BY <2>1 DEF DInv, ClosersAgree
  <2>3. \A x1 \in Processes :
          stopper[x1] \in {"close", "exit"} /\ StopsProcess(x1) = d1 =>
            stopper'[x1] \in {"close", "exit"} /\ StopsProcess(x1)' = d1
    BY <2>1 DEF DInv, TypeOK, PlacesAgree, ConnectionsAgree, StoppersAgree, StopsProcess,
       PidEnds, TryFails, Ends, GoTo
  <2> QED
    BY <2>2, <2>3, UnlinkerStays
<1> QED
  BY <1>1, <1>2, <1>3, <1>4, <1>6, <1>7 DEF DInv

LEMMA ForkFailsStep ==
  ASSUME DInv, NEW p \in Processes, ForkFails(p)
  PROVE  DInv'
<1> USE ProcessesAssumption, AttemptsAssumption DEF Processes, clientVars
<1>1. TypeOK'
  BY DEF DInv, TypeOK, PlacesAgree, FileAgrees, ConnectionsAgree, StoppersAgree,
         Listens, StopsProcess, ForkFails, TryFails, Ends, GoTo
<1>2. PlacesAgree'
  BY DEF DInv, TypeOK, PlacesAgree, Listens, ForkFails, TryFails, Ends, GoTo
<1>3. ConnectionsAgree'
  BY DEF DInv, TypeOK, PlacesAgree, ConnectionsAgree, ForkFails, TryFails, Ends, GoTo
<1>4. StoppersAgree'
  BY DEF DInv, TypeOK, PlacesAgree, ConnectionsAgree, StoppersAgree, StopsProcess,
         ForkFails, TryFails, Ends, GoTo
<1>5. SomeTwice => SomeTwice'
  BY TwiceStays DEF DInv, TypeOK, ConnectionsAgree, ForkFails, TryFails, Ends, GoTo
<1>6. FileAgrees'
  BY <1>5 DEF DInv, TypeOK, PlacesAgree, FileAgrees, Listens, ForkFails, TryFails, Ends, GoTo
<1>7. ClosersAgree'
  <2> SUFFICES ASSUME NEW d1 \in Processes, pc'[d1] = "serving", ~Listens(d1)'
               PROVE  HasUnlinker(d1)'
    BY DEF ClosersAgree
  <2>1. pc[d1] = "serving" /\ ~Listens(d1)
    BY DEF DInv, TypeOK, PlacesAgree, Listens, ForkFails, TryFails, Ends, GoTo
  <2>2. HasUnlinker(d1)
    BY <2>1 DEF DInv, ClosersAgree
  <2>3. \A x1 \in Processes :
          stopper[x1] \in {"close", "exit"} /\ StopsProcess(x1) = d1 =>
            stopper'[x1] \in {"close", "exit"} /\ StopsProcess(x1)' = d1
    BY <2>1 DEF DInv, TypeOK, PlacesAgree, ConnectionsAgree, StoppersAgree, StopsProcess,
       ForkFails, TryFails, Ends, GoTo
  <2> QED
    BY <2>2, <2>3, UnlinkerStays
<1> QED
  BY <1>1, <1>2, <1>3, <1>4, <1>6, <1>7 DEF DInv

LEMMA DialStep ==
  ASSUME DInv, NEW p \in Processes, Dial(p)
  PROVE  DInv'
<1> USE ProcessesAssumption, AttemptsAssumption DEF Processes, clientVars
<1>1. TypeOK'
  <2>1. conn' \in [Processes -> [to : Processes \cup {NoProcess},
                                 state : {"none", "queued", "accepted", "stopping", "closed"},
                                 answered : BOOLEAN]]
    <3>1. CASE file # NoProcess /\ listener[file] = "open"
      <4> DEFINE c == [to |-> file, state |-> "queued", answered |-> FALSE]
      <4>1. c \in [to : Processes \cup {NoProcess},
                   state : {"none", "queued", "accepted", "stopping", "closed"},
                   answered : BOOLEAN]
        BY DEF DInv, TypeOK
      <4>2. conn' = [conn EXCEPT ![p] = c]
        BY <3>1 DEF Dial
      <4> HIDE DEF c
      <4> QED
        BY <4>1, <4>2 DEF DInv, TypeOK
    <3>2. CASE ~(file # NoProcess /\ listener[file] = "open")
      BY <3>2 DEF DInv, TypeOK, Dial
    <3> QED
      BY <3>1, <3>2
  <2>2. pc' \in [Processes -> {"unused", "check", "listen", "bound", "open", "serving", "fork",
                               "try", "wait", "dial", "await", "end"}]
    BY DEF DInv, TypeOK, Dial, Ends, GoTo
  <2>3. result' \in [Processes -> {"none", "answered", "failed"}]
    BY DEF DInv, TypeOK, Dial, Ends
  <2> QED
    BY <2>1, <2>2, <2>3 DEF DInv, TypeOK, Dial
<1>2. PlacesAgree'
  BY DEF DInv, TypeOK, PlacesAgree, Listens, Dial, Ends, GoTo
<1>3. ConnectionsAgree'
  BY DEF DInv, TypeOK, PlacesAgree, FileAgrees, ConnectionsAgree, StoppersAgree,
         Listens, StopsProcess, Dial, Ends, GoTo
<1>4. StoppersAgree'
  BY DEF DInv, TypeOK, PlacesAgree, ConnectionsAgree, StoppersAgree, StopsProcess,
         Dial, Ends, GoTo
<1>5. SomeTwice => SomeTwice'
  BY TwiceStays DEF DInv, TypeOK, ConnectionsAgree, Dial, Ends, GoTo
<1>6. FileAgrees'
  BY <1>5 DEF DInv, TypeOK, PlacesAgree, FileAgrees, Listens, Dial, Ends, GoTo
<1>7. ClosersAgree'
  <2> SUFFICES ASSUME NEW d1 \in Processes, pc'[d1] = "serving", ~Listens(d1)'
               PROVE  HasUnlinker(d1)'
    BY DEF ClosersAgree
  <2>1. pc[d1] = "serving" /\ ~Listens(d1)
    BY DEF DInv, TypeOK, PlacesAgree, Listens, Dial, Ends, GoTo
  <2>2. HasUnlinker(d1)
    BY <2>1 DEF DInv, ClosersAgree
  <2>3. \A x1 \in Processes :
          stopper[x1] \in {"close", "exit"} /\ StopsProcess(x1) = d1 =>
            stopper'[x1] \in {"close", "exit"} /\ StopsProcess(x1)' = d1
    BY <2>1 DEF DInv, TypeOK, PlacesAgree, ConnectionsAgree, StoppersAgree, StopsProcess, Dial,
       Ends, GoTo
  <2> QED
    BY <2>2, <2>3, UnlinkerStays
<1> QED
  BY <1>1, <1>2, <1>3, <1>4, <1>6, <1>7 DEF DInv

LEMMA AwaitStep ==
  ASSUME DInv, NEW p \in Processes, Await(p)
  PROVE  DInv'
<1> USE ProcessesAssumption, AttemptsAssumption DEF Processes, clientVars
<1>1. TypeOK'
  BY DEF DInv, TypeOK, Await, Ends, GoTo
<1>2. PlacesAgree'
  BY DEF DInv, TypeOK, PlacesAgree, Listens, Await, Ends, GoTo
<1>3. ConnectionsAgree'
  BY DEF DInv, TypeOK, PlacesAgree, ConnectionsAgree, Await, Ends, GoTo
<1>4. StoppersAgree'
  BY DEF DInv, TypeOK, PlacesAgree, ConnectionsAgree, StoppersAgree, StopsProcess,
         Await, Ends, GoTo
<1>5. SomeTwice => SomeTwice'
  BY TwiceStays DEF DInv, TypeOK, ConnectionsAgree, Await, Ends, GoTo
<1>6. FileAgrees'
  BY <1>5 DEF DInv, TypeOK, PlacesAgree, FileAgrees, Listens, Await, Ends, GoTo
<1>7. ClosersAgree'
  <2> SUFFICES ASSUME NEW d1 \in Processes, pc'[d1] = "serving", ~Listens(d1)'
               PROVE  HasUnlinker(d1)'
    BY DEF ClosersAgree
  <2>1. pc[d1] = "serving" /\ ~Listens(d1)
    BY DEF DInv, TypeOK, PlacesAgree, Listens, Await, Ends, GoTo
  <2>2. HasUnlinker(d1)
    BY <2>1 DEF DInv, ClosersAgree
  <2>3. \A x1 \in Processes :
          stopper[x1] \in {"close", "exit"} /\ StopsProcess(x1) = d1 =>
            stopper'[x1] \in {"close", "exit"} /\ StopsProcess(x1)' = d1
    BY <2>1 DEF DInv, TypeOK, PlacesAgree, ConnectionsAgree, StoppersAgree, StopsProcess, Await,
       Ends, GoTo
  <2> QED
    BY <2>2, <2>3, UnlinkerStays
<1> QED
  BY <1>1, <1>2, <1>3, <1>4, <1>6, <1>7 DEF DInv

LEMMA BindStep ==
  ASSUME DInv, NEW d \in Processes, Bind(d)
  PROVE  DInv'
<1> USE ProcessesAssumption, AttemptsAssumption DEF Processes, clientVars
<1>1. TypeOK'
  BY DEF DInv, TypeOK, Bind, Ends, GoTo
<1>2. PlacesAgree'
  BY DEF DInv, TypeOK, PlacesAgree, Listens, Bind, Ends, GoTo
<1>3. ConnectionsAgree'
  BY DEF DInv, TypeOK, PlacesAgree, ConnectionsAgree, Bind, Ends, GoTo
<1>4. StoppersAgree'
  BY DEF DInv, TypeOK, PlacesAgree, ConnectionsAgree, StoppersAgree, StopsProcess,
         Bind, Ends, GoTo
<1>5. SomeTwice => SomeTwice'
  BY TwiceStays DEF DInv, TypeOK, ConnectionsAgree, Bind, Ends, GoTo
<1>6. FileAgrees'
  BY <1>5 DEF DInv, TypeOK, PlacesAgree, FileAgrees, Listens, Bind, Ends, GoTo
<1>7. ClosersAgree'
  <2> SUFFICES ASSUME NEW d1 \in Processes, pc'[d1] = "serving", ~Listens(d1)'
               PROVE  HasUnlinker(d1)'
    BY DEF ClosersAgree
  <2>1. pc[d1] = "serving" /\ ~Listens(d1)
    BY DEF DInv, TypeOK, PlacesAgree, Listens, Bind, Ends, GoTo
  <2>2. HasUnlinker(d1)
    BY <2>1 DEF DInv, ClosersAgree
  <2>3. \A x1 \in Processes :
          stopper[x1] \in {"close", "exit"} /\ StopsProcess(x1) = d1 =>
            stopper'[x1] \in {"close", "exit"} /\ StopsProcess(x1)' = d1
    BY <2>1 DEF DInv, TypeOK, PlacesAgree, ConnectionsAgree, StoppersAgree, StopsProcess, Bind,
       Ends, GoTo
  <2> QED
    BY <2>2, <2>3, UnlinkerStays
<1> QED
  BY <1>1, <1>2, <1>3, <1>4, <1>6, <1>7 DEF DInv

LEMMA ListenStep ==
  ASSUME DInv, NEW d \in Processes, Listen(d)
  PROVE  DInv'
<1> USE ProcessesAssumption, AttemptsAssumption DEF Processes, clientVars
<1>1. TypeOK'
  BY DEF DInv, TypeOK, Listen, GoTo
<1>2. PlacesAgree'
  BY DEF DInv, TypeOK, PlacesAgree, Listens, Listen, GoTo
<1>3. ConnectionsAgree'
  BY DEF DInv, TypeOK, PlacesAgree, ConnectionsAgree, Listen, GoTo
<1>4. StoppersAgree'
  BY DEF DInv, TypeOK, PlacesAgree, ConnectionsAgree, StoppersAgree, StopsProcess,
         Listen, GoTo
<1>5. SomeTwice => SomeTwice'
  BY TwiceStays DEF DInv, TypeOK, ConnectionsAgree, Listen, GoTo
<1>6. FileAgrees'
  BY <1>5 DEF DInv, TypeOK, PlacesAgree, FileAgrees, Listens, Listen, GoTo
<1>7. ClosersAgree'
  <2> SUFFICES ASSUME NEW d1 \in Processes, pc'[d1] = "serving", ~Listens(d1)'
               PROVE  HasUnlinker(d1)'
    BY DEF ClosersAgree
  <2>1. pc[d1] = "serving" /\ ~Listens(d1)
    BY DEF DInv, TypeOK, PlacesAgree, Listens, Listen, GoTo
  <2>2. HasUnlinker(d1)
    BY <2>1 DEF DInv, ClosersAgree
  <2>3. \A x1 \in Processes :
          stopper[x1] \in {"close", "exit"} /\ StopsProcess(x1) = d1 =>
            stopper'[x1] \in {"close", "exit"} /\ StopsProcess(x1)' = d1
    BY <2>1 DEF DInv, TypeOK, PlacesAgree, ConnectionsAgree, StoppersAgree, StopsProcess, Listen,
       GoTo
  <2> QED
    BY <2>2, <2>3, UnlinkerStays
<1> QED
  BY <1>1, <1>2, <1>3, <1>4, <1>6, <1>7 DEF DInv

LEMMA NotifySignalsStep ==
  ASSUME DInv, NEW d \in Processes, NotifySignals(d)
  PROVE  DInv'
<1> USE ProcessesAssumption, AttemptsAssumption DEF Processes, clientVars
<1>1. TypeOK'
  BY DEF DInv, TypeOK, NotifySignals, GoTo
<1>2. PlacesAgree'
  BY DEF DInv, TypeOK, PlacesAgree, Listens, NotifySignals, GoTo
<1>3. ConnectionsAgree'
  BY DEF DInv, TypeOK, PlacesAgree, ConnectionsAgree, NotifySignals, GoTo
<1>4. StoppersAgree'
  BY DEF DInv, TypeOK, PlacesAgree, ConnectionsAgree, StoppersAgree, StopsProcess,
         NotifySignals, GoTo
<1>5. SomeTwice => SomeTwice'
  BY TwiceStays DEF DInv, TypeOK, ConnectionsAgree, NotifySignals, GoTo
<1>6. FileAgrees'
  BY <1>5 DEF DInv, TypeOK, PlacesAgree, FileAgrees, Listens, NotifySignals, GoTo
<1>7. ClosersAgree'
  <2> SUFFICES ASSUME NEW d1 \in Processes, pc'[d1] = "serving", ~Listens(d1)'
               PROVE  HasUnlinker(d1)'
    BY DEF ClosersAgree
  <2>1. pc[d1] = "serving" /\ ~Listens(d1)
    BY DEF DInv, TypeOK, PlacesAgree, Listens, NotifySignals, GoTo
  <2>2. HasUnlinker(d1)
    BY <2>1 DEF DInv, ClosersAgree
  <2>3. \A x1 \in Processes :
          stopper[x1] \in {"close", "exit"} /\ StopsProcess(x1) = d1 =>
            stopper'[x1] \in {"close", "exit"} /\ StopsProcess(x1)' = d1
    BY <2>1 DEF DInv, TypeOK, PlacesAgree, ConnectionsAgree, StoppersAgree, StopsProcess,
       NotifySignals, GoTo
  <2> QED
    BY <2>2, <2>3, UnlinkerStays
<1> QED
  BY <1>1, <1>2, <1>3, <1>4, <1>6, <1>7 DEF DInv

LEMMA AcceptStep ==
  ASSUME DInv, NEW d \in Processes, NEW p \in Processes, Accept(d, p)
  PROVE  DInv'
<1> USE ProcessesAssumption, AttemptsAssumption DEF Processes, clientVars
<1>1. TypeOK'
  BY DEF DInv, TypeOK, Accept
<1>2. PlacesAgree'
  BY DEF DInv, TypeOK, PlacesAgree, Listens, Accept
<1>3. ConnectionsAgree'
  BY DEF DInv, TypeOK, PlacesAgree, ConnectionsAgree, Accept
<1>4. StoppersAgree'
  BY DEF DInv, TypeOK, PlacesAgree, ConnectionsAgree, StoppersAgree, StopsProcess, Accept
<1>5. SomeTwice => SomeTwice'
  BY TwiceStays DEF DInv, TypeOK, ConnectionsAgree, Accept
<1>6. FileAgrees'
  BY <1>5 DEF DInv, TypeOK, PlacesAgree, FileAgrees, Listens, Accept
<1>7. ClosersAgree'
  <2> SUFFICES ASSUME NEW d1 \in Processes, pc'[d1] = "serving", ~Listens(d1)'
               PROVE  HasUnlinker(d1)'
    BY DEF ClosersAgree
  <2>1. pc[d1] = "serving" /\ ~Listens(d1)
    BY DEF DInv, TypeOK, PlacesAgree, Listens, Accept
  <2>2. HasUnlinker(d1)
    BY <2>1 DEF DInv, ClosersAgree
  <2>3. \A x1 \in Processes :
          stopper[x1] \in {"close", "exit"} /\ StopsProcess(x1) = d1 =>
            stopper'[x1] \in {"close", "exit"} /\ StopsProcess(x1)' = d1
    BY <2>1 DEF DInv, TypeOK, PlacesAgree, ConnectionsAgree, StoppersAgree, StopsProcess, Accept
  <2> QED
    BY <2>2, <2>3, UnlinkerStays
<1> QED
  BY <1>1, <1>2, <1>3, <1>4, <1>6, <1>7 DEF DInv

LEMMA AcceptFailsStep ==
  ASSUME DInv, NEW d \in Processes, AcceptFails(d)
  PROVE  DInv'
<1> USE ProcessesAssumption, AttemptsAssumption DEF Processes, clientVars
<1>1. TypeOK'
  BY DEF DInv, TypeOK, PlacesAgree, FileAgrees, ConnectionsAgree, StoppersAgree,
         Listens, StopsProcess, AcceptFails, Exits, GoTo
<1>2. PlacesAgree'
  BY DEF DInv, TypeOK, PlacesAgree, Listens, AcceptFails, Exits, GoTo
<1>3. ConnectionsAgree'
  BY DEF DInv, TypeOK, PlacesAgree, ConnectionsAgree, AcceptFails, Exits, GoTo
<1>4. StoppersAgree'
  BY DEF DInv, TypeOK, PlacesAgree, ConnectionsAgree, StoppersAgree, StopsProcess,
         AcceptFails, Exits, GoTo
<1>5. SomeTwice => SomeTwice'
  BY TwiceStays DEF DInv, TypeOK, ConnectionsAgree, AcceptFails, Exits, GoTo
<1>6. FileAgrees'
  BY <1>5 DEF DInv, TypeOK, PlacesAgree, FileAgrees, Listens, AcceptFails, Exits, GoTo
<1>7. ClosersAgree'
  <2> SUFFICES ASSUME NEW d1 \in Processes, pc'[d1] = "serving", ~Listens(d1)'
               PROVE  HasUnlinker(d1)'
    BY DEF ClosersAgree
  <2>1. pc[d1] = "serving" /\ ~Listens(d1)
    BY DEF DInv, TypeOK, PlacesAgree, Listens, AcceptFails, Exits, GoTo
  <2>2. HasUnlinker(d1)
    BY <2>1 DEF DInv, ClosersAgree
  <2>3. \A x1 \in Processes :
          stopper[x1] \in {"close", "exit"} /\ StopsProcess(x1) = d1 =>
            stopper'[x1] \in {"close", "exit"} /\ StopsProcess(x1)' = d1
    BY <2>1 DEF DInv, TypeOK, PlacesAgree, ConnectionsAgree, StoppersAgree, StopsProcess,
       AcceptFails, Exits, GoTo
  <2> QED
    BY <2>2, <2>3, UnlinkerStays
<1> QED
  BY <1>1, <1>2, <1>3, <1>4, <1>6, <1>7 DEF DInv

LEMMA DiesStep ==
  ASSUME DInv, NEW d \in Processes, Dies(d)
  PROVE  DInv'
<1> USE ProcessesAssumption, AttemptsAssumption DEF Processes, clientVars
<1>1. TypeOK'
  BY DEF DInv, TypeOK, PlacesAgree, FileAgrees, ConnectionsAgree, StoppersAgree,
         Listens, StopsProcess, Dies, Exits, GoTo
<1>2. PlacesAgree'
  BY DEF DInv, TypeOK, PlacesAgree, Listens, Dies, Exits, GoTo
<1>3. ConnectionsAgree'
  BY DEF DInv, TypeOK, PlacesAgree, ConnectionsAgree, Dies, Exits, GoTo
<1>4. StoppersAgree'
  BY DEF DInv, TypeOK, PlacesAgree, ConnectionsAgree, StoppersAgree, StopsProcess,
         Dies, Exits, GoTo
<1>5. SomeTwice => SomeTwice'
  BY TwiceStays DEF DInv, TypeOK, ConnectionsAgree, Dies, Exits, GoTo
<1>6. FileAgrees'
  BY <1>5 DEF DInv, TypeOK, PlacesAgree, FileAgrees, Listens, Dies, Exits, GoTo
<1>7. ClosersAgree'
  <2> SUFFICES ASSUME NEW d1 \in Processes, pc'[d1] = "serving", ~Listens(d1)'
               PROVE  HasUnlinker(d1)'
    BY DEF ClosersAgree
  <2>1. pc[d1] = "serving" /\ ~Listens(d1)
    BY DEF DInv, TypeOK, PlacesAgree, Listens, Dies, Exits, GoTo
  <2>2. HasUnlinker(d1)
    BY <2>1 DEF DInv, ClosersAgree
  <2>3. \A x1 \in Processes :
          stopper[x1] \in {"close", "exit"} /\ StopsProcess(x1) = d1 =>
            stopper'[x1] \in {"close", "exit"} /\ StopsProcess(x1)' = d1
    BY <2>1 DEF DInv, TypeOK, PlacesAgree, ConnectionsAgree, StoppersAgree, StopsProcess, Dies,
       Exits, GoTo
  <2> QED
    BY <2>2, <2>3, UnlinkerStays
<1> QED
  BY <1>1, <1>2, <1>3, <1>4, <1>6, <1>7 DEF DInv

LEMMA ExecuteStep ==
  ASSUME DInv, NEW p \in Processes, ExecuteCommandAndCloseConnection(p)
  PROVE  DInv'
<1> USE ProcessesAssumption, AttemptsAssumption DEF Processes, clientVars
<1>1. TypeOK'
  BY DEF DInv, TypeOK, ExecuteCommandAndCloseConnection
<1>2. PlacesAgree'
  BY DEF DInv, TypeOK, PlacesAgree, Listens, ExecuteCommandAndCloseConnection
<1>3. ConnectionsAgree'
  BY DEF DInv, TypeOK, PlacesAgree, ConnectionsAgree, ExecuteCommandAndCloseConnection
<1>4. StoppersAgree'
  BY DEF DInv, TypeOK, PlacesAgree, ConnectionsAgree, StoppersAgree, StopsProcess,
         ExecuteCommandAndCloseConnection
<1>5. SomeTwice => SomeTwice'
  BY TwiceStays DEF DInv, TypeOK, ConnectionsAgree, ExecuteCommandAndCloseConnection
<1>6. FileAgrees'
  BY <1>5 DEF DInv, TypeOK, PlacesAgree, FileAgrees, Listens, ExecuteCommandAndCloseConnection
<1>7. ClosersAgree'
  <2> SUFFICES ASSUME NEW d1 \in Processes, pc'[d1] = "serving", ~Listens(d1)'
               PROVE  HasUnlinker(d1)'
    BY DEF ClosersAgree
  <2>1. pc[d1] = "serving" /\ ~Listens(d1)
    BY DEF DInv, TypeOK, PlacesAgree, Listens, ExecuteCommandAndCloseConnection
  <2>2. HasUnlinker(d1)
    BY <2>1 DEF DInv, ClosersAgree
  <2>3. \A x1 \in Processes :
          stopper[x1] \in {"close", "exit"} /\ StopsProcess(x1) = d1 =>
            stopper'[x1] \in {"close", "exit"} /\ StopsProcess(x1)' = d1
    BY <2>1 DEF DInv, TypeOK, PlacesAgree, ConnectionsAgree, StoppersAgree, StopsProcess,
       ExecuteCommandAndCloseConnection
  <2> QED
    BY <2>2, <2>3, UnlinkerStays
<1> QED
  BY <1>1, <1>2, <1>3, <1>4, <1>6, <1>7 DEF DInv

(* A goroutine that removes a file when its process does not listen any     *)
(* more is the second in the stop() of that process.                        *)
LEMMA UnlinkStep ==
  ASSUME DInv, NEW x \in Processes, Unlink(x)
  PROVE  DInv'
<1> USE ProcessesAssumption, AttemptsAssumption DEF Processes, clientVars
<1> DEFINE d == StopsProcess(x)
<1>1. TypeOK'
  BY DEF DInv, TypeOK, Unlink
<1>2. PlacesAgree'
  BY DEF DInv, TypeOK, PlacesAgree, ConnectionsAgree, StoppersAgree, StopsProcess, Listens, Unlink
<1>3. ConnectionsAgree'
  BY DEF DInv, TypeOK, PlacesAgree, ConnectionsAgree, Unlink
<1>4. /\ stopper[x] = "unlink" /\ stopper'[x] = "close"
      /\ \A y \in Processes : y # x => stopper'[y] = stopper[y]
      /\ \A y \in Processes : StopsProcess(y)' = StopsProcess(y)
      /\ file' = NoProcess
      /\ listener' = [listener EXCEPT ![d] = IF listener[d] = "open" THEN "unlinked"
                                             ELSE listener[d]]
      /\ pc' = pc /\ cmd' = cmd /\ conn' = conn /\ signalled' = signalled
  BY DEF Unlink, StopsProcess, DInv, TypeOK
<1>5. d \in Processes /\ pc[d] = "serving" /\ x \in StopCalls(d)
  <2>1. CASE cmd[x] = "stop"
    <3>1. conn[x].state = "stopping" /\ d = conn[x].to
      BY <1>4, <2>1 DEF DInv, StoppersAgree, StopsProcess
    <3>2. conn[x].to \in Processes /\ conn[x].answered /\ pc[conn[x].to] \in {"open", "serving"}
      BY <3>1 DEF DInv, ConnectionsAgree
    <3>3. pc[d] = "serving"
      BY <3>1, <3>2 DEF DInv, ConnectionsAgree
    <3> QED
      BY <2>1, <3>1, <3>2, <3>3 DEF StopCalls
  <2>2. CASE cmd[x] # "stop"
    BY <1>4, <2>2 DEF DInv, StoppersAgree, StopsProcess, StopCalls
  <2> QED
    BY <2>1, <2>2
<1> HIDE DEF d
<1>6. listener'[d] \in {"unlinked", "closed"}
  BY <1>4, <1>5 DEF DInv, TypeOK, PlacesAgree
<1>7. StoppersAgree'
  <2> SUFFICES ASSUME NEW y \in Processes, stopper'[y] # "none"
               PROVE  /\ \/ cmd[y] = "stop" /\ conn[y].state = "stopping"
                         \/ cmd[y] # "stop" /\ pc[y] = "serving" /\ signalled[y]
                      /\ stopper'[y] \in {"close", "exit"} =>
                           listener'[StopsProcess(y)] \in {"unlinked", "closed"}
    BY <1>4 DEF StoppersAgree
  <2>1. stopper[y] # "none"
    BY <1>4
  <2>2. CASE StopsProcess(y) = d
    BY <1>6, <2>1, <2>2 DEF DInv, StoppersAgree
  <2>3. CASE StopsProcess(y) # d
    <3>1. y # x /\ stopper'[y] = stopper[y]
      BY <1>4, <2>3 DEF d
    <3>2. stopper[y] \in {"close", "exit"} => listener[StopsProcess(y)] \in {"unlinked", "closed"}
      BY <2>1 DEF DInv, StoppersAgree
    <3>3. listener[StopsProcess(y)] \in {"unlinked", "closed"} => StopsProcess(y) \in Processes
      BY <2>1 DEF DInv, TypeOK, StoppersAgree, ConnectionsAgree,
         StopsProcess
    <3> QED
      BY <1>4, <2>1, <2>3, <3>1, <3>2, <3>3 DEF DInv, TypeOK, StoppersAgree
  <2> QED
    BY <2>2, <2>3
<1>8. SomeTwice => SomeTwice'
  BY <1>4, TwiceStays
<1>9. listener[d] # "open" => SomeTwice
  <2> SUFFICES ASSUME listener[d] # "open" PROVE SomeTwice
    OBVIOUS
  <2>1. ~Listens(d)
    BY <1>5 DEF Listens, DInv, PlacesAgree
  <2>2. PICK y \in Processes : stopper[y] \in {"close", "exit"} /\ StopsProcess(y) = d
    BY <1>5, <2>1 DEF DInv, ClosersAgree, HasUnlinker
  <2>3. y # x
    BY <1>4, <2>2
  <2>4. y \in StopCalls(d)
    BY <2>2 DEF DInv, StoppersAgree, ConnectionsAgree, StopsProcess, StopCalls
  <2> QED
    BY <1>5, <2>3, <2>4 DEF SomeTwice, StoppedTwice
<1>10. FileAgrees'
  <2>1. ASSUME NEW e \in Processes, Listens(e)' PROVE SomeTwice'
    <3>1. e # d /\ Listens(e)
      BY <1>4, <1>5, <1>6, <2>1 DEF Listens, DInv, TypeOK
    <3>2. file = e \/ SomeTwice
      BY <3>1 DEF DInv, FileAgrees
    <3>3. listener[d] = "open" => file = d \/ SomeTwice
      BY <1>5 DEF Listens, DInv, FileAgrees
    <3> QED
      BY <1>8, <1>9, <3>1, <3>2, <3>3
  <2> QED
    BY <1>4, <2>1 DEF FileAgrees
<1>11. ClosersAgree'
  <2> SUFFICES ASSUME NEW e \in Processes, pc[e] = "serving", ~Listens(e)'
               PROVE  HasUnlinker(e)'
    BY <1>4 DEF ClosersAgree
  <2>1. CASE e = d
    <3>1. x \in Processes /\ stopper'[x] = "close" /\ StopsProcess(x)' = e
      BY <1>4, <2>1 DEF d
    <3> QED
      BY <3>1 DEF HasUnlinker
  <2>2. CASE e # d
    <3>1. ~Listens(e)
      BY <1>4, <2>2 DEF Listens, DInv, TypeOK
    <3>2. HasUnlinker(e)
      BY <3>1 DEF DInv, ClosersAgree
    <3>3. \A y \in Processes :
            stopper[y] \in {"close", "exit"} /\ StopsProcess(y) = e =>
              stopper'[y] \in {"close", "exit"} /\ StopsProcess(y)' = e
      BY <1>4
    <3> QED
      BY <3>2, <3>3, UnlinkerStays
  <2> QED
    BY <2>1, <2>2
<1> QED
  BY <1>1, <1>2, <1>3, <1>7, <1>10, <1>11 DEF DInv

LEMMA CloseStep ==
  ASSUME DInv, NEW x \in Processes, Close(x)
  PROVE  DInv'
<1> USE ProcessesAssumption, AttemptsAssumption DEF Processes, clientVars
<1>1. TypeOK'
  BY DEF DInv, TypeOK, Close
<1>2. PlacesAgree'
  BY DEF DInv, TypeOK, PlacesAgree, FileAgrees, ConnectionsAgree, StoppersAgree,
         Listens, StopsProcess, Close
<1>3. ConnectionsAgree'
  BY DEF DInv, TypeOK, PlacesAgree, ConnectionsAgree, Close
<1>4. StoppersAgree'
  BY DEF DInv, TypeOK, PlacesAgree, ConnectionsAgree, StoppersAgree, StopsProcess, Close
<1>5. SomeTwice => SomeTwice'
  BY TwiceStays DEF DInv, TypeOK, ConnectionsAgree, Close
<1>6. FileAgrees'
  BY <1>5 DEF DInv, TypeOK, PlacesAgree, FileAgrees, ConnectionsAgree, StoppersAgree,
         Listens, StopsProcess, Close
<1>7. ClosersAgree'
  <2> SUFFICES ASSUME NEW d1 \in Processes, pc'[d1] = "serving", ~Listens(d1)'
               PROVE  HasUnlinker(d1)'
    BY DEF ClosersAgree
  <2>1. pc[d1] = "serving" /\ ~Listens(d1)
    BY DEF DInv, TypeOK, PlacesAgree, ConnectionsAgree, StoppersAgree, StopsProcess, Listens, Close
  <2>2. HasUnlinker(d1)
    BY <2>1 DEF DInv, ClosersAgree
  <2>3. \A x1 \in Processes :
          stopper[x1] \in {"close", "exit"} /\ StopsProcess(x1) = d1 =>
            stopper'[x1] \in {"close", "exit"} /\ StopsProcess(x1)' = d1
    BY <2>1 DEF DInv, TypeOK, PlacesAgree, ConnectionsAgree, StoppersAgree, StopsProcess, Close
  <2> QED
    BY <2>2, <2>3, UnlinkerStays
<1> QED
  BY <1>1, <1>2, <1>3, <1>4, <1>6, <1>7 DEF DInv

LEMMA ExitStep ==
  ASSUME DInv, NEW x \in Processes, Exit(x)
  PROVE  DInv'
<1> USE ProcessesAssumption, AttemptsAssumption DEF Processes, clientVars
<1>1. TypeOK'
  BY DEF DInv, TypeOK, PlacesAgree, FileAgrees, ConnectionsAgree, StoppersAgree,
         Listens, StopsProcess, Exit, Exits, GoTo
<1>2. PlacesAgree'
  BY DEF DInv, TypeOK, PlacesAgree, Listens, Exit, Exits, GoTo
<1>3. ConnectionsAgree'
  BY DEF DInv, TypeOK, PlacesAgree, FileAgrees, ConnectionsAgree, StoppersAgree,
         Listens, StopsProcess, Exit, Exits, GoTo
<1>4. StoppersAgree'
  BY DEF DInv, TypeOK, PlacesAgree, ConnectionsAgree, StoppersAgree, StopsProcess,
         Exit, Exits, GoTo
<1>5. SomeTwice => SomeTwice'
  BY TwiceStays DEF DInv, TypeOK, ConnectionsAgree, Exit, Exits, GoTo
<1>6. FileAgrees'
  BY <1>5 DEF DInv, TypeOK, PlacesAgree, FileAgrees, ConnectionsAgree, StoppersAgree,
         Listens, StopsProcess, Exit, Exits, GoTo
<1>7. ClosersAgree'
  <2> SUFFICES ASSUME NEW d1 \in Processes, pc'[d1] = "serving", ~Listens(d1)'
               PROVE  HasUnlinker(d1)'
    BY DEF ClosersAgree
  <2>1. pc[d1] = "serving" /\ ~Listens(d1)
    BY DEF DInv, TypeOK, PlacesAgree, Listens, Exit, Exits, GoTo
  <2>2. HasUnlinker(d1)
    BY <2>1 DEF DInv, ClosersAgree
  <2>3. \A x1 \in Processes :
          stopper[x1] \in {"close", "exit"} /\ StopsProcess(x1) = d1 =>
            stopper'[x1] \in {"close", "exit"} /\ StopsProcess(x1)' = d1
    BY <2>1 DEF DInv, TypeOK, PlacesAgree, ConnectionsAgree, StoppersAgree, StopsProcess, Exit,
       Exits, GoTo
  <2> QED
    BY <2>2, <2>3, UnlinkerStays
<1> QED
  BY <1>1, <1>2, <1>3, <1>4, <1>6, <1>7 DEF DInv

LEMMA InterruptStep ==
  ASSUME DInv, NEW d \in Processes, Interrupt(d)
  PROVE  DInv'
<1> USE ProcessesAssumption, AttemptsAssumption DEF Processes, clientVars
<1>1. TypeOK'
  BY DEF DInv, TypeOK, Interrupt
<1>2. PlacesAgree'
  BY DEF DInv, TypeOK, PlacesAgree, Listens, Interrupt
<1>3. ConnectionsAgree'
  BY DEF DInv, TypeOK, PlacesAgree, ConnectionsAgree, Interrupt
<1>4. StoppersAgree'
  BY DEF DInv, TypeOK, PlacesAgree, ConnectionsAgree, StoppersAgree, StopsProcess,
         Interrupt
<1>5. SomeTwice => SomeTwice'
  BY TwiceStays DEF DInv, TypeOK, ConnectionsAgree, Interrupt
<1>6. FileAgrees'
  BY <1>5 DEF DInv, TypeOK, PlacesAgree, FileAgrees, Listens, Interrupt
<1>7. ClosersAgree'
  <2> SUFFICES ASSUME NEW d1 \in Processes, pc'[d1] = "serving", ~Listens(d1)'
               PROVE  HasUnlinker(d1)'
    BY DEF ClosersAgree
  <2>1. pc[d1] = "serving" /\ ~Listens(d1)
    BY DEF DInv, TypeOK, PlacesAgree, Listens, Interrupt
  <2>2. HasUnlinker(d1)
    BY <2>1 DEF DInv, ClosersAgree
  <2>3. \A x1 \in Processes :
          stopper[x1] \in {"close", "exit"} /\ StopsProcess(x1) = d1 =>
            stopper'[x1] \in {"close", "exit"} /\ StopsProcess(x1)' = d1
    BY <2>1 DEF DInv, TypeOK, PlacesAgree, ConnectionsAgree, StoppersAgree, StopsProcess, Interrupt
  <2> QED
    BY <2>2, <2>3, UnlinkerStays
<1> QED
  BY <1>1, <1>2, <1>3, <1>4, <1>6, <1>7 DEF DInv

LEMMA KillStep ==
  ASSUME DInv, NEW d \in Processes, NEW signal, Kill(d, signal)
  PROVE  DInv'
<1> USE ProcessesAssumption, AttemptsAssumption DEF Processes, clientVars
<1>1. TypeOK'
  BY DEF DInv, TypeOK, Kill, Exits, GoTo
<1>2. PlacesAgree'
  BY DEF DInv, TypeOK, PlacesAgree, Listens, Kill, Exits, GoTo
<1>3. ConnectionsAgree'
  BY DEF DInv, TypeOK, PlacesAgree, ConnectionsAgree, Kill, Exits, GoTo
<1>4. StoppersAgree'
  BY DEF DInv, TypeOK, PlacesAgree, ConnectionsAgree, StoppersAgree, StopsProcess,
         Kill, Exits, GoTo
<1>5. SomeTwice => SomeTwice'
  BY TwiceStays DEF DInv, TypeOK, ConnectionsAgree, Kill, Exits, GoTo
<1>6. FileAgrees'
  BY <1>5 DEF DInv, TypeOK, PlacesAgree, FileAgrees, Listens, Kill, Exits, GoTo
<1>7. ClosersAgree'
  <2> SUFFICES ASSUME NEW d1 \in Processes, pc'[d1] = "serving", ~Listens(d1)'
               PROVE  HasUnlinker(d1)'
    BY DEF ClosersAgree
  <2>1. pc[d1] = "serving" /\ ~Listens(d1)
    BY DEF DInv, TypeOK, PlacesAgree, Listens, Kill, Exits, GoTo
  <2>2. HasUnlinker(d1)
    BY <2>1 DEF DInv, ClosersAgree
  <2>3. \A x1 \in Processes :
          stopper[x1] \in {"close", "exit"} /\ StopsProcess(x1) = d1 =>
            stopper'[x1] \in {"close", "exit"} /\ StopsProcess(x1)' = d1
    BY <2>1 DEF DInv, TypeOK, PlacesAgree, ConnectionsAgree, StoppersAgree, StopsProcess, Kill,
       Exits, GoTo
  <2> QED
    BY <2>2, <2>3, UnlinkerStays
<1> QED
  BY <1>1, <1>2, <1>3, <1>4, <1>6, <1>7 DEF DInv

LEMMA RemoveFileStep ==
  ASSUME DInv, RemoveFile
  PROVE  DInv'
<1> USE ProcessesAssumption DEF Processes, clientVars
<1>1. \A d \in Processes : ~Listens(d)
  BY DEF DInv, PlacesAgree, FileAgrees, Listens, RemoveFile, IsRunning, TypeOK
<1>2. TypeOK' /\ PlacesAgree' /\ ConnectionsAgree' /\ StoppersAgree'
  BY DEF RemoveFile, DInv, TypeOK, PlacesAgree, ConnectionsAgree, StoppersAgree, Listens,
         StopsProcess
<1>3. FileAgrees'
  BY <1>1 DEF RemoveFile, FileAgrees, Listens
<1>4. ClosersAgree'
  BY DEF RemoveFile, DInv, ClosersAgree, HasUnlinker, Listens, StopsProcess
<1> QED
  BY <1>2, <1>3, <1>4 DEF DInv

LEMMA InitDInv == Init => DInv
  BY ProcessesAssumption, AttemptsAssumption
  DEF Processes, UserProcesses, Init, NoConnection, DInv, TypeOK, PlacesAgree, FileAgrees,
      ConnectionsAgree, StoppersAgree, ClosersAgree, Listens, StopsProcess

LEMMA NextDInv ==
  ASSUME DInv, [Next]_vars
  PROVE  DInv'
<1>1. CASE UNCHANGED vars
  <2>1. TypeOK' /\ PlacesAgree' /\ ConnectionsAgree' /\ StoppersAgree'
    BY <1>1 DEF vars, clientVars, DInv, TypeOK, PlacesAgree, ConnectionsAgree, StoppersAgree,
           Listens, StopsProcess
  <2>2. SomeTwice => SomeTwice'
    BY <1>1, TwiceStays DEF vars, clientVars
  <2>3. FileAgrees'
    BY <1>1, <2>2 DEF vars, clientVars, DInv, FileAgrees, Listens
  <2>4. ClosersAgree'
    BY <1>1 DEF vars, clientVars, DInv, ClosersAgree, HasUnlinker, Listens, StopsProcess
  <2> QED
    BY <2>1, <2>3, <2>4 DEF DInv
<1>2. ASSUME NEW p \in Processes, IsListening(p) \/ ClientStep(p)
      PROVE  DInv'
  <2> USE ProcessesAssumption DEF Processes
  <2>1. CASE IsListening(p)
    BY <2>1, IsListeningStep
  <2>2. CASE PidEnds(p) \/ ForkFails(p) \/ Dial(p) \/ Await(p)
    BY <2>2, PidEndsStep, ForkFailsStep, DialStep, AwaitStep
  <2>3. ASSUME NEW q \in Spares, ForkDaemon(p, q) \/ ForkPid(p, q)
        PROVE  DInv'
    BY <2>3, ForkDaemonStep, ForkPidStep
  <2> QED
    BY <1>2, <2>1, <2>2, <2>3 DEF ClientStep
<1>3. ASSUME NEW d \in Processes, DaemonStep(d) \/ AcceptFails(d) \/ Dies(d)
      PROVE  DInv'
  BY <1>3, BindStep, ListenStep, NotifySignalsStep, AcceptStep, AcceptFailsStep, DiesStep
     DEF DaemonStep
<1>4. ASSUME NEW x \in Processes, ExecuteCommandAndCloseConnection(x) \/ StopStep(x)
      PROVE  DInv'
  BY <1>4, ExecuteStep, UnlinkStep, CloseStep, ExitStep DEF StopStep
<1>5. ASSUME NEW d \in Processes, Interrupt(d) \/ \E signal \in Signals : Kill(d, signal)
      PROVE  DInv'
  BY <1>5, InterruptStep, KillStep
<1> QED
  BY <1>1, <1>2, <1>3, <1>4, <1>5, RemoveFileStep DEF Next

(* Every reachable state satisfies the invariant: the place of a process,   *)
(* its listener, its connections and its stop() agree with one another and  *)
(* with the socket file.                                                    *)
THEOREM DaemonInvariance == Spec => []DInv
  BY InitDInv, NextDInv, PTL DEF Spec

(* The variables of Daemon keep their types.                                *)
THEOREM DaemonTypeCorrect == Spec => []TypeOK
<1>1. DInv => TypeOK
  BY DEF DInv
<1> QED
  BY <1>1, DaemonInvariance, PTL

(* Two background processes never listen at once, however many are started  *)
(* at the same time or while another is being stopped, unless stop() has    *)
(* been called twice in a process (ipc.Listen, stop).                       *)
THEOREM OneDaemon == Spec => []OneDaemonListens
<1>1. DInv => OneDaemonListens
  BY DEF DInv, FileAgrees, Listens, SomeTwice, OneDaemonListens
<1> QED
  BY <1>1, DaemonInvariance, PTL

(* A socket file without a process was left by one that a signal, a panic,  *)
(* os.Exit or an error of Accept ended, never by one that stop() ended,     *)
(* however often it was called (stop, stopOnSigterm, Run).                  *)
THEOREM StopRemovesItsFile == Spec => []StopLeavesNoFile
<1>1. DInv => StopLeavesNoFile
  BY DEF DInv, TypeOK, PlacesAgree, FileAgrees, StopLeavesNoFile, Listens
<1> QED
  BY <1>1, DaemonInvariance, PTL

(* "h2c stop" succeeds only when the process it stopped is gone and has     *)
(* taken its file along, or a signal was faster (stop, sendCommand).        *)
THEOREM StopIsComplete == Spec => []StoppedMeansGone
<1>1. DInv => StoppedMeansGone
  BY ProcessesAssumption
  DEF DInv, TypeOK, PlacesAgree, FileAgrees, ConnectionsAgree, StoppedMeansGone
<1> QED
  BY <1>1, DaemonInvariance, PTL
================================================================================
