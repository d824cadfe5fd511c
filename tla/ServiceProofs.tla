--------------------------- MODULE ServiceProofs ---------------------------
(***************************************************************************)
(* Proofs about modules Agent and Service, for any number of pipe clients, *)
(* any commands and any fault: the lock rule, what the worker tells its    *)
(* waiters, what STOPPED means, that two crashes do not spoil one dump,    *)
(* and that the watchdog takes no waiting client for a hang.               *)
(***************************************************************************)
EXTENDS Service, TLAPS

\* How long, in seconds, the provers may take for a leaf.
USE SMTT(20), ZenonT(20)

\* Where a handler may be.
HandlerPlaces ==
    {"free", "status_state", "status_db", "status_read", "status_try", "status_conn",
     "register", "request", "wait", "hostname", "host_read", "db", "query", "dump", "done",
     "failed", "dumping", "parked"}

Dead == {"failed", "dumping", "parked"}

\* Who holds a mutex: a thread inside the section that the mutex is for, or one that
\* died there; the planted deadlock holds them longer.
LockInv ==
    /\ dbMu \in Threads \cup {NoOne} /\ stateMu \in Threads \cup {NoOne}
    /\ stateMu = Worker => wpc = "publish"
    /\ \A c \in Clients : stateMu = c => \/ hpc[c] \in {"status_read", "host_read"}
                                         \/ fault = "deadlock" /\ hpc[c] = "status_db"
    /\ dbMu = Worker => \/ wpc = "write" \/ wpc \in Dead
                        \/ fault = "deadlock" /\ wpc \in {"state", "publish"}
    /\ \A c \in Clients : dbMu = c => hpc[c] \in {"query", "status_conn"} \cup Dead

\* What runs in each phase of the process, and what the flags and the manager know.
PhaseInv ==
    /\ hpc \in [Clients -> HandlerPlaces]
    /\ phase \in {"none", "register", "start"} =>
          /\ wpc = "none" /\ \A c \in Clients : hpc[c] = "free"
          /\ victim = NoOne
    /\ phase \in {"stop_worker", "return", "exit"} => HandlersDone
    /\ phase \in {"return", "exit"} => wpc \in {"none", "gone"} /\ victim = NoOne
    /\ phase \in {"stop_server", "stop_worker"} \/ stopping \/ wpc = "gone" => gStop
    /\ gStop => ctl = "returned"
    /\ scm = "STOPPED" => phase \in {"none", "exit"}
    /\ phase # "none" => cause = "none"

\* One thread writes the crash dump, and there is no other before the process ends.
DumpInv ==
    /\ \A t \in Threads : At(t) = "dumping" => crashing
    /\ \A t, u \in Threads : At(t) = "dumping" /\ At(u) = "dumping" => t = u
    /\ phase # "none" => \A t \in Threads : dump[t] # "none" => At(t) = "dumping"
    /\ dump \in [Dumpers -> {"none", "writing"} \cup Outcomes]

\* A waiter is registered once, by a handler that is past registering, and freed only
\* when nobody has it any more.
WaiterInv ==
    /\ listeners \in Seq(Clients) /\ waiting \in Seq(Clients) /\ freed \subseteq Clients
    /\ \A i, j \in 1..Len(listeners) : listeners[i] = listeners[j] => i = j
    /\ \A i, j \in 1..Len(waiting) : waiting[i] = waiting[j] => i = j
    /\ \A i \in 1..Len(listeners), j \in 1..Len(waiting) : listeners[i] # waiting[j]
    /\ \A i \in 1..Len(listeners) : hpc[listeners[i]] \in {"request", "wait", "done"}
    /\ \A i \in 1..Len(waiting) : hpc[waiting[i]] \in {"request", "wait", "done"}
    /\ wpc \notin {"deliver"} \cup Dead => waiting = <<>>
    /\ \A c \in freed : hpc[c] = "done"
    /\ fault # "uaf" =>
          /\ \A i \in 1..Len(listeners) : listeners[i] \notin freed
          /\ \A i \in 1..Len(waiting) : waiting[i] \notin freed

\* The scan the worker tells of is the one status shows.
ResultInv ==
    /\ scans \in Nat /\ last \in Nat /\ r \in Nat /\ done \in [Clients -> Nat]
    /\ last <= scans
    /\ wpc \in {"db", "write", "state"} => r = scans + 1
    /\ wpc \in {"publish", "inventory", "swap", "deliver"} => r = last
    /\ \A c \in Clients : done[c] <= last

\* How old the scope of a handler can be, and whom the watchdog takes for hung.
AgeInv ==
    /\ age \in [Threads -> Int] /\ waitFor \in [Clients -> Int]
    /\ \A c \in Clients :
          /\ hpc[c] = "free" => age[c] = -1
          /\ hpc[c] \in {"register", "request"} => age[c] = 0
          /\ hpc[c] = "wait" => 0 <= age[c] /\ age[c] <= waitFor[c] /\ waitFor[c] <= WaitCap
          /\ hpc[c] = "status_db" => fault = "deadlock"
          /\ hpc[c] \in {"status_state", "status_read", "status_try", "status_conn"} =>
                age[c] = 0 \/ fault = "deadlock"
    /\ victim \in Clients => hpc[victim] \notin {"free", "register", "request", "wait"}

\* A thread that waits for nobody has a step to take: what ENABLED says of the steps
\* of a handler, and of a worker that holds state_mu.
PromptRuns ==
    \/ wpc = "publish"
    \/ \E c \in Clients :
          \/ hpc[c] \in {"register", "request", "status_read", "status_try", "status_conn",
                         "host_read"}
          \/ hpc[c] = "status_state" /\ stateMu = NoOne
          \/ hpc[c] = "wait" /\ (done[c] > 0 \/ age[c] >= waitFor[c])
    => ENABLED PromptStep

-----------------------------------------------------------------------------
(* The threads *)

\* The steps of a handler thread.
HandlerStep(c) ==
    \/ Handle(c) \/ StatusState(c) \/ StatusDb(c) \/ StatusRead(c) \/ StatusTry(c) \/ StatusConn(c)
    \/ Register(c) \/ RequestScan(c) \/ EndWait(c) \/ Hostname(c) \/ HostRead(c)
    \/ QueryLock(c) \/ Query(c) \/ DumpNow(c)

\* The steps of the scan worker.
WorkerStep ==
    \/ WorkerWake \/ WorkerExit \/ Collect \/ WorkerLockDb \/ WriteDb \/ UpdateState
    \/ StateUpdated \/ Inventory \/ Swap \/ Deliver \/ ScanDone

\* The steps of the thread that starts and stops the agent, of the service's
\* threads, of the watchdog, and of time.
ControlStep ==
    \/ /\ Start \/ StartFails \/ StopWorker \/ JoinWorker
          \/ (\E t \in Threads : Hang(t)) \/ Tick
       /\ UNCHANGED svcVars
    \/ ServiceMain \/ ReportRunning \/ BodyStops \/ ReportStopped
    \/ ScmStop \/ HandlerReports \/ HandlerSetsFlag

\* The end of the process.
Death == ExitProcess \/ HangExit \/ (\E t \in Threads : CrashExit(t))

\* A step is one thread's.
LEMMA StepOf ==
    ASSUME [Next]_vars
    PROVE  \/ \E c \in Clients : HandlerStep(c) /\ UNCHANGED svcVars
           \/ WorkerStep /\ UNCHANGED svcVars
           \/ ControlStep
           \/ \E t \in Threads : Fail(t) \/ CrashFilter(t)
           \/ Death
           \/ UNCHANGED vars
  BY DEF Next, AgentStep, PromptStep, SlowStep, ServiceStep, Resting, HandlerStep, WorkerStep,
         ControlStep, Death

\* The threads of the agent, and those that are none.
LEMMA ThreadsAre ==
    NoOne \notin Threads /\ Worker \notin Clients /\ Threads = Clients \cup {Worker}
  BY AgentAssumption DEF Threads

\* A handler at work moves on, and nothing else does.
LEMMA HandlerMoves ==
    ASSUME NEW c \in Clients, HandlerStep(c)
    PROVE  /\ \E p \in HandlerPlaces \ (Dead \cup {"free"}) : hpc' = [hpc EXCEPT ![c] = p]
           /\ hpc[c] \notin Dead \cup {"done"}
           /\ hpc[c] = "free" => phase = "running"
           /\ UNCHANGED <<fault, phase, wpc, scans, last, r, stopping, victim>>
<1>1. CASE Handle(c)
  <2>1. PICK cmd \in Commands[c] : \E s \in FirstSteps(cmd) : Goto(c, s)
    BY <1>1 DEF Handle
  <2>2. cmd \in {"ping", "status", "scan", "findings", "affected", "dump"}
    BY AgentAssumption
  <2>3. FirstSteps(cmd) \subseteq HandlerPlaces \ (Dead \cup {"free"})
    BY <2>2 DEF FirstSteps, HandlerPlaces, Dead
  <2>4. \E p \in HandlerPlaces \ (Dead \cup {"free"}) : hpc' = [hpc EXCEPT ![c] = p]
    BY <2>1, <2>3, Zenon DEF Goto
  <2> QED
    BY <1>1, <2>4, Zenon DEF Handle, Dead, stateVars, wakeVars
<1>2. CASE ~Handle(c)
  <2>1. \E p \in HandlerPlaces \ (Dead \cup {"free"}) : hpc' = [hpc EXCEPT ![c] = p]
    BY <1>2 DEF HandlerStep, StatusState, StatusDb, StatusRead, StatusTry, StatusConn,
       Register, RequestScan, EndWait, Hostname, HostRead, QueryLock, Query, DumpNow, Reply,
       Goto, HandlerPlaces, Dead
  <2>2. /\ hpc[c] \notin Dead \cup {"done", "free"}
        /\ UNCHANGED <<fault, phase, wpc, scans, last, r, stopping, victim>>
    BY <1>2 DEF HandlerStep, StatusState, StatusDb, StatusRead, StatusTry, StatusConn,
       Register, RequestScan, EndWait, Hostname, HostRead, QueryLock, Query, DumpNow, Dead,
       stateVars, wakeVars
  <2> QED
    BY <2>1, <2>2, Zenon
<1> QED
  BY <1>1, <1>2

\* The worker at work moves on, and nothing else does.
LEMMA WorkerMoves ==
    ASSUME WorkerStep
    PROVE  /\ wpc \notin Dead \cup {"none", "gone"}
           /\ wpc' \notin {"none", "dumping", "parked"} /\ (wpc' = "gone" => stopping)
           /\ UNCHANGED <<fault, phase, hpc, stopping, victim>>
  BY Zenon DEF WorkerStep, WorkerWake, WorkerExit, Collect, WorkerLockDb, WriteDb,
     UpdateState, StateUpdated, Inventory, Swap, Deliver, ScanDone, Dead, wakeVars

\* A thread fails only at work.
LEMMA Fails ==
    ASSUME NEW t \in Threads, Fail(t) \/ CrashFilter(t)
    PROVE  /\ At(t) \notin {"none", "free", "done", "gone", "wait", "dumping", "parked"}
           /\ \E p \in Dead :
                 IF t = Worker THEN wpc' = p /\ hpc' = hpc
                 ELSE wpc' = wpc /\ hpc' = [hpc EXCEPT ![t] = p]
           /\ UNCHANGED <<fault, phase, dbMu, stateMu, stateVars, waiterVars, stopping, victim,
                          scm, ctl, gStop, cause>>
  BY DEF Fail, CrashFilter, Move, Goto, Dead, lockVars, wakeVars, svcVars

\* The end of the process takes everything with it.
LEMMA DeathIs ==
    ASSUME Death
    PROVE  /\ phase' = "none" /\ wpc' = "none" /\ hpc' = [c \in Clients |-> "free"]
           /\ dbMu' = NoOne /\ stateMu' = NoOne /\ victim' = NoOne
           /\ gStop' = FALSE /\ stopping' = FALSE /\ crashing' = FALSE
           /\ scans' = 0 /\ last' = 0 /\ r' = 0 /\ done' = [c \in Clients |-> 0]
           /\ listeners' = <<>> /\ waiting' = <<>> /\ freed' = {}
  BY DEF Death, ExitProcess, HangExit, CrashExit, Die, Gone, Reset

-----------------------------------------------------------------------------
(* The phases *)

\* No step brings a thread to life in a phase in which it should be gone.
LEMMA PhaseKeeps == PhaseInv /\ [Next]_vars => PhaseInv'
<1> SUFFICES ASSUME PhaseInv, [Next]_vars PROVE PhaseInv'
  OBVIOUS
<1>1. ASSUME NEW c \in Clients, HandlerStep(c), UNCHANGED svcVars PROVE PhaseInv'
  <2>1. PICK p \in HandlerPlaces \ (Dead \cup {"free"}) : hpc' = [hpc EXCEPT ![c] = p]
    BY <1>1, HandlerMoves
  <2>2. /\ hpc[c] \notin Dead \cup {"done"} /\ (hpc[c] = "free" => phase = "running")
        /\ UNCHANGED <<phase, wpc, stopping, victim, gStop, ctl, scm, cause>>
    BY <1>1, HandlerMoves DEF svcVars
  <2>3. phase \notin {"none", "register", "start", "stop_worker", "return", "exit"}
    BY <2>2 DEF PhaseInv, HandlersDone
  <2> QED
    BY <2>1, <2>2, <2>3 DEF PhaseInv
<1>2. CASE WorkerStep /\ UNCHANGED svcVars
  BY <1>2, WorkerMoves DEF svcVars, PhaseInv, HandlersDone
<1>3. CASE ControlStep
  <2>1. CASE (Start \/ StartFails) /\ UNCHANGED svcVars
    <3>1. /\ phase = "start"
          /\ (phase' = "running" /\ wpc' = "wait") \/ (phase' = "return" /\ wpc' = wpc)
          /\ UNCHANGED <<hpc, stopping, victim, scm, ctl, gStop, cause>>
      BY <2>1, Zenon DEF Start, StartFails, svcVars, wakeVars
    <3> QED
      BY <3>1 DEF PhaseInv, HandlersDone
  <2>2. CASE (StopWorker \/ JoinWorker) /\ UNCHANGED svcVars
    BY <2>2 DEF StopWorker, JoinWorker, PhaseInv, HandlersDone, svcVars, wakeVars
  <2>3. ASSUME NEW t \in Threads, Hang(t), UNCHANGED svcVars PROVE PhaseInv'
    BY <2>3 DEF Hang, WatchdogOn, PhaseInv, HandlersDone, svcVars, wakeVars
  <2>4. CASE Tick /\ UNCHANGED svcVars
    <3>1. UNCHANGED <<phase, wpc, hpc, stopping, victim>>
      BY <2>4 DEF Tick, wakeVars
    <3> QED
      BY <2>4, <3>1 DEF PhaseInv, HandlersDone, svcVars
  <2>5. CASE ServiceMain \/ ReportRunning \/ BodyStops \/ ReportStopped
    BY <2>5 DEF ServiceMain, ReportRunning, BodyStops, ReportStopped, PhaseInv, HandlersDone,
       svcVars, wakeVars
  <2>6. CASE ScmStop \/ HandlerReports \/ HandlerSetsFlag
    BY <2>6 DEF ScmStop, HandlerReports, HandlerSetsFlag, PhaseInv, HandlersDone, agentVars,
       wakeVars
  <2> QED
    BY <1>3, <2>1, <2>2, <2>3, <2>4, <2>5, <2>6 DEF ControlStep
<1>4. ASSUME NEW t \in Threads, Fail(t) \/ CrashFilter(t) PROVE PhaseInv'
  <2>1. PICK p \in Dead : IF t = Worker THEN wpc' = p /\ hpc' = hpc
                          ELSE wpc' = wpc /\ hpc' = [hpc EXCEPT ![t] = p]
    BY <1>4, Fails
  <2>2. /\ At(t) \notin {"none", "free", "done", "gone"}
        /\ UNCHANGED <<phase, stopping, victim, scm, ctl, gStop, cause>>
    BY <1>4, Fails
  <2>3. CASE t = Worker
    BY <2>1, <2>2, <2>3 DEF At, PhaseInv, HandlersDone, Dead
  <2>4. CASE t \in Clients
    <3>1. phase \notin {"none", "register", "start", "stop_worker", "return", "exit"}
      BY <2>2, <2>4, ThreadsAre DEF At, PhaseInv, HandlersDone
    <3> QED
      BY <2>1, <2>2, <2>4, <3>1, ThreadsAre DEF PhaseInv, HandlerPlaces, Dead
  <2> QED
    BY <2>3, <2>4, ThreadsAre
<1>5. CASE Death
  BY <1>5, DeathIs DEF PhaseInv, HandlerPlaces
<1>6. CASE UNCHANGED vars
  BY <1>6 DEF vars, agentVars, wakeVars, svcVars, PhaseInv, HandlersDone
<1> QED
  BY <1>1, <1>2, <1>3, <1>4, <1>5, <1>6, StepOf

-----------------------------------------------------------------------------
(* The mutexes *)

\* Every step that takes a mutex goes where its holder belongs, and every step that
\* leaves that place gives it back, the planted deadlock apart.
LEMMA LockKeeps == PhaseInv /\ LockInv /\ [Next]_vars => LockInv'
<1> SUFFICES ASSUME PhaseInv, LockInv, [Next]_vars PROVE LockInv'
  OBVIOUS
<1>0. hpc \in [Clients -> HandlerPlaces]
  BY DEF PhaseInv
<1>1. ASSUME NEW c \in Clients, HandlerStep(c) PROVE LockInv'
  <2>1. CASE StatusState(c) \/ Hostname(c)
    BY <1>0, <2>1, ThreadsAre DEF StatusState, Hostname, Goto, LockInv, Dead
  <2>2. CASE QueryLock(c) \/ StatusTry(c)
    BY <1>0, <2>2, ThreadsAre DEF QueryLock, StatusTry, Reply, Goto, LockInv, Dead
  <2>3. CASE StatusRead(c) \/ HostRead(c) \/ StatusDb(c)
    <3>1. PICK p : hpc' = [hpc EXCEPT ![c] = p]
      BY <1>1, HandlerMoves, Zenon
    <3>2. /\ hpc[c] \in {"status_read", "host_read", "status_db"} /\ stateMu' = NoOne
          /\ UNCHANGED <<fault, wpc, dbMu>>
      BY <2>3, Zenon DEF StatusRead, HostRead, StatusDb
    <3>3. dbMu # c
      BY <3>2 DEF LockInv, Dead
    <3> QED
      BY <1>0, <3>1, <3>2, <3>3, ThreadsAre DEF LockInv
  <2>4. CASE Query(c) \/ StatusConn(c)
    <3>1. PICK p : hpc' = [hpc EXCEPT ![c] = p]
      BY <1>1, HandlerMoves, Zenon
    <3>2. /\ hpc[c] \in {"query", "status_conn"} /\ dbMu' = NoOne
          /\ UNCHANGED <<fault, wpc, stateMu>>
      BY <2>4, Zenon DEF Query, StatusConn
    <3>3. stateMu # c
      BY <3>2 DEF LockInv
    <3> QED
      BY <1>0, <3>1, <3>2, <3>3, ThreadsAre DEF LockInv
  <2>5. CASE Handle(c) \/ Register(c) \/ RequestScan(c) \/ EndWait(c) \/ DumpNow(c)
    <3>1. PICK p \in HandlerPlaces : hpc' = [hpc EXCEPT ![c] = p]
      BY <1>1, HandlerMoves
    <3>2. /\ hpc[c] \in {"free", "register", "request", "wait", "dump"}
          /\ UNCHANGED <<fault, wpc, dbMu, stateMu>>
      BY <2>5, Zenon DEF Handle, Register, RequestScan, EndWait, DumpNow, lockVars
    <3>3. dbMu # c /\ stateMu # c
      BY <3>2 DEF LockInv, Dead
    <3> QED
      BY <1>0, <3>1, <3>2, <3>3 DEF LockInv
  <2> QED
    BY <1>1, <2>1, <2>2, <2>3, <2>4, <2>5 DEF HandlerStep
<1>2. CASE WorkerStep
  <2>1. CASE WorkerLockDb \/ WriteDb
    BY <2>1, ThreadsAre, Zenon DEF WorkerLockDb, WriteDb, LockInv
  <2>2. CASE UpdateState \/ StateUpdated
    BY <2>2, ThreadsAre DEF UpdateState, StateUpdated, LockInv, Dead
  <2>3. CASE ~(WorkerLockDb \/ WriteDb \/ UpdateState \/ StateUpdated)
    <3>1. /\ wpc \in {"wait", "collect", "inventory", "swap", "deliver"}
          /\ UNCHANGED <<fault, hpc, dbMu, stateMu>>
      BY <1>2, <2>3 DEF WorkerStep, WorkerWake, WorkerExit, Collect, Inventory, Swap, Deliver,
         ScanDone, lockVars
    <3> QED
      BY <3>1 DEF LockInv, Dead
  <2> QED
    BY <2>1, <2>2, <2>3
<1>3. CASE ControlStep
  <2>1. /\ UNCHANGED <<fault, hpc, dbMu, stateMu>>
        /\ wpc' = wpc \/ phase = "start"
    BY <1>3, Zenon DEF ControlStep, Start, StartFails, BodyStops, StopWorker, JoinWorker,
       ServiceMain, ReportRunning, ReportStopped, ScmStop, HandlerReports, HandlerSetsFlag,
       Hang, Tick, agentVars, lockVars
  <2> QED
    BY <2>1 DEF LockInv, PhaseInv, Dead
<1>4. ASSUME NEW t \in Threads, Fail(t) \/ CrashFilter(t) PROVE LockInv'
  <2>1. PICK p \in Dead : IF t = Worker THEN wpc' = p /\ hpc' = hpc
                          ELSE wpc' = wpc /\ hpc' = [hpc EXCEPT ![t] = p]
    BY <1>4, Fails
  <2>2. /\ UNCHANGED <<fault, dbMu, stateMu>>
        /\ At(t) \in {"collect", "write", "inventory", "query", "dump", "failed"}
    BY <1>4 DEF Fail, CrashFilter, lockVars
  <2>3. CASE t = Worker
    BY <2>1, <2>2, <2>3 DEF At, LockInv
  <2>4. CASE t \in Clients
    BY <1>0, <2>1, <2>2, <2>4, ThreadsAre DEF At, LockInv
  <2> QED
    BY <2>3, <2>4, ThreadsAre
<1>5. CASE Death
  BY <1>5, DeathIs, ThreadsAre DEF LockInv
<1>6. CASE UNCHANGED vars
  BY <1>6 DEF vars, agentVars, lockVars, LockInv
<1> QED
  BY <1>1, <1>2, <1>3, <1>4, <1>5, <1>6, StepOf

\* The phases and the mutexes are as they should be in every state.
THEOREM LockInvariance == Spec => [](PhaseInv /\ LockInv)
<1>1. Init => PhaseInv /\ LockInv
  BY ThreadsAre DEF Init, AgentInit, Fresh, PhaseInv, LockInv, HandlerPlaces
<1> QED
  BY <1>1, PhaseKeeps, LockKeeps, PTL DEF Spec

\* The lock rule at agent.cpp:238 is kept by every handler and the worker, with any
\* number of clients, and also when a thread dies with a lock held.
THEOREM LockRule == Spec => []NeverBoth
<1>1. PhaseInv /\ LockInv => NeverBoth
  BY ThreadsAre DEF LockInv, NeverBoth, At, Dead
<1> QED
  BY <1>1, LockInvariance, PTL

\* When the manager is told STOPPED, no thread of the agent is left and nothing is
\* locked.
THEOREM StoppedTrue == Spec => []StoppedIsTrue
<1>1. PhaseInv /\ LockInv => StoppedIsTrue
  BY ThreadsAre DEF PhaseInv, LockInv, StoppedIsTrue, HandlersDone, Dead
<1> QED
  BY <1>1, LockInvariance, PTL

\* Once a service that had started has reported STOPPED, its control handler has
\* returned, and nothing it does can be reported over it.
THEOREM StoppedLast == Spec => StoppedIsLast
<1>1. PhaseInv /\ [Next]_vars => [(scm = "STOPPED" /\ wpc = "gone") => scm' = "STOPPED"]_vars
  <2> SUFFICES ASSUME PhaseInv, [Next]_vars, scm = "STOPPED", wpc = "gone"
               PROVE  scm' = "STOPPED"
    OBVIOUS
  <2>1. /\ phase = "exit" /\ ctl = "returned" /\ HandlersDone /\ victim = NoOne
    BY DEF PhaseInv
  <2>2. \A t \in Threads : At(t) \in {"free", "done", "gone"}
    BY <2>1, ThreadsAre DEF At, HandlersDone
  <2>3. CASE ControlStep
    BY <2>1, <2>3 DEF ControlStep, BodyStops, ServiceMain, ReportRunning, ReportStopped,
       ScmStop, HandlerReports, HandlerSetsFlag, svcVars
  <2>4. CASE \E t \in Threads : Fail(t) \/ CrashFilter(t)
    BY <2>4, Fails
  <2>5. CASE Death
    BY <2>1, <2>2, <2>5 DEF Death, ExitProcess, HangExit, CrashExit
  <2> QED
    BY <2>3, <2>4, <2>5, StepOf DEF svcVars, vars
<1> QED
  BY <1>1, LockInvariance, PTL DEF Spec, StoppedIsLast

-----------------------------------------------------------------------------
(* The crash dump *)

\* The first thread to fail takes g_crashing; every later one is parked.
LEMMA DumpKeeps == PhaseInv /\ DumpInv /\ [Next]_vars => DumpInv'
<1> SUFFICES ASSUME PhaseInv, DumpInv, [Next]_vars PROVE DumpInv'
  OBVIOUS
<1>0. /\ hpc \in [Clients -> HandlerPlaces] /\ Worker \notin Clients
      /\ Threads = Clients \cup {Worker} /\ Watchdog \notin Threads
  BY ThreadsAre, WatchdogAssumption DEF PhaseInv
<1>1. ASSUME NEW c \in Clients, HandlerStep(c), UNCHANGED svcVars PROVE DumpInv'
  <2>1. PICK p \in HandlerPlaces \ (Dead \cup {"free"}) : hpc' = [hpc EXCEPT ![c] = p]
    BY <1>1, HandlerMoves
  <2>2. hpc[c] \notin Dead /\ UNCHANGED <<phase, wpc, crashing, dump, cause>>
    BY <1>1, HandlerMoves DEF svcVars
  <2>3. \A t \in Threads : At(t)' = "dumping" <=> At(t) = "dumping"
    BY <1>0, <2>1, <2>2 DEF At, Dead
  <2> QED
    BY <2>2, <2>3 DEF DumpInv
<1>2. CASE WorkerStep /\ UNCHANGED svcVars
  <2>1. /\ wpc # "dumping" /\ wpc' # "dumping"
        /\ UNCHANGED <<phase, hpc, crashing, dump, cause>>
    BY <1>2, WorkerMoves DEF svcVars, Dead
  <2>2. \A t \in Threads : At(t)' = "dumping" <=> At(t) = "dumping"
    BY <1>0, <2>1 DEF At
  <2> QED
    BY <2>1, <2>2 DEF DumpInv
<1>3. CASE ControlStep
  <2>1. CASE ServiceMain
    <3>1. /\ phase = "none" /\ UNCHANGED <<wpc, hpc, crashing>> /\ dump' = NoDumps
      BY <2>1 DEF ServiceMain
    <3>2. \A t \in Threads : At(t)' = At(t)
      BY <3>1 DEF At
    <3> QED
      BY <1>0, <3>1, <3>2 DEF DumpInv, NoDumps, Dumpers
  <2>2. CASE ~ServiceMain
    <3>1. /\ phase # "none" \/ phase' = phase
          /\ UNCHANGED <<hpc, crashing, dump>>
          /\ wpc' = wpc \/ (phase = "start" /\ wpc' = "wait")
      BY <1>3, <2>2, Zenon DEF ControlStep, Start, StartFails, BodyStops, StopWorker,
         JoinWorker, ReportRunning, ReportStopped, ScmStop, HandlerReports, HandlerSetsFlag,
         Hang, Tick, agentVars, svcVars
    <3>2. \A t \in Threads : At(t)' = "dumping" <=> At(t) = "dumping"
      BY <1>0, <3>1 DEF At, PhaseInv
    <3> QED
      BY <3>1, <3>2, Zenon DEF DumpInv
  <2> QED
    BY <2>1, <2>2
<1>4. ASSUME NEW t \in Threads, Fail(t) PROVE DumpInv'
  <2>1. At(t) # "dumping" /\ Move(t, "failed") /\ UNCHANGED <<phase, crashing, dump>>
    BY <1>4 DEF Fail, svcVars
  <2>2. \A u \in Threads : At(u)' = "dumping" <=> At(u) = "dumping"
    BY <1>0, <2>1 DEF At, Move, Goto
  <2> QED
    BY <2>1, <2>2 DEF DumpInv
<1>5. ASSUME NEW t \in Threads, CrashFilter(t) PROVE DumpInv'
  <2>1. At(t) = "failed" /\ phase' = phase
    BY <1>5 DEF CrashFilter
  <2>2. CASE crashing
    <3>1. Move(t, "parked") /\ UNCHANGED <<crashing, dump>>
      BY <1>5, <2>2 DEF CrashFilter
    <3>2. \A u \in Threads : At(u)' = "dumping" <=> At(u) = "dumping"
      BY <1>0, <2>1, <3>1 DEF At, Move, Goto
    <3> QED
      BY <2>1, <3>1, <3>2 DEF DumpInv
  <2>3. CASE ~crashing
    <3>1. Move(t, "dumping") /\ crashing' = TRUE /\ dump' = [dump EXCEPT ![t] = "writing"]
      BY <1>5, <2>3 DEF CrashFilter
    <3>2. \A u \in Threads : At(u) # "dumping"
      BY <2>3 DEF DumpInv
    <3>3. At(t)' = "dumping" /\ \A u \in Threads : u # t => At(u)' = At(u)
      BY <1>0, <3>1 DEF At, Move, Goto
    <3>4. /\ dump' \in [Dumpers -> {"none", "writing"} \cup Outcomes]
          /\ \A u \in Threads : u # t => dump'[u] = dump[u]
      BY <3>1 DEF DumpInv, Dumpers
    <3> QED
      BY <2>1, <3>1, <3>2, <3>3, <3>4 DEF DumpInv
  <2> QED
    BY <2>2, <2>3
<1>6. CASE Death
  <2>1. \A t \in Threads : At(t)' # "dumping"
    BY <1>0, <1>6, DeathIs DEF At
  <2>2. dump' \in [Dumpers -> {"none", "writing"} \cup Outcomes]
    BY <1>6 DEF Death, ExitProcess, HangExit, CrashExit, DumpInv, Outcomes
  <2>3. phase' = "none"
    BY <1>6, DeathIs
  <2> QED
    BY <2>1, <2>2, <2>3 DEF DumpInv
<1>7. CASE UNCHANGED vars
  <2>1. UNCHANGED <<phase, wpc, hpc, crashing, dump>>
    BY <1>7 DEF vars, agentVars, svcVars
  <2>2. \A t \in Threads : At(t)' = At(t)
    BY <2>1 DEF At
  <2> QED
    BY <2>1, <2>2 DEF DumpInv
<1> QED
  BY <1>1, <1>2, <1>3, <1>4, <1>5, <1>6, <1>7, StepOf

\* The process ends in a crash when the one thread that writes is done.
LEMMA CrashDumpKeeps ==
    ASSUME PhaseInv, DumpInv, DumpInv', CrashDumpWhole, [Next]_vars
    PROVE  CrashDumpWhole'
<1>0. Watchdog \notin Threads
  BY WatchdogAssumption
<1>1. CASE \E t \in Threads : CrashExit(t)
  <2>1. PICK t \in Threads : CrashExit(t)
    BY <1>1
  <2>2. At(t) = "dumping"
    BY <2>1, Zenon DEF CrashExit
  <2>3. PICK left \in Outcomes : dump' = [dump EXCEPT ![t] = left]
    BY <2>1, Zenon DEF CrashExit
  <2>4. phase # "none"
    BY <2>2, ThreadsAre DEF PhaseInv, At
  <2>5. dump'[t] = left /\ \A u \in Threads : u # t => dump'[u] = "none"
    <3>1. \A u \in Threads : u # t => dump[u] = "none"
      BY <2>2, <2>4, Zenon DEF DumpInv
    <3> QED
      BY <2>3, <3>1 DEF DumpInv, Dumpers
  <2> QED
    BY <2>5, Zenon DEF CrashDumpWhole
<1>2. CASE ~\E t \in Threads : CrashExit(t)
  <2>1. \/ cause' # "crash"
        \/ UNCHANGED <<cause, dump>>
        \/ cause' = cause /\ phase # "none"
    <3>1. CASE Death
      BY <1>2, <3>1 DEF Death, ExitProcess, HangExit, Die, Gone
    <3>2. CASE ControlStep
      BY <3>2 DEF ControlStep, BodyStops, ServiceMain, ReportRunning, ReportStopped, ScmStop,
       HandlerReports, HandlerSetsFlag, svcVars
    <3>3. ASSUME NEW t \in Threads, Fail(t) \/ CrashFilter(t)
          PROVE  cause' = cause /\ phase # "none"
      BY <3>3, Fails, ThreadsAre DEF PhaseInv, At
    <3> QED
      BY <3>1, <3>2, <3>3, StepOf DEF svcVars, vars
  <2>2. phase' # "none" \/ \A t \in Threads : dump'[t] = dump[t]
    <3>1. CASE Death
      BY <1>0, <1>2, <3>1 DEF Death, ExitProcess, HangExit, DumpInv, Dumpers
    <3>2. CASE ControlStep
      BY <3>2 DEF ControlStep, BodyStops, ServiceMain, ReportRunning, ReportStopped, ScmStop,
       HandlerReports, HandlerSetsFlag, svcVars
    <3>3. ASSUME NEW t \in Threads, Fail(t) \/ CrashFilter(t)
          PROVE  phase' # "none"
      BY <3>3, Fails, ThreadsAre DEF PhaseInv, At
    <3> QED
      BY <3>1, <3>2, <3>3, StepOf DEF svcVars, vars
  <2>3. \A t, u \in Threads : dump'[t] # "none" /\ dump'[u] # "none" => t = u
    <3>1. CASE phase' # "none"
      BY <3>1, Zenon DEF DumpInv
    <3>2. CASE \A t \in Threads : dump'[t] = dump[t]
      BY <3>2, Zenon DEF CrashDumpWhole
    <3> QED
      BY <2>2, <3>1, <3>2
  <2>4. cause' = "crash" => \E t \in Threads : dump'[t] \in Outcomes
    BY <2>1, Zenon DEF CrashDumpWhole, PhaseInv
  <2> QED
    BY <2>3, <2>4, Zenon DEF CrashDumpWhole
<1> QED
  BY <1>1, <1>2

\* However many threads fail, one writes the crash dump, and its end is the end of the
\* process.
THEOREM CrashDumpsWhole == Spec => []CrashDumpWhole
<1>1. Init => DumpInv /\ CrashDumpWhole
  BY ThreadsAre DEF Init, AgentInit, Fresh, NoDumps, Dumpers, DumpInv, CrashDumpWhole, At
<1>2. PhaseInv /\ DumpInv /\ DumpInv' /\ CrashDumpWhole /\ [Next]_vars => CrashDumpWhole'
  BY CrashDumpKeeps
<1> QED
  BY <1>1, <1>2, DumpKeeps, LockInvariance, PTL DEF Spec

-----------------------------------------------------------------------------
(* The waiters *)

\* The worker tells of a scan only after update_state has published it.
LEMMA ResultKeeps == PhaseInv /\ ResultInv /\ [Next]_vars => ResultInv'
<1> SUFFICES ASSUME PhaseInv, ResultInv, [Next]_vars PROVE ResultInv'
  OBVIOUS
<1>1. ASSUME NEW c \in Clients, HandlerStep(c) PROVE ResultInv'
  <2>1. UNCHANGED <<wpc, scans, last, r>>
    BY <1>1, HandlerMoves, Zenon
  <2>2. done' = done \/ done' = [done EXCEPT ![c] = 0]
    BY <1>1, Zenon DEF HandlerStep, Handle, StatusState, StatusDb, StatusRead, StatusTry,
       StatusConn, Register, RequestScan, EndWait, Hostname, HostRead, QueryLock, Query,
       DumpNow, waiterVars
  <2> QED
    BY <2>1, <2>2 DEF ResultInv
<1>2. CASE WorkerStep
  <2>1. CASE Collect
    BY <2>1 DEF Collect, ResultInv, waiterVars
  <2>2. CASE UpdateState
    BY <2>2 DEF UpdateState, ResultInv, waiterVars
  <2>3. CASE Deliver
    <3>1. /\ UNCHANGED <<scans, last, r>> /\ wpc = "deliver" /\ wpc' \in {"deliver", "failed"}
          /\ done' = done \/ done' = [done EXCEPT ![Head(waiting)] = r]
      BY <2>3 DEF Deliver, stateVars
    <3> QED
      BY <3>1 DEF ResultInv
  <2>4. CASE WorkerLockDb \/ WriteDb \/ StateUpdated \/ Inventory \/ Swap
    BY <2>4, Zenon DEF WorkerLockDb, WriteDb, StateUpdated, Inventory, Swap, ResultInv,
       waiterVars, stateVars
  <2>5. CASE WorkerWake \/ WorkerExit \/ ScanDone
    BY <2>5 DEF WorkerWake, WorkerExit, ScanDone, ResultInv, waiterVars, stateVars
  <2> QED
    BY <1>2, <2>1, <2>2, <2>3, <2>4, <2>5 DEF WorkerStep
<1>3. CASE ControlStep
  <2>1. UNCHANGED <<scans, last, r, done>> /\ (wpc' = wpc \/ wpc' = "wait")
    BY <1>3, Zenon DEF ControlStep, Start, StartFails, BodyStops, StopWorker, JoinWorker,
       ServiceMain, ReportRunning, ReportStopped, ScmStop, HandlerReports, HandlerSetsFlag,
       Hang, Tick, agentVars, stateVars, waiterVars
  <2> QED
    BY <2>1 DEF ResultInv
<1>4. ASSUME NEW t \in Threads, Fail(t) \/ CrashFilter(t) PROVE ResultInv'
  <2>1. UNCHANGED <<scans, last, r, done>> /\ (wpc' = wpc \/ wpc' \in Dead)
    BY <1>4, Fails DEF stateVars, waiterVars
  <2> QED
    BY <2>1 DEF ResultInv, Dead
<1>5. CASE Death
  BY <1>5, DeathIs DEF ResultInv
<1>6. CASE UNCHANGED vars
  BY <1>6 DEF vars, agentVars, stateVars, waiterVars, ResultInv
<1> QED
  BY <1>1, <1>2, <1>3, <1>4, <1>5, <1>6, StepOf

\* Steps that leave the waiters alone and take no registered handler back.
LEMMA WaitersStay ==
    ASSUME WaiterInv, UNCHANGED <<fault, listeners, waiting, freed>>,
           wpc' \notin {"deliver"} \cup Dead => waiting = <<>>,
           \A c \in Clients : hpc[c] \in {"request", "wait", "done"} =>
              hpc'[c] \in {"request", "wait", "done"} /\ (hpc[c] = "done" => hpc'[c] = "done")
    PROVE  WaiterInv'
<1>1. /\ \A i \in 1..Len(listeners) : listeners[i] \in Clients
      /\ \A i \in 1..Len(waiting) : waiting[i] \in Clients
  BY DEF WaiterInv
<1> QED
  BY <1>1 DEF WaiterInv

\* A handler registers its waiter once.
LEMMA RegisterKeeps ==
    ASSUME PhaseInv, WaiterInv, NEW c \in Clients, Register(c)
    PROVE  WaiterInv'
<1>1. /\ hpc[c] = "register" /\ hpc' = [hpc EXCEPT ![c] = "request"]
      /\ listeners' = Append(listeners, c)
      /\ UNCHANGED <<fault, wpc, waiting, freed>>
  BY DEF Register, Goto
<1>2. /\ listeners \in Seq(Clients) /\ waiting \in Seq(Clients) /\ Len(listeners) \in Nat
      /\ hpc \in [Clients -> HandlerPlaces] /\ freed \subseteq Clients
  BY DEF WaiterInv, PhaseInv
<1>3. /\ \A i \in 1..Len(listeners) : listeners[i] \in Clients /\ listeners[i] # c
      /\ \A i \in 1..Len(waiting) : waiting[i] \in Clients /\ waiting[i] # c
      /\ c \notin freed
  <2>1. /\ \A i \in 1..Len(listeners) : hpc[listeners[i]] # hpc[c]
        /\ \A i \in 1..Len(waiting) : hpc[waiting[i]] # hpc[c]
        /\ \A d \in freed : hpc[d] # hpc[c]
    BY <1>1, Zenon DEF WaiterInv
  <2>2. /\ \A i \in 1..Len(listeners) : listeners[i] \in Clients
        /\ \A i \in 1..Len(waiting) : waiting[i] \in Clients
    BY <1>2
  <2> QED
    BY <2>1, <2>2
<1>4. /\ listeners' \in Seq(Clients) /\ Len(listeners') = Len(listeners) + 1
      /\ listeners'[Len(listeners) + 1] = c
      /\ \A i \in 1..Len(listeners) : listeners'[i] = listeners[i]
  BY <1>1, <1>2
<1>5. \A i \in 1..Len(listeners') : i \in 1..Len(listeners) \/ i = Len(listeners) + 1
  BY <1>2, <1>4
<1>6. hpc'[c] = "request" /\ \A d \in Clients : d # c => hpc'[d] = hpc[d]
  BY <1>1, <1>2
<1>7. \A i, j \in 1..Len(listeners') : listeners'[i] = listeners'[j] => i = j
  BY <1>3, <1>4, <1>5 DEF WaiterInv
<1>8. \A i \in 1..Len(listeners'), j \in 1..Len(waiting) : listeners'[i] # waiting[j]
  BY <1>3, <1>4, <1>5 DEF WaiterInv
<1>9. \A i \in 1..Len(listeners') : hpc'[listeners'[i]] \in {"request", "wait", "done"}
  BY <1>3, <1>4, <1>5, <1>6 DEF WaiterInv
<1>10. \A i \in 1..Len(waiting) : hpc'[waiting[i]] \in {"request", "wait", "done"}
  BY <1>3, <1>6 DEF WaiterInv
<1>11. \A d \in freed : hpc'[d] = "done"
  BY <1>2, <1>3, <1>6 DEF WaiterInv
<1>12. fault # "uaf" => \A i \in 1..Len(listeners') : listeners'[i] \notin freed
  BY <1>3, <1>4, <1>5, ZenonT(30) DEF WaiterInv
<1> QED
  BY <1>1, <1>4, <1>7, <1>8, <1>9, <1>10, <1>11, <1>12 DEF WaiterInv

\* A handler that gives up frees its waiter only when the worker does not have it.
LEMMA EndWaitKeeps ==
    ASSUME PhaseInv, WaiterInv, NEW c \in Clients, EndWait(c)
    PROVE  WaiterInv'
<1>1. /\ hpc[c] = "wait" /\ hpc' = [hpc EXCEPT ![c] = "done"]
      /\ freed' = IF fault = "uaf" \/ ~Registered(c) THEN freed \cup {c} ELSE freed
      /\ UNCHANGED <<fault, wpc, listeners, waiting>>
  BY DEF EndWait, Reply, Goto
<1>2. /\ hpc \in [Clients -> HandlerPlaces] /\ freed \subseteq Clients
      /\ \A i \in 1..Len(listeners) : listeners[i] \in Clients
      /\ \A i \in 1..Len(waiting) : waiting[i] \in Clients
  BY DEF PhaseInv, WaiterInv
<1>3. hpc'[c] = "done" /\ \A d \in Clients : d # c => hpc'[d] = hpc[d]
  BY <1>1, <1>2, Zenon
<1>4. /\ freed' \subseteq Clients /\ \A d \in freed' : d = c \/ d \in freed
      /\ fault # "uaf" =>
            \A d \in freed' : d \in freed \/ ~Registered(d)
  BY <1>1, <1>2
<1>5. fault # "uaf" => /\ \A i \in 1..Len(listeners) : listeners[i] \notin freed'
                       /\ \A i \in 1..Len(waiting) : waiting[i] \notin freed'
  BY <1>4, Zenon DEF WaiterInv, Registered
<1>6. \A d \in freed' : hpc'[d] = "done"
  BY <1>2, <1>3, <1>4, Zenon DEF WaiterInv
<1>7. /\ \A i \in 1..Len(listeners) : hpc'[listeners[i]] \in {"request", "wait", "done"}
      /\ \A i \in 1..Len(waiting) : hpc'[waiting[i]] \in {"request", "wait", "done"}
  BY <1>2, <1>3, Zenon DEF WaiterInv
<1> QED
  BY <1>1, <1>4, <1>5, <1>6, <1>7 DEF WaiterInv

\* The worker takes all the waiters out at once.
LEMMA SwapKeeps ==
    ASSUME WaiterInv, Swap
    PROVE  WaiterInv'
<1>1. /\ waiting' = listeners /\ listeners' = <<>> /\ wpc' = "deliver"
      /\ UNCHANGED <<fault, hpc, freed>>
  BY DEF Swap
<1>2. listeners' \in Seq(Clients) /\ Len(listeners') = 0
  BY <1>1
<1>3. \A i \in 1..Len(listeners') : FALSE
  BY <1>2
<1> QED
  BY <1>1, <1>2, <1>3 DEF WaiterInv

\* The worker notifies a waiter and lets go of it.
LEMMA DeliverKeeps ==
    ASSUME PhaseInv, WaiterInv, Deliver
    PROVE  WaiterInv'
<1> DEFINE c == Head(waiting)
<1>1. waiting \in Seq(Clients) /\ waiting # <<>> /\ Len(waiting) \in Nat
  BY DEF Deliver, WaiterInv
<1>2. Len(waiting) >= 1 /\ c = waiting[1] /\ c \in Clients
  BY <1>1
<1> HIDE DEF c
<1>3. CASE /\ freed' = IF hpc[c] = "done" THEN freed \cup {c} ELSE freed
           /\ waiting' = Tail(waiting) /\ UNCHANGED <<wpc, fault, hpc, listeners>>
  <2>1. /\ waiting' \in Seq(Clients) /\ Len(waiting') = Len(waiting) - 1
        /\ \A i \in 1..Len(waiting') : waiting'[i] = waiting[i + 1] /\ i + 1 \in 2..Len(waiting)
    BY <1>1, <1>2, <1>3
  <2>2. 1 \in 1..Len(waiting) /\ \A i \in 2..Len(waiting) : i \in 1..Len(waiting) /\ i # 1
    BY <1>1, <1>2
  <2>3. \A i \in 1..Len(waiting') : waiting'[i] # c
    BY <1>2, <2>1, <2>2 DEF WaiterInv
  <2>4. \A i \in 1..Len(listeners) : listeners[i] # c
    BY <1>2, <2>2 DEF WaiterInv
  <2>5. \A i, j \in 1..Len(waiting') : waiting'[i] = waiting'[j] => i = j
    <3> SUFFICES ASSUME NEW i \in 1..Len(waiting'), NEW j \in 1..Len(waiting'),
                        waiting'[i] = waiting'[j]
                 PROVE  i = j
      OBVIOUS
    <3>1. i + 1 = j + 1
      BY <2>1, <2>2 DEF WaiterInv
    <3> QED
      BY <3>1, <1>1, <2>1
  <2>6. \A i \in 1..Len(listeners), j \in 1..Len(waiting') : listeners[i] # waiting'[j]
    <3>1. \A i \in 1..Len(listeners), k \in 1..Len(waiting) : listeners[i] # waiting[k]
      BY DEF WaiterInv
    <3>2. \A j \in 1..Len(waiting') : \E k \in 1..Len(waiting) : waiting'[j] = waiting[k]
      BY <2>1, <2>2
    <3> QED
      BY <3>1, <3>2
  <2>7. \A i \in 1..Len(waiting') : hpc[waiting'[i]] \in {"request", "wait", "done"}
    BY <2>1, <2>2 DEF WaiterInv
  <2>8. freed' \subseteq Clients /\ \A d \in freed' : hpc[d] = "done"
    BY <1>2, <1>3 DEF WaiterInv
  <2>9. fault # "uaf" => /\ \A i \in 1..Len(listeners) : listeners[i] \notin freed'
                         /\ \A i \in 1..Len(waiting') : waiting'[i] \notin freed'
    BY <1>3, <2>1, <2>2, <2>3, <2>4 DEF WaiterInv
  <2>10. wpc = "deliver"
    BY DEF Deliver
  <2> QED
    BY <1>3, <2>1, <2>5, <2>6, <2>7, <2>8, <2>9, <2>10 DEF WaiterInv
<1>4. CASE wpc' = "failed" /\ UNCHANGED <<waiting, freed, fault, hpc, listeners>>
  BY <1>4, WaitersStay DEF Dead
<1> QED
  BY <1>3, <1>4 DEF Deliver, c

\* No step of any thread loses, doubles or frees a registered waiter.
LEMMA WaiterKeeps == PhaseInv /\ WaiterInv /\ [Next]_vars => WaiterInv'
<1> SUFFICES ASSUME PhaseInv, WaiterInv, [Next]_vars PROVE WaiterInv'
  OBVIOUS
<1>0. hpc \in [Clients -> HandlerPlaces] /\ (wpc \notin {"deliver"} \cup Dead => waiting = <<>>)
  BY DEF PhaseInv, WaiterInv
<1>1. ASSUME NEW c \in Clients, HandlerStep(c) PROVE WaiterInv'
  <2>1. CASE Register(c) \/ EndWait(c)
    BY <2>1, RegisterKeeps, EndWaitKeeps
  <2>2. CASE ~(Register(c) \/ EndWait(c))
    <3>1. PICK p : hpc' = [hpc EXCEPT ![c] = p]
      BY <1>1, HandlerMoves, Zenon
    <3>2. /\ hpc[c] \notin {"wait", "done"} /\ UNCHANGED <<fault, wpc, listeners, waiting, freed>>
          /\ hpc[c] = "request" => hpc' = [hpc EXCEPT ![c] = "wait"]
      BY <1>1, <2>2, Zenon DEF HandlerStep, Handle, StatusState, StatusDb, StatusRead,
         StatusTry, StatusConn, RequestScan, Hostname, HostRead, QueryLock, Query, DumpNow,
         waiterVars, Goto
    <3>3. \A d \in Clients : hpc[d] \in {"request", "wait", "done"} =>
             hpc'[d] \in {"request", "wait", "done"} /\ (hpc[d] = "done" => hpc'[d] = "done")
      BY <1>0, <3>1, <3>2
    <3> QED
      BY <1>0, <3>2, <3>3, WaitersStay
  <2> QED
    BY <2>1, <2>2
<1>2. CASE WorkerStep
  <2>1. CASE Swap \/ Deliver
    BY <2>1, SwapKeeps, DeliverKeeps
  <2>2. CASE ~(Swap \/ Deliver)
    <3>1. /\ UNCHANGED <<fault, hpc, listeners, waiting, freed>>
          /\ wpc # "deliver" \/ waiting = <<>>
      BY <1>2, <2>2, Zenon DEF WorkerStep, WorkerWake, WorkerExit, Collect, WorkerLockDb,
         WriteDb, UpdateState, StateUpdated, Inventory, ScanDone, waiterVars
    <3>2. wpc \notin Dead
      BY <1>2, WorkerMoves
    <3>3. waiting = <<>>
      BY <1>0, <3>1, <3>2
    <3> QED
      BY <3>1, <3>3, WaitersStay, Zenon
  <2> QED
    BY <2>1, <2>2
<1>3. CASE ControlStep
  <2>1. UNCHANGED <<fault, hpc, listeners, waiting, freed>> /\ (wpc' = wpc \/ phase = "start")
    BY <1>3, Zenon DEF ControlStep, Start, StartFails, BodyStops, StopWorker, JoinWorker,
       ServiceMain, ReportRunning, ReportStopped, ScmStop, HandlerReports, HandlerSetsFlag,
       Hang, Tick, agentVars, waiterVars
  <2>2. wpc' \notin {"deliver"} \cup Dead => waiting = <<>>
    BY <1>0, <2>1 DEF PhaseInv, Dead
  <2> QED
    BY <2>1, <2>2, WaitersStay
<1>4. ASSUME NEW t \in Threads, Fail(t) \/ CrashFilter(t) PROVE WaiterInv'
  <2>1. PICK p \in Dead : IF t = Worker THEN wpc' = p /\ hpc' = hpc
                          ELSE wpc' = wpc /\ hpc' = [hpc EXCEPT ![t] = p]
    BY <1>4, Fails
  <2>2. /\ UNCHANGED <<fault, listeners, waiting, freed>>
        /\ At(t) \in {"collect", "write", "inventory", "query", "dump", "failed"}
    BY <1>4 DEF Fail, CrashFilter, waiterVars
  <2>3. \A d \in Clients : hpc[d] \in {"request", "wait", "done"} =>
             hpc'[d] \in {"request", "wait", "done"} /\ (hpc[d] = "done" => hpc'[d] = "done")
    BY <1>0, <2>1, <2>2, ThreadsAre DEF At
  <2>4. wpc' \notin {"deliver"} \cup Dead => waiting = <<>>
    BY <1>0, <2>1, Zenon
  <2> QED
    BY <2>2, <2>3, <2>4, WaitersStay
<1>5. CASE Death
  <2>1. listeners' = <<>> /\ waiting' = <<>> /\ freed' = {}
    BY <1>5, DeathIs
  <2>2. /\ <<>> \in Seq(Clients) /\ \A i \in 1..Len(<<>>) : FALSE
    OBVIOUS
  <2> QED
    BY <2>1, <2>2, Zenon DEF WaiterInv
<1>6. CASE UNCHANGED vars
  BY <1>0, <1>6, WaitersStay DEF vars, agentVars, waiterVars
<1> QED
  BY <1>1, <1>2, <1>3, <1>4, <1>5, <1>6, StepOf

\* The worker notifies only waiters that are alive, each at most once a scan, and only
\* of a scan that status shows already, for any number of clients that may give up
\* waiting at any moment.
THEOREM DeliveriesSound == Spec => []DeliverySound
<1>1. Init => WaiterInv /\ ResultInv
  <2>1. /\ <<>> \in Seq(Clients) /\ \A i \in 1..Len(<<>>) : FALSE
    OBVIOUS
  <2> QED
    BY <2>1 DEF Init, AgentInit, Fresh, WaiterInv, ResultInv
<1>2. WaiterInv /\ ResultInv => DeliverySound
  BY DEF WaiterInv, ResultInv, DeliverySound
<1> QED
  BY <1>1, <1>2, WaiterKeeps, ResultKeeps, LockInvariance, PTL DEF Spec

-----------------------------------------------------------------------------
(* The watchdog *)

\* Half of the budget, and less than all of it.
LEMMA CapType == WaitCap \in Nat /\ (HangTicks > 0 => WaitCap < HangTicks)
  BY AgentAssumption DEF WaitCap

\* A handler enters its scope with age 0 and reaches the wait with it.
LEMMA HandlerAges ==
    ASSUME PhaseInv, AgeInv, NEW c \in Clients, HandlerStep(c)
    PROVE  AgeInv'
<1>1. PICK p \in HandlerPlaces \ (Dead \cup {"free"}) : hpc' = [hpc EXCEPT ![c] = p]
  BY HandlerMoves
<1>2. /\ hpc \in [Clients -> HandlerPlaces] /\ c \in Threads /\ Clients \subseteq Threads
      /\ UNCHANGED <<fault, victim>>
  BY HandlerMoves, ThreadsAre DEF PhaseInv
<1>3. hpc'[c] = p /\ \A d \in Clients : d # c => hpc'[d] = hpc[d]
  BY <1>1, <1>2
<1>4. /\ age' \in [Threads -> Int] /\ waitFor' \in [Clients -> Int]
      /\ \A d \in Clients : d # c => age'[d] = age[d] /\ waitFor'[d] = waitFor[d]
  <2>1. age' = age \/ age' = [age EXCEPT ![c] = 0] \/ age' = [age EXCEPT ![c] = -1]
    BY Zenon DEF HandlerStep, Handle, StatusState, StatusDb, StatusRead, StatusTry,
       StatusConn, Register, RequestScan, EndWait, Hostname, HostRead, QueryLock, Query,
       DumpNow, Reply, Enter, Leave
  <2>2. CASE RequestScan(c)
    <3>1. PICK w \in 0..MaxWait :
             waitFor' = [waitFor EXCEPT ![c] = IF w > WaitCap THEN WaitCap ELSE w]
      BY <2>2, Zenon DEF RequestScan
    <3>2. (IF w > WaitCap THEN WaitCap ELSE w) \in Int
      BY CapType
    <3> QED
      BY <2>1, <3>1, <3>2, <1>2 DEF AgeInv
  <2>3. CASE ~RequestScan(c)
    <3>1. waitFor' = waitFor \/ waitFor' = [waitFor EXCEPT ![c] = 0]
      BY <2>3, Zenon DEF HandlerStep, Handle, StatusState, StatusDb, StatusRead, StatusTry,
         StatusConn, Register, EndWait, Hostname, HostRead, QueryLock, Query, DumpNow,
         waiterVars
    <3> QED
      BY <2>1, <3>1, <1>2 DEF AgeInv
  <2> QED
    BY <2>2, <2>3, Zenon
<1>5. /\ p \in {"register", "request"} => age'[c] = 0
      /\ p = "wait" => 0 <= age'[c] /\ age'[c] <= waitFor'[c] /\ waitFor'[c] <= WaitCap
      /\ p = "status_db" => fault = "deadlock"
      /\ p \in {"status_state", "status_read", "status_try", "status_conn"} =>
            age'[c] = 0 \/ fault = "deadlock"
      /\ p \in {"register", "request", "wait"} => hpc[c] \in {"free", "register", "request"}
  <2>1. CASE Handle(c)
    <3>1. PICK cmd \in Commands[c] : \E s \in FirstSteps(cmd) :
             Goto(c, s) /\ IF s = "done" THEN UNCHANGED age ELSE Enter(c)
      BY <2>1, Zenon DEF Handle
    <3>2. PICK s \in FirstSteps(cmd) :
             Goto(c, s) /\ IF s = "done" THEN UNCHANGED age ELSE Enter(c)
      BY <3>1, Zenon
    <3>3. cmd \in {"ping", "status", "scan", "findings", "affected", "dump"}
      BY AgentAssumption
    <3>4. s \notin {"request", "wait", "status_db"}
      BY <3>2, <3>3, Zenon DEF FirstSteps
    <3>5. p = s
      BY <1>2, <1>3, <3>2, Zenon DEF Goto
    <3>6. s # "done" => age'[c] = 0
      BY <1>2, <3>2, Zenon DEF Enter, AgeInv
    <3> QED
      BY <2>1, <3>4, <3>5, <3>6, Zenon DEF Handle
  <2>2. CASE RequestScan(c)
    <3>1. PICK w \in 0..MaxWait :
             waitFor' = [waitFor EXCEPT ![c] = IF w > WaitCap THEN WaitCap ELSE w]
      BY <2>2, Zenon DEF RequestScan
    <3>2. waitFor'[c] = IF w > WaitCap THEN WaitCap ELSE w
      BY <3>1 DEF AgeInv
    <3>3. 0 <= waitFor'[c] /\ waitFor'[c] <= WaitCap
      BY <3>2, CapType, AgentAssumption
    <3>4. hpc[c] = "request" /\ age' = age /\ p = "wait"
      BY <1>2, <1>3, <2>2 DEF RequestScan, Goto
    <3>5. age[c] = 0
      BY <3>4 DEF AgeInv
    <3>6. 0 <= age'[c] /\ age'[c] <= waitFor'[c] /\ waitFor'[c] <= WaitCap
      BY <3>3, <3>4, <3>5
    <3>7. /\ p \notin {"register", "request", "status_db", "status_state", "status_read",
                      "status_try", "status_conn"}
          /\ hpc[c] \in {"free", "register", "request"}
      BY <3>4
    <3> QED
      BY <3>6, <3>7, Zenon
  <2>3. CASE Register(c)
    <3>1. hpc[c] = "register" /\ age' = age /\ p = "request"
      BY <1>2, <1>3, <2>3, Zenon DEF Register, Goto
    <3> QED
      BY <3>1 DEF AgeInv
  <2>4. CASE StatusState(c) \/ StatusRead(c)
    <3>1. /\ hpc[c] \in {"status_state", "status_read"} /\ age' = age
          /\ (p = "status_db" /\ fault = "deadlock") \/ p \in {"status_read", "status_try"}
      BY <1>2, <1>3, <2>4, Zenon DEF StatusState, StatusRead, Goto
    <3> QED
      BY <3>1 DEF AgeInv
  <2>5. CASE StatusTry(c)
    <3>1. hpc[c] = "status_try" /\ (p = "done" \/ (p = "status_conn" /\ age' = age))
      BY <1>2, <1>3, <2>5, Zenon DEF StatusTry, Reply, Goto
    <3> QED
      BY <3>1 DEF AgeInv
  <2>6. CASE StatusDb(c) \/ StatusConn(c) \/ EndWait(c) \/ Hostname(c) \/ HostRead(c)
             \/ QueryLock(c) \/ Query(c) \/ DumpNow(c)
    <3>1. p \in {"done", "host_read", "db", "query"}
      BY <1>2, <1>3, <2>6 DEF StatusDb, StatusConn, EndWait, Hostname, HostRead, QueryLock,
         Query, DumpNow, Reply, Goto
    <3> QED
      BY <3>1, ZenonT(30)
  <2> QED
    BY <2>1, <2>2, <2>3, <2>4, <2>5, <2>6, Zenon DEF HandlerStep
<1>6. p # "free"
  OBVIOUS
<1> QED
  BY <1>2, <1>3, <1>4, <1>5, <1>6 DEF AgeInv

\* Steps at which no handler moves and no handler's scope ages.
LEMMA AgesStay ==
    ASSUME AgeInv, UNCHANGED <<fault, hpc, waitFor>>, age' \in [Threads -> Int],
           \A c \in Clients : age'[c] = age[c],
           victim' \in Clients => hpc[victim'] \notin {"free", "register", "request", "wait"}
    PROVE  AgeInv'
  BY DEF AgeInv

\* Time passes only when no handler could move, so a wait does not outlast its cap.
LEMMA TickAges ==
    ASSUME PhaseInv, LockInv, AgeInv, ResultInv, PromptRuns, Tick
    PROVE  AgeInv'
<1>1. /\ ~ENABLED PromptStep /\ UNCHANGED <<fault, hpc, waitFor, victim>> /\ victim = NoOne
      /\ age' = [t \in Threads |-> IF age[t] \in 0..HangTicks THEN age[t] + 1 ELSE age[t]]
  BY DEF Tick, waiterVars
<1>2. /\ wpc # "publish"
      /\ \A c \in Clients :
            /\ hpc[c] \notin {"register", "request", "status_read", "status_try", "status_conn",
                             "host_read"}
            /\ ~(hpc[c] = "status_state" /\ stateMu = NoOne)
            /\ ~(hpc[c] = "wait" /\ age[c] >= waitFor[c])
  BY <1>1 DEF PromptRuns
<1>3. age' \in [Threads -> Int]
  <2>1. \A t \in Threads : (IF age[t] \in 0..HangTicks THEN age[t] + 1 ELSE age[t]) \in Int
    BY DEF AgeInv
  <2> QED
    BY <1>1, <2>1
<1>4. ASSUME NEW c \in Clients
      PROVE  /\ hpc[c] = "free" => age'[c] = -1
             /\ hpc[c] = "wait" => 0 <= age'[c] /\ age'[c] <= waitFor[c]
  <2>1. /\ age'[c] = IF age[c] \in 0..HangTicks THEN age[c] + 1 ELSE age[c]
        /\ age[c] \in Int /\ waitFor[c] \in Int
    BY <1>1, ThreadsAre DEF AgeInv
  <2>2. CASE hpc[c] = "free"
    <3>1. age[c] = -1
      BY <2>2 DEF AgeInv
    <3> QED
      BY <2>1, <2>2, <3>1
  <2>3. CASE hpc[c] = "wait"
    <3>1. 0 <= age[c] /\ ~(age[c] >= waitFor[c])
      BY <2>3, <1>2, Zenon DEF AgeInv
    <3> QED
      BY <2>1, <2>3, <3>1
  <2> QED
    BY <2>2, <2>3
<1>5. \A c \in Clients : hpc[c] = "status_state" => fault = "deadlock"
  BY <1>2, ThreadsAre DEF LockInv
<1>6. NoOne \notin Clients
  BY AgentAssumption
<1> QED
  BY <1>1, <1>2, <1>3, <1>4, <1>5, <1>6 DEF AgeInv

\* The ages of the handlers' scopes, step by step.
LEMMA AgeKeeps ==
    PhaseInv /\ LockInv /\ ResultInv /\ AgeInv /\ PromptRuns /\ [Next]_vars => AgeInv'
<1> SUFFICES ASSUME PhaseInv, LockInv, ResultInv, AgeInv, PromptRuns, [Next]_vars PROVE AgeInv'
  OBVIOUS
<1>0. /\ age \in [Threads -> Int] /\ Worker \notin Clients /\ NoOne \notin Clients
      /\ (victim \in Clients => hpc[victim] \notin {"free", "register", "request", "wait"})
  BY AgentAssumption DEF AgeInv
<1>1. ASSUME NEW c \in Clients, HandlerStep(c) PROVE AgeInv'
  BY <1>1, HandlerAges
<1>2. CASE WorkerStep
  <2>1. /\ UNCHANGED <<fault, hpc, waitFor, victim>>
        /\ age' = age \/ age' = [age EXCEPT ![Worker] = 0] \/ age' = [age EXCEPT ![Worker] = -1]
    BY <1>2, Zenon DEF WorkerStep, WorkerWake, WorkerExit, Collect, WorkerLockDb, WriteDb,
       UpdateState, StateUpdated, Inventory, Swap, Deliver, ScanDone, waiterVars, Enter,
       Leave
  <2>2. age' \in [Threads -> Int] /\ \A c \in Clients : age'[c] = age[c]
    BY <1>0, <2>1, ThreadsAre
  <2> QED
    BY <1>0, <2>1, <2>2, AgesStay, Zenon
<1>3. CASE ControlStep
  <2>1. CASE Tick
    BY <2>1, TickAges, Zenon
  <2>2. ASSUME NEW t \in Threads, Hang(t) PROVE AgeInv'
    <3>1. /\ UNCHANGED <<fault, hpc, waitFor, age>> /\ HangTicks > 0 /\ age[t] >= HangTicks
          /\ victim' = t
      BY <2>2 DEF Hang, WatchdogOn, waiterVars
    <3>2. ASSUME t \in Clients PROVE hpc[t] \notin {"free", "register", "request", "wait"}
      <4>1. age[t] \in Int /\ HangTicks \in Nat /\ WaitCap \in Nat /\ WaitCap < HangTicks
            /\ waitFor[t] \in Int
        BY <3>1, <3>2, CapType, AgentAssumption DEF AgeInv
      <4>2. /\ hpc[t] = "free" => age[t] = -1
            /\ hpc[t] \in {"register", "request"} => age[t] = 0
            /\ hpc[t] = "wait" => age[t] <= waitFor[t] /\ waitFor[t] <= WaitCap
        BY <3>2 DEF AgeInv
      <4>3. age[t] > 0 /\ ~(age[t] <= waitFor[t] /\ waitFor[t] <= WaitCap)
        BY <3>1, <4>1
      <4> QED
        BY <4>1, <4>2, <4>3
    <3> QED
      BY <1>0, <3>1, <3>2, AgesStay, Zenon
  <2>3. CASE ~Tick /\ ~\E t \in Threads : Hang(t)
    <3>1. UNCHANGED <<fault, hpc, waitFor, victim, age>>
      BY <1>3, <2>3, Zenon DEF ControlStep, Start, StartFails, BodyStops, StopWorker,
         JoinWorker, ServiceMain, ReportRunning, ReportStopped, ScmStop, HandlerReports,
         HandlerSetsFlag, agentVars, waiterVars
    <3> QED
      BY <1>0, <3>1, AgesStay, Zenon
  <2> QED
    BY <2>1, <2>2, <2>3
<1>4. ASSUME NEW t \in Threads, Fail(t) \/ CrashFilter(t) PROVE AgeInv'
  <2>1. PICK p \in Dead : IF t = Worker THEN wpc' = p /\ hpc' = hpc
                          ELSE wpc' = wpc /\ hpc' = [hpc EXCEPT ![t] = p]
    BY <1>4, Fails
  <2>2. UNCHANGED <<fault, waitFor, age, victim>>
    BY <1>4 DEF Fail, CrashFilter, waiterVars
  <2>3. \A c \in Clients : hpc'[c] = hpc[c] \/ hpc'[c] \in Dead
    BY <2>1, ThreadsAre DEF PhaseInv
  <2> QED
    BY <2>2, <2>3, Zenon DEF AgeInv, Dead
<1>5. CASE Death
  <2>1. /\ hpc' = [c \in Clients |-> "free"] /\ age' = [t \in Threads |-> -1]
        /\ waitFor' = [c \in Clients |-> 0] /\ victim' = NoOne /\ fault' = fault
    BY <1>5 DEF Death, ExitProcess, HangExit, CrashExit, Die, Gone, Reset
  <2>2. /\ age' \in [Threads -> Int] /\ waitFor' \in [Clients -> Int]
        /\ \A c \in Clients : hpc'[c] = "free" /\ age'[c] = -1
    BY <2>1, ThreadsAre
  <2> QED
    BY <1>0, <2>1, <2>2, ZenonT(30) DEF AgeInv
<1>6. CASE UNCHANGED vars
  BY <1>0, <1>6, AgesStay DEF vars, agentVars, waiterVars
<1> QED
  BY <1>1, <1>2, <1>3, <1>4, <1>5, <1>6, StepOf

\* What the three facts about time below rest on.
LEMMA AgeInvariance == Spec /\ []PromptRuns => []AgeInv
<1>1. Init => AgeInv
  <2>1. ASSUME Init PROVE AgeInv
    <3>1. /\ hpc = [c \in Clients |-> "free"] /\ age = [t \in Threads |-> -1]
          /\ waitFor = [c \in Clients |-> 0] /\ victim = NoOne
      BY <2>1 DEF Init, AgentInit, Fresh
    <3>2. /\ age \in [Threads -> Int] /\ waitFor \in [Clients -> Int]
          /\ \A c \in Clients : hpc[c] = "free" /\ age[c] = -1
      BY <3>1, ThreadsAre
    <3> QED
      BY <3>1, <3>2, AgentAssumption DEF AgeInv
  <2> QED
    BY <2>1
<1>2. Init => ResultInv
  BY DEF Init, AgentInit, Fresh, ResultInv
<1> QED
  BY <1>1, <1>2, AgeKeeps, ResultKeeps, LockInvariance, PTL DEF Spec

\* A client waiting for a scan is never taken for a hang, for any watchdog budget and
\* any wait a client asks for.
THEOREM WaitingNoHang == Spec /\ []PromptRuns => []WaitIsNoHang
<1>1. AgeInv => WaitIsNoHang
  BY DEF AgeInv, WaitIsNoHang
<1> QED
  BY <1>1, AgeInvariance, PTL

\* status is never a tick old, whatever the database does.
THEOREM StatusAtOnce == Spec /\ []PromptRuns => []StatusPrompt
<1>1. AgeInv => StatusPrompt
  BY DEF AgeInv, StatusPrompt
<1> QED
  BY <1>1, AgeInvariance, PTL
=============================================================================
