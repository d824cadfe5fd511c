------------------------------- MODULE Agent -------------------------------
(***************************************************************************)
(* ns::Agent: the scan worker, the handlers of the pipe's requests, the    *)
(* locks they share, the waiters of `scan` and the hang watchdog.          *)
(*                                                                         *)
(* A pipe connection is one thread that serves one request, so a client is *)
(* a handler thread, numbered in the order of arrival.  listeners_mu and   *)
(* wake_mu are leaf locks: nothing blocks inside them, and what they       *)
(* protect is one step.  db_mu and state_mu have an owner.  The planted    *)
(* faults of docs/DEBUGGING.md are switched on by `fault`, as              *)
(* --inject-fault does.                                                    *)
(*                                                                         *)
(* Time is counted in ticks, half of hang_timeout_s when HangTicks is 2.   *)
(***************************************************************************)
EXTENDS Integers, Sequences, FiniteSets

CONSTANTS
    Connections,  \* bound: pipe connections in one life of the process
    Worker,       \* the scan worker's thread
    NoOne,        \* the owner of a free mutex
    Faults,       \* values of --inject-fault to start with
    Commands,     \* what each connection may ask
    HasDb,        \* a connection string was given
    HangTicks,    \* hang_timeout_s in ticks; 0 turns the watchdog off
    MaxWait,      \* bound: the longest wait a client asks for, in ticks
    MaxTimer      \* bound: scans started by the interval

Clients == 1..Connections

ASSUME AgentAssumption ==
    /\ Connections \in Nat
    /\ Worker \notin Clients /\ NoOne \notin Clients \cup {Worker}
    /\ HasDb \in BOOLEAN
    /\ HangTicks \in Nat /\ MaxWait \in Nat /\ MaxTimer \in Nat
    /\ Commands \in [Clients -> SUBSET {"ping", "status", "scan", "findings",
                                        "affected", "dump"}]
    /\ Faults \subseteq {"none", "uaf", "deadlock", "worker_crash", "bug"}

Threads == Clients \cup {Worker}

VARIABLES
    fault,          \* cfg.fault; "bug" lets any thread fail, as an unknown bug would
    phase,          \* where the thread that starts and stops the agent is
    wpc,            \* where the worker is
    hpc,            \* where each handler is
    dbMu, stateMu,  \* owners of the two mutexes
    connected,      \* db.connected()
    scans, last,    \* completed scans and the scan of the last result, under state_mu
    r,              \* the worker's result: the number of the scan it is running
    listeners,      \* waiters registered, under listeners_mu
    waiting,        \* waiters the worker took out and has not notified yet
    done,           \* the scan a waiter was notified of, 0 before
    freed,          \* waiters whose memory was given back
    waitFor,        \* how long a handler waits
    scanRequested, stopping,   \* under wake_mu
    timers,         \* scans the interval started
    age,            \* ticks since a thread entered its watchdog scope, -1 outside
    victim,         \* the thread whose scope the watchdog found too old
    owed            \* history: clients that asked and no scan has begun since

lockVars == <<dbMu, stateMu>>
stateVars == <<connected, scans, last, r>>
waiterVars == <<listeners, waiting, done, freed, waitFor>>
wakeVars == <<scanRequested, stopping, timers, owed>>
agentVars == <<fault, phase, wpc, hpc, lockVars, stateVars, waiterVars,
               wakeVars, age, victim>>

(* The agent before start(): no thread runs and nothing is held. *)
Fresh ==
    /\ wpc = "none" /\ hpc = [c \in Clients |-> "free"]
    /\ dbMu = NoOne /\ stateMu = NoOne
    /\ connected = FALSE /\ scans = 0
    /\ last = 0 /\ r = 0
    /\ listeners = <<>> /\ waiting = <<>>
    /\ done = [c \in Clients |-> 0] /\ freed = {}
    /\ waitFor = [c \in Clients |-> 0]
    /\ scanRequested = FALSE /\ stopping = FALSE
    /\ timers = 0 /\ owed = {}
    /\ age = [t \in Threads |-> -1] /\ victim = NoOne

(* The same after the process is gone: nothing of it is kept. *)
Reset ==
    /\ wpc' = "none" /\ hpc' = [c \in Clients |-> "free"]
    /\ dbMu' = NoOne /\ stateMu' = NoOne
    /\ connected' = FALSE /\ scans' = 0
    /\ last' = 0 /\ r' = 0
    /\ listeners' = <<>> /\ waiting' = <<>>
    /\ done' = [c \in Clients |-> 0] /\ freed' = {}
    /\ waitFor' = [c \in Clients |-> 0]
    /\ scanRequested' = FALSE /\ stopping' = FALSE
    /\ timers' = 0 /\ owed' = {}
    /\ age' = [t \in Threads |-> -1] /\ victim' = NoOne

AgentInit == fault \in Faults /\ phase = "none" /\ Fresh

Enter(t) == age' = [age EXCEPT ![t] = 0]
Leave(t) == age' = [age EXCEPT ![t] = -1]

\* Mutant: the wait may use up the whole budget.
WholeBudget == IF HangTicks > 0 THEN HangTicks ELSE MaxWait

(* The cap on a client's wait: half of the watchdog's budget. *)
WaitCap == IF HangTicks > 0 THEN HangTicks \div 2 ELSE MaxWait

---------------------------------------------------------------------------
(* worker_loop and run_scan *)

\* Mutant: the scan runs outside any watchdog scope.
WakeOutsideScope ==
    /\ wpc = "wait" /\ ~stopping
    /\ scanRequested \/ timers < MaxTimer
    /\ timers' = IF scanRequested THEN timers ELSE timers + 1
    /\ scanRequested' = FALSE /\ owed' = {}
    /\ wpc' = "collect"
    /\ UNCHANGED <<fault, phase, hpc, lockVars, stateVars, waiterVars,
                   stopping, age, victim>>

(* The condition variable lets the worker go at a request, or when the
   interval is over. *)
WorkerWake ==
    /\ wpc = "wait" /\ ~stopping
    /\ scanRequested \/ timers < MaxTimer
    /\ timers' = IF scanRequested THEN timers ELSE timers + 1
    /\ scanRequested' = FALSE /\ owed' = {}
    /\ wpc' = "collect" /\ Enter(Worker)
    /\ UNCHANGED <<fault, phase, hpc, lockVars, stateVars, waiterVars,
                   stopping, victim>>

WorkerExit ==
    /\ wpc = "wait" /\ stopping
    /\ wpc' = "gone"
    /\ UNCHANGED <<fault, phase, hpc, lockVars, stateVars, waiterVars,
                   wakeVars, age, victim>>

(* collect_inventory, the match, and worst_finding, whose planted bug throws
   on this thread. *)
Collect ==
    /\ wpc = "collect"
    /\ r' = scans + 1
    /\ wpc' = IF fault = "worker_crash" THEN "failed" ELSE "db"
    /\ UNCHANGED <<fault, phase, hpc, lockVars, connected, scans, last,
                   waiterVars, wakeVars, age, victim>>

WorkerLockDb ==
    /\ wpc = "db" /\ dbMu = NoOne
    /\ dbMu' = Worker /\ wpc' = "write"
    /\ UNCHANGED <<fault, phase, hpc, stateMu, stateVars, waiterVars,
                   wakeVars, age, victim>>

(* write_db: connect if needed, record the scan, drop the connection when that
   fails.  The Deadlock fault keeps db_mu. *)
WriteDb ==
    /\ wpc = "write"
    /\ connected' \in IF HasDb THEN BOOLEAN ELSE {FALSE}
    /\ dbMu' = IF fault = "deadlock" THEN Worker ELSE NoOne
    /\ wpc' = "state"
    /\ UNCHANGED <<fault, phase, hpc, stateMu, scans, last, r, waiterVars,
                   wakeVars, age, victim>>

(* update_state under state_mu. *)
UpdateState ==
    /\ wpc = "state" /\ stateMu = NoOne
    /\ stateMu' = Worker
    /\ scans' = scans + 1 /\ last' = r
    /\ wpc' = "publish"
    /\ UNCHANGED <<fault, phase, hpc, dbMu, connected, r, waiterVars, wakeVars,
                   age, victim>>

(* The end of the block; the Deadlock fault gives back both locks here. *)
StateUpdated ==
    /\ wpc = "publish"
    /\ stateMu' = NoOne /\ dbMu' = IF dbMu = Worker THEN NoOne ELSE dbMu
    /\ wpc' = "inventory"
    /\ UNCHANGED <<fault, phase, hpc, stateVars, waiterVars, wakeVars, age,
                   victim>>

(* on_inventory: the reporter's append and drain, inside the scan's scope. *)
Inventory ==
    /\ wpc = "inventory"
    /\ wpc' = "swap"
    /\ UNCHANGED <<fault, phase, hpc, lockVars, stateVars, waiterVars,
                   wakeVars, age, victim>>

Swap ==
    /\ wpc = "swap"
    /\ waiting' = listeners /\ listeners' = <<>>
    /\ wpc' = "deliver"
    /\ UNCHANGED <<fault, phase, hpc, lockVars, stateVars, done, freed,
                   waitFor, wakeVars, age, victim>>

(* One on_scan_complete.  The worker's reference is the last one when the
   handler gave up waiting.  On freed memory the call either faults or, in a
   release build, writes into the block. *)
Deliver ==
    /\ wpc = "deliver" /\ waiting # <<>>
    /\ LET c == Head(waiting) IN
         \/ /\ done' = IF hpc[c] = "done" THEN done ELSE [done EXCEPT ![c] = r]
            /\ freed' = IF hpc[c] = "done" THEN freed \cup {c} ELSE freed
            /\ waiting' = Tail(waiting) /\ UNCHANGED wpc
         \/ /\ c \in freed
            /\ wpc' = "failed" /\ UNCHANGED <<done, freed, waiting>>
    /\ UNCHANGED <<fault, phase, hpc, lockVars, stateVars, listeners,
                   waitFor, wakeVars, age, victim>>

\* Mutant: the request is cleared when the scan is over.
ScanDoneClears ==
    /\ wpc = "deliver" /\ waiting = <<>>
    /\ scanRequested' = FALSE
    /\ wpc' = "wait" /\ Leave(Worker)
    /\ UNCHANGED <<fault, phase, hpc, lockVars, stateVars, waiterVars,
                   stopping, timers, owed, victim>>

ScanDone ==
    /\ wpc = "deliver" /\ waiting = <<>>
    /\ wpc' = "wait" /\ Leave(Worker)
    /\ UNCHANGED <<fault, phase, hpc, lockVars, stateVars, waiterVars,
                   wakeVars, victim>>

---------------------------------------------------------------------------
(* Agent::handle, on a pipe client's thread *)

(* Where a command's handler goes first.  An `affected` whose argument is no
   CVE id, a `ping` and an unknown command are answered at once. *)
FirstSteps(cmd) ==
    CASE cmd = "ping"     -> {"done"}
      [] cmd = "status"   -> {"status_state"}
      [] cmd = "scan"     -> {"register"}
      [] cmd = "findings" -> {"hostname"}
      [] cmd = "affected" -> {"done", "db"}
      [] cmd = "dump"     -> {"dump"}

Goto(c, where) == hpc' = [hpc EXCEPT ![c] = where]

(* The reply is returned and the scope left. *)
Reply(c) == Goto(c, "done") /\ Leave(c)

Handle(c) ==
    /\ phase = "running" /\ hpc[c] = "free"
    /\ c > 1 => hpc[c - 1] # "free"
    /\ \E cmd \in Commands[c] : \E s \in FirstSteps(cmd) :
          Goto(c, s) /\ IF s = "done" THEN UNCHANGED age ELSE Enter(c)
    /\ UNCHANGED <<fault, phase, wpc, lockVars, stateVars, waiterVars,
                   wakeVars, victim>>

(* handle_status reads under state_mu, then tries db_mu.  The Deadlock fault
   waits for db_mu with state_mu held. *)
StatusState(c) ==
    /\ hpc[c] = "status_state" /\ stateMu = NoOne
    /\ stateMu' = c
    /\ Goto(c, IF fault = "deadlock" THEN "status_db" ELSE "status_read")
    /\ UNCHANGED <<fault, phase, wpc, dbMu, stateVars, waiterVars, wakeVars,
                   age, victim>>

StatusRead(c) ==
    /\ hpc[c] = "status_read"
    /\ stateMu' = NoOne /\ Goto(c, "status_try")
    /\ UNCHANGED <<fault, phase, wpc, dbMu, stateVars, waiterVars, wakeVars,
                   age, victim>>

StatusDb(c) ==
    /\ hpc[c] = "status_db" /\ dbMu = NoOne
    /\ stateMu' = NoOne /\ Reply(c)
    /\ UNCHANGED <<fault, phase, wpc, dbMu, stateVars, waiterVars, wakeVars,
                   victim>>

\* Mutant: status waits for db_mu.
StatusWaits(c) ==
    /\ hpc[c] = "status_try" /\ dbMu = NoOne
    /\ dbMu' = c /\ Goto(c, "status_conn")
    /\ UNCHANGED <<fault, phase, wpc, stateMu, stateVars, waiterVars, wakeVars,
                   age, victim>>

(* try_to_lock: "busy" when another thread has db_mu; it is never waited for. *)
StatusTry(c) ==
    /\ hpc[c] = "status_try"
    /\ IF dbMu = NoOne
       THEN dbMu' = c /\ Goto(c, "status_conn") /\ UNCHANGED age
       ELSE Reply(c) /\ UNCHANGED dbMu
    /\ UNCHANGED <<fault, phase, wpc, stateMu, stateVars, waiterVars, wakeVars,
                   victim>>

StatusConn(c) ==
    /\ hpc[c] = "status_conn"
    /\ dbMu' = NoOne /\ Reply(c)
    /\ UNCHANGED <<fault, phase, wpc, stateMu, stateVars, waiterVars, wakeVars,
                   victim>>

(* handle_scan: register the waiter, request_scan, wait. *)
Register(c) ==
    /\ hpc[c] = "register"
    /\ listeners' = Append(listeners, c)
    /\ Goto(c, "request")
    /\ UNCHANGED <<fault, phase, wpc, lockVars, stateVars, waiting, done,
                   freed, waitFor, wakeVars, age, victim>>

RequestScan(c) ==
    /\ hpc[c] = "request"
    /\ scanRequested' = TRUE /\ owed' = owed \cup {c}
    /\ \E w \in 0..MaxWait :
          waitFor' = [waitFor EXCEPT ![c] = IF w > WaitCap THEN WaitCap ELSE w]
    /\ Goto(c, "wait")
    /\ UNCHANGED <<fault, phase, wpc, lockVars, stateVars, listeners, waiting,
                   done, freed, stopping, timers, age, victim>>

Registered(c) ==
    \/ \E i \in 1..Len(listeners) : listeners[i] = c
    \/ \E i \in 1..Len(waiting) : waiting[i] = c

\* Mutant: the handler owns the waiter alone.
EndWaitDeletes(c) ==
    /\ hpc[c] = "wait"
    /\ done[c] > 0 \/ age[c] >= waitFor[c]
    /\ waitFor' = [waitFor EXCEPT ![c] = 0] /\ done' = [done EXCEPT ![c] = 0]
    /\ freed' = freed \cup {c}
    /\ Reply(c)
    /\ UNCHANGED <<fault, phase, wpc, lockVars, stateVars, listeners, waiting,
                   wakeVars, victim>>

(* The handler drops its waiter.  Shared ownership frees it only when the
   worker has no reference; the UseAfterFree fault deletes it. *)
EndWait(c) ==
    /\ hpc[c] = "wait"
    /\ done[c] > 0 \/ age[c] >= waitFor[c]
    /\ waitFor' = [waitFor EXCEPT ![c] = 0] /\ done' = [done EXCEPT ![c] = 0]
    /\ freed' = IF fault = "uaf" \/ ~Registered(c) THEN freed \cup {c} ELSE freed
    /\ Reply(c)
    /\ UNCHANGED <<fault, phase, wpc, lockVars, stateVars, listeners, waiting,
                   wakeVars, victim>>

(* handle_findings copies the host name under state_mu. *)
Hostname(c) ==
    /\ hpc[c] = "hostname" /\ stateMu = NoOne
    /\ stateMu' = c /\ Goto(c, "host_read")
    /\ UNCHANGED <<fault, phase, wpc, dbMu, stateVars, waiterVars, wakeVars,
                   age, victim>>

\* Mutant: the lock lives as long as the handler.
HostReadKeepsLock(c) ==
    /\ hpc[c] = "host_read"
    /\ IF scans = 0 THEN Reply(c) /\ stateMu' = NoOne
       ELSE Goto(c, "db") /\ UNCHANGED <<stateMu, age>>
    /\ UNCHANGED <<fault, phase, wpc, dbMu, stateVars, waiterVars, wakeVars,
                   victim>>

(* There is no host name before the first scan. *)
HostRead(c) ==
    /\ hpc[c] = "host_read"
    /\ stateMu' = NoOne
    /\ IF scans = 0 THEN Reply(c) ELSE Goto(c, "db") /\ UNCHANGED age
    /\ UNCHANGED <<fault, phase, wpc, dbMu, stateVars, waiterVars, wakeVars,
                   victim>>

QueryLock(c) ==
    /\ hpc[c] = "db" /\ dbMu = NoOne
    /\ IF connected
       THEN dbMu' = c /\ Goto(c, "query") /\ UNCHANGED age
       ELSE Reply(c) /\ UNCHANGED dbMu
    /\ UNCHANGED <<fault, phase, wpc, stateMu, stateVars, waiterVars,
                   wakeVars, victim>>

Query(c) ==
    /\ hpc[c] = "query"
    /\ dbMu' = NoOne /\ Reply(c)
    /\ UNCHANGED <<fault, phase, wpc, stateMu, stateVars, waiterVars,
                   wakeVars, victim>>

(* write_now("manual") *)
DumpNow(c) ==
    /\ hpc[c] = "dump"
    /\ Reply(c)
    /\ UNCHANGED <<fault, phase, wpc, lockVars, stateVars, waiterVars,
                   wakeVars, victim>>

---------------------------------------------------------------------------
(* start, stop and the watchdog *)

(* start: a database that cannot be reached is not an error. *)
Start ==
    /\ phase = "start"
    /\ connected' \in IF HasDb THEN BOOLEAN ELSE {FALSE}
    /\ wpc' = "wait" /\ phase' = "running"
    /\ UNCHANGED <<fault, hpc, lockVars, scans, last, r, waiterVars, wakeVars,
                   age, victim>>

(* The index, the aliases or the pipe cannot be opened. *)
StartFails ==
    /\ phase = "start"
    /\ connected' \in IF HasDb THEN BOOLEAN ELSE {FALSE}
    /\ phase' = "return"
    /\ UNCHANGED <<fault, wpc, hpc, lockVars, scans, last, r, waiterVars,
                   wakeVars, age, victim>>

HandlersDone == \A c \in Clients : hpc[c] \in {"free", "done"}

(* stop: the pipe server joins its threads, then the worker is told and
   joined, then the watchdog, unless it is in on_hang. *)
StopWorker ==
    /\ phase = "stop_server" /\ HandlersDone
    /\ stopping' = TRUE /\ phase' = "stop_worker"
    /\ UNCHANGED <<fault, wpc, hpc, lockVars, stateVars, waiterVars,
                   scanRequested, timers, owed, age, victim>>

\* Mutant: the worker is not joined.
WorkerNotJoined ==
    /\ phase = "stop_worker" /\ victim = NoOne
    /\ phase' = "return"
    /\ UNCHANGED <<fault, wpc, hpc, lockVars, stateVars, waiterVars, wakeVars,
                   age, victim>>

JoinWorker ==
    /\ phase = "stop_worker" /\ wpc = "gone" /\ victim = NoOne
    /\ phase' = "return"
    /\ UNCHANGED <<fault, wpc, hpc, lockVars, stateVars, waiterVars, wakeVars,
                   age, victim>>

\* Mutant: the watchdog is stopped first.
WatchdogStopsFirst == HangTicks > 0 /\ phase \in {"running"}

WatchdogOn == HangTicks > 0 /\ phase \in {"running", "stop_server", "stop_worker"}

(* Watchdog::loop finds a scope that is too old; on_hang does not return. *)
Hang(t) ==
    /\ WatchdogOn /\ victim = NoOne
    /\ age[t] >= HangTicks
    /\ victim' = t
    /\ UNCHANGED <<fault, phase, wpc, hpc, lockVars, stateVars, waiterVars,
                   wakeVars, age>>

---------------------------------------------------------------------------
(* Steps that take as long as something outside the process takes. *)
SlowStep == Collect \/ WriteDb \/ Inventory \/ (\E c \in Clients : Query(c) \/ DumpNow(c))

(* Steps a thread takes as soon as it can. *)
PromptStep ==
    \/ (scanRequested /\ WorkerWake) \/ WorkerExit \/ WorkerLockDb \/ UpdateState
    \/ StateUpdated \/ Swap \/ Deliver \/ ScanDone
    \/ \E c \in Clients :
          \/ StatusState(c) \/ StatusDb(c) \/ StatusRead(c) \/ StatusTry(c) \/ StatusConn(c)
          \/ Register(c) \/ RequestScan(c) \/ EndWait(c)
          \/ Hostname(c) \/ HostRead(c) \/ QueryLock(c)
    \/ StopWorker \/ JoinWorker
    \/ \E t \in Threads : Hang(t)

(* Half of the hang timeout passes, and no thread that could run is left
   behind.  Past the timeout the age of a scope is not told apart. *)
Tick ==
    /\ \E t \in Threads : age[t] >= 0
    /\ victim = NoOne
    /\ ~ENABLED PromptStep
    /\ age' = [t \in Threads |->
                 IF age[t] \in 0..HangTicks THEN age[t] + 1 ELSE age[t]]
    /\ UNCHANGED <<fault, phase, wpc, hpc, lockVars, stateVars, waiterVars,
                   wakeVars, victim>>

AgentStep ==
    \/ Start \/ StartFails
    \/ PromptStep \/ SlowStep \/ Tick
    \/ (~scanRequested /\ WorkerWake)
    \/ \E c \in Clients : Handle(c)

---------------------------------------------------------------------------
(* Every part of the agent keeps to its values: the locks to their owners, and
   the age of each watchdog scope to what the watchdog lets it reach. *)
AgentTypeOK ==
    /\ fault \in Faults
    /\ phase \in {"none", "register", "start", "running", "stop_server",
                  "stop_worker", "return", "exit"}
    /\ wpc \in {"none", "wait", "collect", "db", "write", "state", "publish",
                "inventory", "swap", "deliver", "gone", "failed", "dumping", "parked"}
    /\ hpc \in [Clients -> {"free", "status_state", "status_db", "status_read",
                            "status_try", "status_conn", "register", "request",
                            "wait", "hostname", "host_read", "db", "query", "dump",
                            "done", "failed", "dumping", "parked"}]
    /\ dbMu \in Threads \cup {NoOne} /\ stateMu \in Threads \cup {NoOne}
    /\ connected \in BOOLEAN /\ scans \in Nat
    /\ last \in Nat /\ r \in Nat
    /\ listeners \in Seq(Clients) /\ waiting \in Seq(Clients)
    /\ done \in [Clients -> Nat] /\ freed \subseteq Clients
    /\ waitFor \in [Clients -> 0..MaxWait]
    /\ scanRequested \in BOOLEAN /\ stopping \in BOOLEAN
    /\ timers \in 0..MaxTimer /\ owed \subseteq Clients
    /\ age \in [Threads -> -1..HangTicks] /\ victim \in Threads \cup {NoOne}
=============================================================================
