------------------------------ MODULE Service ------------------------------
(***************************************************************************)
(* The process around the agent: the service thread and its control        *)
(* handler (service_windows.cpp), cmd_run's body (main.cpp), the crash     *)
(* dump writer (crashdump_windows.cpp), and the service manager with the   *)
(* restart policy install() gives it.                                      *)
(***************************************************************************)
EXTENDS Agent

CONSTANT Watchdog   \* the watchdog's thread, as the writer of the hang dump

ASSUME WatchdogAssumption == Watchdog \notin Threads \cup {NoOne}

VARIABLES
    scm,        \* the status the service manager saw last
    ctl,        \* where the control handler is
    gStop,      \* g_stop
    crashing,   \* g_crashing
    dump,       \* the dump file each thread wrote in this process
    cause       \* how the last process ended

svcVars == <<scm, ctl, gStop, crashing, dump, cause>>
vars == <<agentVars, svcVars>>

Dumpers == Threads \cup {Watchdog}
NoDumps == [t \in Dumpers |-> "none"]

Init ==
    /\ AgentInit
    /\ scm = "START" /\ ctl = "idle" /\ gStop = FALSE
    /\ crashing = FALSE /\ dump = NoDumps
    /\ cause = "none"

---------------------------------------------------------------------------
(* service_main, the body, and the control handler *)

(* The manager starts the process; service_main registers its handler. *)
ServiceMain ==
    /\ phase = "none" /\ scm \in {"START", "RESTART"}
    /\ phase' = "register" /\ scm' = "START_PENDING"
    /\ dump' = NoDumps /\ cause' = "none"
    /\ UNCHANGED <<fault, wpc, hpc, lockVars, stateVars, waiterVars, wakeVars,
                   age, victim, ctl, gStop, crashing>>

ReportRunning ==
    /\ phase = "register"
    /\ phase' = "start" /\ scm' = "RUNNING"
    /\ UNCHANGED <<fault, wpc, hpc, lockVars, stateVars, waiterVars, wakeVars,
                   age, victim, ctl, gStop, crashing, dump, cause>>

(* A stop is sent only to a service that accepts it. *)
ScmStop ==
    /\ scm = "RUNNING" /\ ctl = "idle" /\ phase # "none"
    /\ ctl' = "called"
    /\ UNCHANGED <<agentVars, scm, gStop, crashing, dump, cause>>

\* Mutant: the flag first, then STOP_PENDING.
HandlerFlagFirst ==
    /\ \/ /\ ctl = "called" /\ ctl' = "reported"
          /\ gStop' = TRUE /\ UNCHANGED scm
       \/ /\ ctl = "reported" /\ gStop /\ ctl' = "returned"
          /\ scm' = "STOP_PENDING" /\ UNCHANGED gStop
    /\ UNCHANGED <<agentVars, crashing, dump, cause>>

(* control_handler: STOP_PENDING first, then the flag. *)
HandlerReports ==
    /\ ctl = "called"
    /\ scm' = "STOP_PENDING" /\ ctl' = "reported"
    /\ UNCHANGED <<agentVars, gStop, crashing, dump, cause>>

HandlerSetsFlag ==
    /\ ctl = "reported"
    /\ gStop' = TRUE /\ ctl' = "returned"
    /\ UNCHANGED <<agentVars, scm, crashing, dump, cause>>

(* The body polls the flag and calls stop(). *)
BodyStops ==
    /\ phase = "running" /\ gStop
    /\ phase' = "stop_server"
    /\ UNCHANGED <<fault, wpc, hpc, lockVars, stateVars, waiterVars, wakeVars,
                   age, victim, svcVars>>

ReportStopped ==
    /\ phase = "return"
    /\ phase' = "exit" /\ scm' = "STOPPED"
    /\ UNCHANGED <<fault, wpc, hpc, lockVars, stateVars, waiterVars, wakeVars,
                   age, victim, ctl, gStop, crashing, dump, cause>>

---------------------------------------------------------------------------
(* Crashes and hangs *)

At(t) == IF t = Worker THEN wpc ELSE hpc[t]

Move(t, where) ==
    IF t = Worker THEN wpc' = where /\ UNCHANGED hpc
                  ELSE Goto(t, where) /\ UNCHANGED wpc

Down(t) == At(t) \in {"failed", "dumping", "parked"}

(* A bug nobody knows of strikes a thread at work on what comes from outside:
   the packages, the database, the cloud, the dump. *)
Fail(t) ==
    /\ fault = "bug"
    /\ At(t) \in {"collect", "write", "inventory", "query", "dump"}
    /\ Move(t, "failed")
    /\ UNCHANGED <<fault, phase, lockVars, stateVars, waiterVars, wakeVars,
                   age, victim, svcVars>>

\* Mutant: every thread that fails writes a dump.
CrashFilterAll(t) ==
    /\ At(t) = "failed"
    /\ Move(t, "dumping") /\ crashing' = TRUE
    /\ dump' = [dump EXCEPT ![t] = "writing"]
    /\ UNCHANGED <<fault, phase, lockVars, stateVars, waiterVars, wakeVars,
                   age, victim, scm, ctl, gStop, cause>>

(* unhandled_filter and raise_and_dump: the first thread writes, any other
   sleeps for ever. *)
CrashFilter(t) ==
    /\ At(t) = "failed"
    /\ IF crashing
       THEN Move(t, "parked") /\ UNCHANGED <<crashing, dump>>
       ELSE /\ Move(t, "dumping") /\ crashing' = TRUE
            /\ dump' = [dump EXCEPT ![t] = "writing"]
    /\ UNCHANGED <<fault, phase, lockVars, stateVars, waiterVars, wakeVars,
                   age, victim, scm, ctl, gStop, cause>>

(* The process is gone, and its memory with it. *)
Gone(how) ==
    /\ phase' = "none" /\ Reset /\ cause' = how
    /\ ctl' = "idle" /\ gStop' = FALSE /\ crashing' = FALSE
    /\ UNCHANGED fault

(* The recovery policy of install(): restart twice, then stay down.  The count
   starts again after a day, so either may follow. *)
Die(how) == Gone(how) /\ scm' \in {"RESTART", "STOPPED"}

(* The dispatcher, on whose thread the handler runs, returns.  The manager
   judges the exit by the last status it was given. *)
ExitProcess ==
    /\ phase = "exit" /\ ctl \in {"idle", "returned"}
    /\ IF scm = "STOPPED"
       THEN Gone("clean") /\ UNCHANGED scm
       ELSE Die("clean")
    /\ UNCHANGED dump

(* What write_dump leaves: the dump, no file when CreateFileW fails, or a
   truncated one when MiniDumpWriteDump does. *)
Outcomes == {"complete", "refused", "truncated"}

(* The process ends however the dump came out. *)
CrashExit(t) ==
    /\ At(t) = "dumping"
    /\ \E left \in Outcomes : dump' = [dump EXCEPT ![t] = left]
    /\ Die("crash")

(* on_hang: write_now, which does not look at g_crashing, then _Exit(4). *)
HangExit ==
    /\ victim # NoOne
    /\ \E left \in Outcomes : dump' = [dump EXCEPT ![Watchdog] = left]
    /\ Die("hang")

---------------------------------------------------------------------------
Resting == phase = "none" /\ scm = "STOPPED" /\ UNCHANGED vars

ServiceStep ==
    \/ ServiceMain \/ ReportRunning \/ HandlerReports \/ HandlerSetsFlag
    \/ BodyStops \/ ReportStopped \/ ExitProcess \/ HangExit
    \/ \E t \in Threads : CrashFilter(t)

Next ==
    \/ (AgentStep /\ UNCHANGED svcVars)
    \/ ServiceStep \/ ScmStop
    \/ \E t \in Threads : Fail(t) \/ CrashExit(t)
    \/ Resting

Spec == Init /\ [][Next]_vars

(* A thread that can run does, time passes, and a hang dump ends.  Nothing is
   assumed of collection, the database, the reporter or the crash dump: they
   may take for ever. *)
FairSpec ==
    /\ Spec
    /\ WF_vars(PromptStep /\ UNCHANGED svcVars)
    /\ WF_vars((Start \/ StartFails) /\ UNCHANGED svcVars)
    /\ WF_vars(Tick /\ UNCHANGED svcVars)
    /\ WF_vars(ServiceStep)

---------------------------------------------------------------------------
(* The agent's state and that of the service around it keep to their values; no
   scope gets older than the age at which on_hang fires. *)
TypeOK ==
    /\ AgentTypeOK
    /\ scm \in {"START", "RESTART", "START_PENDING", "RUNNING", "STOP_PENDING",
                "STOPPED"}
    /\ ctl \in {"idle", "called", "reported", "returned"}
    /\ gStop \in BOOLEAN /\ crashing \in BOOLEAN
    /\ dump \in [Dumpers -> {"none", "writing"} \cup Outcomes]
    /\ cause \in {"none", "clean", "crash", "hang"}

(* The lock rule at agent.cpp:238, "never both at once": a thread that holds
   db_mu neither holds state_mu nor waits for it, and one that holds state_mu
   does not wait for db_mu.  Only the Deadlock fault breaks it. *)
NeverBoth ==
    fault # "deadlock" =>
        \A t \in Threads :
            /\ dbMu = t => stateMu # t /\ At(t) \notin {"state", "status_state", "hostname"}
            /\ stateMu = t => At(t) # "db"

(* status answers at once, whatever the database does (agent.cpp:397), and also
   when a thread dies with db_mu: its scope is never a tick old.  Only the
   Deadlock fault breaks this. *)
StatusPrompt ==
    fault # "deadlock" =>
        \A c \in Clients :
            hpc[c] \in {"status_state", "status_db", "status_read", "status_try",
                       "status_conn"} => age[c] = 0

(* The worker calls on_scan_complete on live waiters only, even when the
   handler has given up waiting (agent.cpp:458), and tells them of a scan that
   status already shows: the state is updated before anyone is notified. *)
DeliverySound ==
    /\ fault # "uaf" => \A i \in 1..Len(waiting) : waiting[i] \notin freed
    /\ \A c \in Clients : done[c] <= last

(* A client waiting for a scan is never what the watchdog takes for a hang:
   handle_scan keeps the wait inside the budget (agent.cpp:436). *)
WaitIsNoHang == victim \in Clients => hpc[victim] # "wait"

(* STOPPED is reported when no thread of the agent is left. *)
StoppedIsTrue ==
    (scm = "STOPPED" /\ phase # "none") =>
        wpc \in {"none", "gone"} /\ HandlersDone /\ dbMu = NoOne /\ stateMu = NoOne

(* STOPPED is the last word of a service that had started: the control handler
   does not report STOP_PENDING over it (service_windows.cpp:49). *)
StoppedIsLast ==
    [][(scm = "STOPPED" /\ wpc = "gone") => scm' = "STOPPED"]_vars

(* Two threads that fail do not spoil each other's crash dump ("another thread is
   already writing the crash dump; let it finish", crashdump_windows.cpp:84): one
   thread at most writes, and the process ends when that one is done with it.  The
   file may be truncated all the same, when MiniDumpWriteDump fails. *)
CrashDumpWhole ==
    /\ \A t, u \in Threads : dump[t] # "none" /\ dump[u] # "none" => t = u
    /\ cause = "crash" => \E t \in Threads : dump[t] \in Outcomes

(* A scan request is followed by the start of a scan, without waiting for the
   interval, also when it arrives while a scan is running, unless the process
   ends first. *)
RequestServed == \A c \in Clients : c \in owed ~> c \notin owed

(* A stop ends the process, also when the database, the collection or the
   cloud never answers: the watchdog is stopped last.  That the pipe server's
   own threads end is PipeServer's StopReturns. *)
StopEnds == (ctl = "called") ~> (phase = "none")

(* A cycle of the two locks, or a thread that died. *)
Wedged ==
    \/ \E t \in Threads : Down(t)
    \/ dbMu = Worker /\ wpc = "state" /\ \E c \in Clients : hpc[c] = "status_db"

(* Neither of them leaves the service up and doing nothing: the process ends,
   by the watchdog or by the crash filter, and the manager starts another. *)
WedgedEnds == Wedged ~> (phase = "none")
=============================================================================
