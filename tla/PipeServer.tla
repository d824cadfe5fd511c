----------------------------- MODULE PipeServer -----------------------------
(***************************************************************************)
(* ns::ipc on Windows (ipc_windows.cpp): the acceptor, a thread per        *)
(* connection, Server::stop, and the clients' call().                      *)
(*                                                                         *)
(* An instance of the pipe is NoPipe, Listening, or the client connected   *)
(* to it until the server closes its end.  A blocking call is entered in   *)
(* one step and returns in another, because CancelSynchronousIo does       *)
(* nothing to a thread that has not entered it yet.  Responses fit the     *)
(* pipe's buffer.  The handler is Agent's; `served`, which only status     *)
(* reads, is left out.                                                     *)
(***************************************************************************)
EXTENDS Integers

CONSTANTS
    Callers,        \* bound: calls made, numbered in the order they begin
    NoPipe,         \* an instance that does not exist
    Listening,      \* one that no client is connected to
    Self,           \* Server::stop, when it connects to its own pipe
    MaxInstances    \* kMaxInstances

Clients == 1..Callers

ASSUME PipeAssumption ==
    /\ Callers \in Nat /\ MaxInstances \in Nat \ {0, 1}
    /\ NoPipe # Listening /\ NoPipe # Self /\ Listening # Self
    /\ {NoPipe, Listening, Self} \cap Clients = {}

Instances == 1..MaxInstances

VARIABLES
    inst,           \* the instances
    apc,            \* where accept_loop is
    cur, prev,      \* its `instance` and `connected_instance`, 0 for none
    connected,      \* its `connected`
    clients,        \* `clients`: threads not joined yet, named by their client
    spc,            \* where the thread that serves a client is
    stopping,
    opc,            \* where start() and stop() are
    cpc,            \* where a call() is
    cinst,          \* the instance a client is connected to, 0 for none
    req, resp,      \* what the client has written and what it can read
    outcome          \* how the call ended

acceptVars == <<apc, cur, prev, connected>>
serverVars == <<inst, acceptVars, clients, spc>>
callVars == <<cpc, cinst, req, resp, outcome>>
vars == <<serverVars, stopping, opc, callVars>>

Init ==
    /\ inst = [i \in Instances |-> NoPipe]
    /\ apc = "none" /\ cur = 0 /\ prev = 0 /\ connected = FALSE
    /\ clients = {} /\ spc = [c \in Clients |-> "none"]
    /\ stopping = FALSE /\ opc = "new"
    /\ cpc = [c \in Clients |-> "idle"] /\ cinst = [c \in Clients |-> 0]
    /\ req = [c \in Clients |-> "none"] /\ resp = [c \in Clients |-> "none"]
    /\ outcome = [c \in Clients |-> "none"]

Idle == {i \in Instances : inst[i] = Listening}
Exists == \E i \in Instances : inst[i] # NoPipe

(* The two ends of a client's connection. *)
ServerOpen(c) == cinst[c] # 0 /\ inst[cinst[c]] = c
ClientOpen(c) == cpc[c] \in {"write", "read"}

Close(i) ==
    /\ inst' = [j \in Instances |-> IF j = i THEN NoPipe ELSE inst[j]]
    /\ cinst' = [c \in Clients |-> IF cinst[c] = i THEN 0 ELSE cinst[c]]

(* reap(false): join the threads that are done. *)
Unreaped(threads) == {c \in threads : spc[c] # "done"}

---------------------------------------------------------------------------
(* Server::start: the SDDL is parsed and the first instance created, or the
   name is taken. *)
Start ==
    /\ opc = "new"
    /\ inst' = [inst EXCEPT ![1] = Listening]
    /\ cur' = 1 /\ apc' = "loop" /\ opc' = "up"
    /\ UNCHANGED <<prev, connected, clients, spc, stopping, callVars>>

StartFails ==
    /\ opc = "new" /\ opc' = "failed"
    /\ UNCHANGED <<serverVars, stopping, callVars>>

---------------------------------------------------------------------------
(* accept_loop and next_instance *)

AcceptLoop ==
    /\ apc = "loop"
    /\ apc' = IF stopping \/ cur = 0 THEN "end" ELSE "call"
    /\ UNCHANGED <<inst, cur, prev, connected, clients, spc, stopping, opc, callVars>>

ConnectNamedPipe ==
    /\ apc = "call" /\ apc' = "blocked"
    /\ UNCHANGED <<inst, cur, prev, connected, clients, spc, stopping, opc, callVars>>

(* A client that has come and gone already is ERROR_NO_DATA. *)
Connected ==
    /\ apc = "blocked" /\ inst[cur] # Listening
    /\ connected' = (inst[cur] \in Clients /\ ClientOpen(inst[cur]))
    /\ apc' = "check"
    /\ UNCHANGED <<inst, cur, prev, clients, spc, stopping, opc, callVars>>

\* Mutant: the instance is handed off before the next one is created.
HandOffFirst ==
    /\ apc = "check"
    /\ IF stopping
       THEN apc' = "end" /\ UNCHANGED <<inst, cinst, cur, prev, clients, spc>>
       ELSE /\ apc' = "next" /\ prev' = 0 /\ cur' = 0
            /\ IF connected
               THEN /\ clients' = clients \cup {inst[cur]}
                    /\ spc' = [spc EXCEPT ![inst[cur]] = "start"]
                    /\ UNCHANGED <<inst, cinst>>
               ELSE Close(cur) /\ UNCHANGED <<clients, spc>>
    /\ connected' = FALSE
    /\ UNCHANGED <<stopping, opc, cpc, req, resp, outcome>>

CheckStopping ==
    /\ apc = "check"
    /\ IF stopping
       THEN apc' = "end" /\ UNCHANGED <<cur, prev>>
       ELSE apc' = "next" /\ prev' = cur /\ cur' = 0
    /\ UNCHANGED <<inst, connected, clients, spc, stopping, opc, callVars>>

(* create_instance succeeds below the limit. *)
FreeInstances == {i \in Instances : inst[i] = NoPipe}

NextInstance ==
    /\ apc = "next"
    /\ \E i \in FreeInstances :
          cur' = i /\ inst' = [inst EXCEPT ![i] = Listening]
    /\ apc' = "handoff"
    /\ UNCHANGED <<prev, connected, clients, spc, stopping, opc, callVars>>

(* ERROR_PIPE_BUSY, or any other error: wait and try again, unless stopping. *)
NextInstanceFails ==
    /\ apc = "next"
    /\ IF stopping
       THEN apc' = "handoff" /\ UNCHANGED clients
       ELSE clients' = Unreaped(clients) /\ UNCHANGED apc
    /\ UNCHANGED <<inst, cur, prev, connected, spc, stopping, opc, callVars>>

(* The connected instance gets its thread, or is closed; then reap(false). *)
HandOff ==
    /\ apc = "handoff"
    /\ IF connected
       THEN /\ clients' = Unreaped(clients) \cup {inst[prev]}
            /\ spc' = [spc EXCEPT ![inst[prev]] = "start"]
            /\ UNCHANGED <<inst, cinst>>
       ELSE Close(prev) /\ clients' = Unreaped(clients) /\ UNCHANGED spc
    /\ prev' = 0 /\ apc' = "loop" /\ connected' = FALSE
    /\ UNCHANGED <<cur, stopping, opc, cpc, req, resp, outcome>>

AcceptorEnds ==
    /\ apc = "end"
    /\ Close(cur) /\ apc' = "done" /\ cur' = 0 /\ connected' = FALSE
    /\ UNCHANGED <<prev, clients, spc, stopping, opc, cpc, req, resp, outcome>>

Acceptor ==
    \/ AcceptLoop \/ ConnectNamedPipe \/ Connected \/ CheckStopping
    \/ NextInstance \/ HandOff \/ AcceptorEnds

---------------------------------------------------------------------------
(* serve, on the thread of client c *)

ServeStep(c, from, to) ==
    /\ spc[c] = from /\ spc' = [spc EXCEPT ![c] = to]
    /\ UNCHANGED <<acceptVars, clients, stopping, opc>>

ReadRequest(c) == ServeStep(c, "start", "reading") /\ UNCHANGED <<inst, callVars>>

(* A request that is too large is answered and the pipe closed at once. *)
Read(c) ==
    \/ /\ req[c] = "sent"
       /\ ServeStep(c, "reading", "handle") /\ UNCHANGED <<inst, callVars>>
    \/ /\ req[c] = "too large"
       /\ ServeStep(c, "reading", "close")
       /\ resp' = [resp EXCEPT ![c] = IF ClientOpen(c) THEN "refusal" ELSE "none"]
       /\ UNCHANGED <<inst, cpc, cinst, req, outcome>>
    \/ /\ req[c] = "none" /\ ~ClientOpen(c)
       /\ ServeStep(c, "reading", "close") /\ UNCHANGED <<inst, callVars>>

\* Mutant: the server closes its end without waiting for the client.
HandleAndClose(c) ==
    /\ ServeStep(c, "handle", "close")
    /\ resp' = [resp EXCEPT ![c] = IF ClientOpen(c) THEN "answer" ELSE "none"]
    /\ UNCHANGED <<inst, cpc, cinst, req, outcome>>

(* The handler runs and its response is written, unless the client is gone. *)
Handle(c) ==
    /\ IF ClientOpen(c)
       THEN /\ ServeStep(c, "handle", "written")
            /\ resp' = [resp EXCEPT ![c] = "answer"]
       ELSE ServeStep(c, "handle", "close") /\ UNCHANGED resp
    /\ UNCHANGED <<inst, cpc, cinst, req, outcome>>

(* The read that waits for the client to close its end. *)
ReadSink(c) == ServeStep(c, "written", "sink") /\ UNCHANGED <<inst, callVars>>

SinkReturns(c) ==
    /\ ~ClientOpen(c)
    /\ ServeStep(c, "sink", "close") /\ UNCHANGED <<inst, callVars>>

\* Mutant: the handle is leaked.
CloseLeaks(c) ==
    ServeStep(c, "close", "done") /\ UNCHANGED <<inst, callVars>>

CloseHandle(c) ==
    /\ ServeStep(c, "close", "done")
    /\ Close(cinst[c]) /\ UNCHANGED <<cpc, req, resp, outcome>>

Serve(c) ==
    \/ ReadRequest(c) \/ Read(c) \/ Handle(c) \/ ReadSink(c)
    \/ SinkReturns(c) \/ CloseHandle(c)

---------------------------------------------------------------------------
(* Server::stop *)

StopBegins ==
    /\ opc = "up"
    /\ stopping' = TRUE /\ opc' = "wake"
    /\ UNCHANGED <<serverVars, callVars>>

\* Mutant: the acceptor is not woken.
JustWait ==
    /\ opc = "wake" /\ apc # "done"
    /\ UNCHANGED vars

(* Until the acceptor is done: cancel its call, and connect to the pipe. *)
WakeAcceptor ==
    /\ opc = "wake" /\ apc # "done"
    /\ IF apc = "blocked" THEN apc' = "check" /\ connected' = FALSE
                          ELSE UNCHANGED <<apc, connected>>
    /\ \/ \E i \in Idle : inst' = [inst EXCEPT ![i] = Self]
       \/ Idle = {} /\ UNCHANGED inst
    /\ UNCHANGED <<cur, prev, clients, spc, stopping, opc, callVars>>

JoinAcceptor ==
    /\ opc = "wake" /\ apc = "done" /\ opc' = "cancel"
    /\ UNCHANGED <<serverVars, stopping, callVars>>

(* Each thread's blocking call is cancelled, once. *)
CancelClients ==
    /\ opc = "cancel"
    /\ spc' = [c \in Clients |-> IF c \in clients /\ spc[c] \in {"reading", "sink"}
                                 THEN "close" ELSE spc[c]]
    /\ opc' = "reap"
    /\ UNCHANGED <<inst, acceptVars, clients, stopping, callVars>>

(* reap(true): join every thread. *)
ReapAll ==
    /\ opc = "reap" /\ Unreaped(clients) = {}
    /\ clients' = {} /\ opc' = "stopped"
    /\ UNCHANGED <<inst, acceptVars, spc, stopping, callVars>>

Stop == WakeAcceptor \/ JoinAcceptor \/ CancelClients \/ ReapAll

---------------------------------------------------------------------------
(* call() *)

Finish(c, how) ==
    /\ cpc' = [cpc EXCEPT ![c] = "closed"]
    /\ outcome' = [outcome EXCEPT ![c] = how]

Call(c) ==
    /\ cpc[c] = "idle" /\ (c > 1 => cpc[c - 1] # "idle")
    /\ cpc' = [cpc EXCEPT ![c] = "open"]
    /\ UNCHANGED <<serverVars, stopping, opc, cinst, req, resp, outcome>>

(* CreateFile *)
Open(c) ==
    /\ cpc[c] = "open"
    /\ \/ \E i \in Idle :
             /\ inst' = [inst EXCEPT ![i] = c] /\ cinst' = [cinst EXCEPT ![c] = i]
             /\ cpc' = [cpc EXCEPT ![c] = "write"] /\ UNCHANGED outcome
       \/ /\ Idle = {} /\ Exists
          /\ cpc' = [cpc EXCEPT ![c] = "busy"] /\ UNCHANGED <<inst, cinst, outcome>>
       \/ ~Exists /\ Finish(c, "not found") /\ UNCHANGED <<inst, cinst>>
    /\ UNCHANGED <<acceptVars, clients, spc, stopping, opc, req, resp>>

(* WaitNamedPipe *)
WaitPipe(c) ==
    /\ cpc[c] = "busy"
    /\ \/ /\ Idle # {}
          /\ cpc' = [cpc EXCEPT ![c] = "open"] /\ UNCHANGED outcome
       \/ ~Exists /\ Finish(c, "not found")
    /\ UNCHANGED <<serverVars, stopping, opc, cinst, req, resp>>

WriteRequest(c) ==
    /\ cpc[c] = "write"
    /\ IF ServerOpen(c)
       THEN /\ \E r \in {"sent", "too large"} : req' = [req EXCEPT ![c] = r]
            /\ cpc' = [cpc EXCEPT ![c] = "read"] /\ UNCHANGED outcome
       ELSE Finish(c, "broken") /\ UNCHANGED req
    /\ UNCHANGED <<serverVars, stopping, opc, cinst, resp>>

(* What the server wrote is lost to a client that has not read it when the
   server closes its end, or it is not. *)
ReadResponse(c) ==
    /\ cpc[c] = "read"
    /\ \/ resp[c] # "none" /\ Finish(c, resp[c])
       \/ ~ServerOpen(c) /\ Finish(c, "broken")
    /\ UNCHANGED <<serverVars, stopping, opc, cinst, req, resp>>

(* Each wait is bounded by timeout_ms, that for a write too large for the
   pipe's buffer included. *)
TimesOut(c) ==
    /\ \/ cpc[c] = "busy" /\ Idle = {}
       \/ cpc[c] = "write" /\ ServerOpen(c)
       \/ cpc[c] = "read" /\ resp[c] = "none" /\ ServerOpen(c)
    /\ Finish(c, "timeout")
    /\ UNCHANGED <<serverVars, stopping, opc, cinst, req, resp>>

CallSteps(c) == Open(c) \/ WaitPipe(c) \/ WriteRequest(c) \/ ReadResponse(c)

---------------------------------------------------------------------------
Resting == opc \in {"stopped", "failed"} /\ UNCHANGED vars

Next ==
    \/ Start \/ StartFails \/ Acceptor \/ NextInstanceFails
    \/ StopBegins \/ Stop
    \/ \E c \in Clients : Serve(c) \/ Call(c) \/ CallSteps(c) \/ TimesOut(c)
    \/ Resting

Spec == Init /\ [][Next]_vars

(* Threads run and handlers return; a creation that can succeed does in the
   end. *)
ServerFairness ==
    /\ WF_vars(Acceptor) /\ WF_vars(apc = "next" /\ stopping /\ NextInstanceFails)
    /\ WF_vars(Stop)
    /\ \A c \in Clients : WF_vars(Serve(c))

(* The clients run too, but no timeout need ever expire. *)
FairSpec == Spec /\ ServerFairness /\ \A c \in Clients : WF_vars(CallSteps(c))

---------------------------------------------------------------------------
(* Every part of the server and of its callers keeps to its values; start and
   the acceptor never make more than kMaxInstances instances of the pipe. *)
PipeTypeOK ==
    /\ inst \in [Instances -> {NoPipe, Listening, Self} \cup Clients]
    /\ apc \in {"none", "loop", "call", "blocked", "check", "next", "handoff",
                "end", "done"}
    /\ cur \in 0..MaxInstances /\ prev \in 0..MaxInstances
    /\ connected \in BOOLEAN /\ clients \subseteq Clients
    /\ spc \in [Clients -> {"none", "start", "reading", "handle", "written",
                            "sink", "close", "done"}]
    /\ stopping \in BOOLEAN
    /\ opc \in {"new", "failed", "up", "wake", "cancel", "reap", "stopped"}
    /\ cpc \in [Clients -> {"idle", "open", "busy", "write", "read", "closed"}]
    /\ cinst \in [Clients -> 0..MaxInstances]
    /\ req \in [Clients -> {"none", "sent", "too large"}]
    /\ resp \in [Clients -> {"none", "answer", "refusal"}]
    /\ outcome \in [Clients -> {"none", "answer", "refusal", "not found", "broken",
                               "timeout"}]

(* No client is told that there is no service while there is one: the pipe has
   an instance at any moment between start and stop (ipc_windows.cpp:202). *)
NeverNotFound ==
    [][opc = "up" => \A c \in Clients :
          outcome'[c] = "not found" => outcome[c] = "not found"]_vars

(* A client whose request was accepted loses the answer only to a stop: the
   server does not close before the client has read it (ipc_windows.cpp:169). *)
AnswerKept ==
    \A c \in Clients : outcome[c] = "broken" /\ req[c] = "sent" => stopping

(* Every call gets an answer, or learns that the pipe was closed, without any
   timeout: an accepted connection is served although the acceptor first waits
   for another free instance, and no instance is lost. *)
CallReturns == \A c \in Clients : cpc[c] = "open" ~> cpc[c] = "closed"

(* Once stop() has returned no thread of the server runs, so no handler is
   called on an agent that may be gone. *)
NoThreadLeft ==
    opc = "stopped" => apc = "done" /\ \A c \in Clients : spc[c] \in {"none", "done"}

(* stop() "stops accepting, cancels blocked I/O, joins every thread"
   (ipc.hpp:63): it returns, as long as clients close the connections they
   have read their answers from.  I/O is cancelled once, so a client that
   never closes could hold a thread that was still writing its answer. *)
StopReturns == (stopping ~> opc = "stopped") /\ []NoThreadLeft
=============================================================================
