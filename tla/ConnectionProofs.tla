-------------------------- MODULE ConnectionProofs --------------------------
(***************************************************************************)
(* Proofs about the agent's two kinds of connection.                       *)
(*                                                                         *)
(* Module PipeServer, for any number of callers and any limit on the       *)
(* pipe's instances: no client is told that there is no service while      *)
(* there is one, none loses its answer but to a stop, and a stop that has  *)
(* returned leaves no thread behind.                                       *)
(*                                                                         *)
(* Module Transport, for either TLS library, any number of batches and any *)
(* backoff: no body goes to a peer that is not pinned, every way out of    *)
(* post closes what it opened, a refusal is met once in a cycle, drain     *)
(* gives up within its attempts and delays, and post keeps its contract.   *)
(***************************************************************************)
EXTENDS PipeServer, Transport, WellFoundedInduction, TLAPS

\* How long, in seconds, the provers may take for a leaf.
USE SMTT(20), ZenonT(20)

-----------------------------------------------------------------------------
(* The pipe *)

\* The two ends of a connection belong together.
LinkInv ==
    /\ \A c \in Clients : cinst[c] # 0 =>
          inst[cinst[c]] = c /\ cpc[c] \in {"write", "read", "closed"}
    /\ \A i \in Instances : inst[i] \in Clients => cinst[inst[i]] = i

\* The acceptor's two instances exist and are its own: no thread serves them yet.
\* An instance it is about to close was left by its client, or the server stops.
AcceptInv ==
    /\ apc \in {"call", "blocked", "check"} => cur # 0
    /\ apc \in {"loop", "handoff"} => cur # 0 \/ stopping
    /\ apc \in {"none", "next", "done"} => cur = 0
    /\ apc \in {"next", "handoff"} <=> prev # 0
    /\ cur # 0 => inst[cur] # NoPipe /\ cur # prev
    /\ prev # 0 => inst[prev] \notin {NoPipe, Listening}
    /\ connected => \/ apc = "end"
                    \/ apc = "check" /\ inst[cur] \in Clients
                    \/ prev # 0 /\ inst[prev] \in Clients
    /\ ~stopping =>
          /\ apc # "end" /\ apc # "done"
          /\ apc = "check" =>
                inst[cur] \in Clients /\ (~connected => cpc[inst[cur]] = "closed")
          /\ prev # 0 => inst[prev] \in Clients /\ (~connected => cpc[inst[prev]] = "closed")
          /\ \A i \in Instances : inst[i] # Self
    /\ \A c \in Clients : spc[c] # "none" /\ cinst[c] # 0 => cinst[c] # cur /\ cinst[c] # prev

\* A thread serves a client that has connected, and closes its end early only when
\* the server stops or the request was refused.
ServeInv ==
    \A c \in Clients :
       /\ spc[c] # "none" => cpc[c] \in {"write", "read", "closed"}
       /\ spc[c] \notin {"none", "done"} => c \in clients
       /\ spc[c] \in {"close", "done"} /\ ~stopping => cpc[c] = "closed" \/ req[c] = "too large"

\* A call has no outcome before it ends, and keeps its connection until it has one.
CallInv ==
    \A c \in Clients :
       /\ cpc[c] \notin {"read", "closed"} => req[c] = "none"
       /\ cpc[c] # "closed" => outcome[c] = "none"
       /\ cpc[c] = "read" /\ req[c] = "sent" /\ ~stopping => cinst[c] # 0
       /\ outcome[c] = "broken" /\ req[c] = "sent" => stopping

\* stop() goes on only when the acceptor, and then every thread, has ended.
StoppedInv ==
    /\ stopping <=> opc \in {"wake", "cancel", "reap", "stopped"}
    /\ opc \in {"new", "failed"} <=> apc = "none"
    /\ apc = "none" => \A i \in Instances : inst[i] = NoPipe
    /\ opc \in {"cancel", "reap", "stopped"} => apc = "done"
    /\ opc = "stopped" => \A c \in Clients : spc[c] \in {"none", "done"}

PipeInv == PipeTypeOK /\ LinkInv /\ AcceptInv /\ ServeInv /\ CallInv /\ StoppedInv

-----------------------------------------------------------------------------
(* The constants *)

\* What an instance may hold, and which numbers name one.
LEMMA Kinds ==
    /\ NoPipe # Listening /\ NoPipe # Self /\ Listening # Self
    /\ NoPipe \notin Clients /\ Listening \notin Clients /\ Self \notin Clients
    /\ 0..MaxInstances = Instances \cup {0} /\ 0 \notin Instances /\ 1 \in Instances
  BY PipeAssumption DEF Instances

\* A connected client's instance is one, and is the client's.
LEMMA Linked ==
    ASSUME PipeTypeOK, LinkInv, NEW c \in Clients, cinst[c] # 0
    PROVE  cinst[c] \in Instances /\ inst[cinst[c]] = c /\ c \notin {NoPipe, Listening, Self}
<1>1. cinst[c] \in Instances
  BY Kinds, Zenon DEF PipeTypeOK
<1>2. inst[cinst[c]] = c
  BY DEF LinkInv
<1>3. c \notin {NoPipe, Listening, Self}
  BY Kinds
<1> QED
  BY <1>1, <1>2, <1>3

\* Closing an instance disconnects its client and nobody else.
LEMMA CloseIs ==
    ASSUME PipeTypeOK, LinkInv, NEW i \in 0..MaxInstances, Close(i)
    PROVE  /\ inst' \in [Instances -> {NoPipe, Listening, Self} \cup Clients]
           /\ cinst' \in [Clients -> 0..MaxInstances]
           /\ \A j \in Instances : j # i => inst'[j] = inst[j]
           /\ \A j \in Instances : inst'[j] # NoPipe => j # i
           /\ \A c \in Clients : cinst'[c] = IF cinst[c] = i THEN 0 ELSE cinst[c]
           /\ \A c \in Clients : cinst'[c] # cinst[c] => i # 0 /\ inst[i] = c
<1>1. \A j \in Instances : inst'[j] = IF j = i THEN NoPipe ELSE inst[j]
  BY DEF Close
<1>2. \A c \in Clients : cinst'[c] = IF cinst[c] = i THEN 0 ELSE cinst[c]
  BY DEF Close
<1>3. inst' \in [Instances -> {NoPipe, Listening, Self} \cup Clients]
  BY Zenon DEF Close, PipeTypeOK
<1>4. cinst' \in [Clients -> 0..MaxInstances]
  BY Kinds, Zenon DEF Close, PipeTypeOK
<1>5. \A c \in Clients : cinst'[c] # cinst[c] => i # 0 /\ inst[i] = c
  BY <1>2 DEF LinkInv
<1> QED
  BY <1>1, <1>2, <1>3, <1>4, <1>5

\* The links that are left belong together.
LEMMA CloseKeepsLinks ==
    ASSUME PipeTypeOK, LinkInv, NEW i \in 0..MaxInstances, Close(i), cpc' = cpc
    PROVE  LinkInv'
<1>1. ASSUME NEW c \in Clients, cinst'[c] # 0
      PROVE  inst'[cinst'[c]] = c /\ cpc[c] \in {"write", "read", "closed"}
  <2>1. cinst'[c] = cinst[c] /\ cinst[c] # i
    BY <1>1, CloseIs
  <2>2. cinst[c] \in Instances
    BY <1>1, <2>1, Kinds, Zenon DEF PipeTypeOK
  <2>3. inst'[cinst[c]] = inst[cinst[c]]
    BY <2>1, <2>2, CloseIs
  <2> QED
    BY <1>1, <2>1, <2>3 DEF LinkInv
<1>2. ASSUME NEW j \in Instances, inst'[j] \in Clients
      PROVE  cinst'[inst'[j]] = j
  <2>1. j # i
    BY <1>2, CloseIs, Kinds
  <2>2. inst'[j] = inst[j]
    BY <2>1, CloseIs
  <2>3. cinst[inst[j]] = j
    BY <1>2, <2>2 DEF LinkInv
  <2> QED
    BY <1>2, <2>1, <2>2, <2>3, CloseIs
<1> QED
  BY <1>1, <1>2 DEF LinkInv

-----------------------------------------------------------------------------
(* The acceptor *)

\* The steps of the acceptor that neither make nor close an instance.
LEMMA AcceptorWaits ==
    ASSUME PipeInv, AcceptLoop \/ ConnectNamedPipe \/ Connected \/ CheckStopping
                    \/ NextInstanceFails
    PROVE  PipeInv'
<1> USE DEF PipeInv
<1>1. /\ UNCHANGED <<inst, spc, stopping, opc, cpc, cinst, req, resp, outcome>>
      /\ apc \in {"loop", "call", "blocked", "check", "next"}
      /\ apc' \in {"end", "call", "blocked", "check", "next", "handoff"}
  BY DEF AcceptLoop, ConnectNamedPipe, Connected, CheckStopping, NextInstanceFails, callVars
<1>2. clients' \subseteq clients /\ \A c \in clients : spc[c] # "done" => c \in clients'
  BY DEF AcceptLoop, ConnectNamedPipe, Connected, CheckStopping, NextInstanceFails, Unreaped
<1>3. PipeTypeOK'
  <2>1. cur' \in 0..MaxInstances /\ prev' \in 0..MaxInstances /\ connected' \in BOOLEAN
    BY Kinds, Zenon DEF AcceptLoop, ConnectNamedPipe, Connected, CheckStopping, NextInstanceFails,
       PipeTypeOK
  <2> QED
    BY <1>1, <1>2, <2>1, Zenon DEF PipeTypeOK
<1>4. LinkInv' /\ ServeInv' /\ CallInv'
  BY <1>1, <1>2, Zenon DEF LinkInv, ServeInv, CallInv, PipeTypeOK
<1>5. StoppedInv'
  BY <1>1 DEF StoppedInv
<1>6. AcceptInv'
  <2>1. CASE AcceptLoop \/ ConnectNamedPipe
    BY <1>1, <2>1 DEF AcceptLoop, ConnectNamedPipe, AcceptInv
  <2>2. CASE Connected
    <3>1. /\ apc = "blocked" /\ apc' = "check" /\ inst[cur] # Listening
          /\ cur # 0 /\ prev = 0 /\ UNCHANGED <<cur, prev>>
          /\ connected' = (inst[cur] \in Clients /\ ClientOpen(inst[cur]))
      BY <2>2 DEF Connected, AcceptInv
    <3>2. cur \in Instances /\ inst[cur] # NoPipe
      BY <3>1, Kinds, Zenon DEF PipeTypeOK, AcceptInv
    <3>3. ~stopping => inst[cur] \in Clients
      BY <3>1, <3>2, Zenon DEF PipeTypeOK, AcceptInv
    <3>4. inst[cur] \in Clients => cpc[inst[cur]] \in {"write", "read", "closed"}
      <4>1. inst[cur] \in Clients => cinst[inst[cur]] = cur
        BY <3>2 DEF LinkInv
      <4> QED
        BY <3>1, <4>1 DEF LinkInv
    <3>5. ~stopping /\ ~connected' => cpc[inst[cur]] = "closed"
      BY <3>1, <3>3, <3>4, Zenon DEF ClientOpen
    <3>6. connected' => inst[cur] \in Clients
      BY <3>1, Zenon
    <3> QED
      BY <1>1, <3>1, <3>2, <3>3, <3>5, <3>6 DEF AcceptInv
  <2>3. CASE CheckStopping
    <3>1. CASE stopping
      BY <1>1, <2>3, <3>1 DEF CheckStopping, AcceptInv
    <3>2. CASE ~stopping
      <4>1. /\ apc = "check" /\ apc' = "next" /\ prev' = cur /\ cur' = 0 /\ cur # 0
            /\ connected' = connected
        BY <2>3, <3>2 DEF CheckStopping, AcceptInv
      <4>2. inst[cur] \in Clients
        BY <3>2, <4>1 DEF AcceptInv
      <4>3. inst[cur] \notin {NoPipe, Listening}
        BY <4>2, Kinds
      <4> QED
        BY <1>1, <3>2, <4>1, <4>2, <4>3 DEF AcceptInv
    <3> QED
      BY <3>1, <3>2
  <2>4. CASE NextInstanceFails
    BY <1>1, <2>4 DEF NextInstanceFails, AcceptInv
  <2> QED
    BY <2>1, <2>2, <2>3, <2>4
<1> QED
  BY <1>3, <1>4, <1>5, <1>6

\* The next instance is made before the connected one is handed off.
LEMMA NextInstanceKeeps ==
    ASSUME PipeInv, NextInstance
    PROVE  PipeInv'
<1> USE DEF PipeInv
<1>1. PICK i \in FreeInstances : cur' = i /\ inst' = [inst EXCEPT ![i] = Listening]
  BY Zenon DEF NextInstance
<1>2. /\ apc = "next" /\ apc' = "handoff"
      /\ UNCHANGED <<prev, connected, clients, spc, stopping, opc, cpc, cinst, req, resp, outcome>>
  BY DEF NextInstance, callVars
<1>3. i \in Instances /\ inst[i] = NoPipe /\ i # 0
  BY Kinds DEF FreeInstances
<1>4. inst'[i] = Listening /\ \A j \in Instances : j # i => inst'[j] = inst[j]
  BY <1>1, <1>3, Zenon DEF PipeTypeOK
<1>5. PipeTypeOK'
  BY <1>1, <1>2, <1>3, Kinds, Zenon DEF PipeTypeOK
<1>6. \A c \in Clients : cinst[c] # i
  BY <1>3, Kinds DEF LinkInv
<1>7. LinkInv'
  <2>1. ASSUME NEW c \in Clients, cinst[c] # 0
        PROVE  inst'[cinst[c]] = c /\ cpc[c] \in {"write", "read", "closed"}
    <3>1. cinst[c] \in Instances
      BY <2>1, Kinds, ZenonT(30) DEF PipeTypeOK
    <3>2. inst'[cinst[c]] = inst[cinst[c]]
      BY <1>4, <1>6, <3>1
    <3> QED
      BY <2>1, <3>2 DEF LinkInv
  <2>2. ASSUME NEW j \in Instances, inst'[j] \in Clients
        PROVE  cinst[inst'[j]] = j
    <3>1. inst'[j] = inst[j]
      BY <1>4, <2>2, Kinds
    <3> QED
      BY <2>2, <3>1 DEF LinkInv
  <2> QED
    BY <1>2, <2>1, <2>2 DEF LinkInv
<1>8. ServeInv' /\ CallInv' /\ StoppedInv'
  BY <1>2, Zenon DEF ServeInv, CallInv, StoppedInv
<1>9. AcceptInv'
  <2>1. prev # 0 /\ prev \in Instances /\ inst[prev] \notin {NoPipe, Listening}
    BY <1>2, Kinds, Zenon DEF AcceptInv, PipeTypeOK
  <2>2. prev # i /\ inst'[prev] = inst[prev]
    BY <1>3, <1>4, <2>1
  <2>3. ~stopping => \A j \in Instances : inst'[j] # Self
    BY <1>4, Kinds DEF AcceptInv
  <2>4. inst'[i] # NoPipe
    BY <1>4, Kinds
  <2> QED
    BY <1>1, <1>2, <1>3, <1>6, <2>1, <2>2, <2>3, <2>4 DEF AcceptInv
<1> QED
  BY <1>5, <1>7, <1>8, <1>9

\* The connected instance gets its thread, or is closed because nobody is there.
LEMMA HandOffKeeps ==
    ASSUME PipeInv, HandOff
    PROVE  PipeInv'
<1> USE DEF PipeInv
<1>1. /\ apc = "handoff" /\ apc' = "loop" /\ prev' = 0 /\ connected' = FALSE
      /\ UNCHANGED <<cur, stopping, opc, cpc, req, resp, outcome>>
  BY DEF HandOff
<1>2. /\ prev # 0 /\ prev \in Instances /\ cur # prev /\ prev \in 0..MaxInstances
      /\ inst[prev] \notin {NoPipe, Listening}
  BY <1>1, Kinds, Zenon DEF AcceptInv, PipeTypeOK
<1>3. CASE connected
  <2> DEFINE c == inst[prev]
  <2>1. /\ clients' = Unreaped(clients) \cup {c} /\ spc' = [spc EXCEPT ![c] = "start"]
        /\ UNCHANGED <<inst, cinst>>
    BY <1>3 DEF HandOff
  <2>2. c \in Clients
    BY <1>1, <1>3 DEF AcceptInv
  <2>3. cinst[c] = prev
    BY <1>2, <2>2 DEF LinkInv
  <2> HIDE DEF c
  <2>4. spc[c] = "none"
    BY <1>2, <2>2, <2>3 DEF AcceptInv
  <2>5. spc'[c] = "start" /\ \A d \in Clients : d # c => spc'[d] = spc[d]
    BY <2>1, <2>2, Zenon DEF PipeTypeOK
  <2>6. PipeTypeOK'
    BY <1>1, <2>1, <2>2, Kinds, Zenon DEF PipeTypeOK, Unreaped
  <2>7. LinkInv' /\ CallInv'
    BY <1>1, <2>1 DEF LinkInv, CallInv
  <2>8. ServeInv'
    <3>1. cpc[c] \in {"write", "read", "closed"}
      BY <1>2, <2>2, <2>3 DEF LinkInv
    <3> QED
      BY <1>1, <2>1, <2>5, <3>1, Zenon DEF ServeInv, Unreaped
  <2>9. StoppedInv'
    <3>1. opc \notin {"cancel", "reap", "stopped"}
      BY <1>1 DEF StoppedInv
    <3> QED
      BY <1>1, <3>1 DEF StoppedInv
  <2>10. AcceptInv'
    <3>1. \A d \in Clients : spc'[d] # "none" /\ cinst[d] # 0 => cinst[d] # cur
      BY <1>2, <2>3, <2>5 DEF AcceptInv
    <3> QED
      BY <1>1, <1>2, <2>1, <3>1 DEF AcceptInv
  <2> QED
    BY <2>6, <2>7, <2>8, <2>9, <2>10
<1>4. CASE ~connected
  <2>1. Close(prev) /\ clients' = Unreaped(clients) /\ UNCHANGED spc
    BY <1>4 DEF HandOff
  <2>2. /\ inst' \in [Instances -> {NoPipe, Listening, Self} \cup Clients]
        /\ cinst' \in [Clients -> 0..MaxInstances]
        /\ \A j \in Instances : j # prev => inst'[j] = inst[j]
        /\ \A j \in Instances : inst'[j] # NoPipe => j # prev
        /\ \A c \in Clients : cinst'[c] = IF cinst[c] = prev THEN 0 ELSE cinst[c]
        /\ \A c \in Clients : cinst'[c] # cinst[c] => inst[prev] = c
    BY <1>2, <2>1, CloseIs
  <2>3. PipeTypeOK'
    BY <1>1, <2>1, <2>2, Kinds, Zenon DEF PipeTypeOK, Unreaped
  <2>4. LinkInv'
    BY <1>1, <1>2, <2>1, CloseKeepsLinks
  <2>5. ServeInv'
    BY <1>1, <2>1, Zenon DEF ServeInv, Unreaped
  <2>6. CallInv'
    <3>1. \A c \in Clients : ~stopping /\ cpc[c] = "read" => cinst'[c] = cinst[c]
      BY <1>2, <1>4, <2>2 DEF AcceptInv
    <3> QED
      BY <1>1, <3>1 DEF CallInv
  <2>7. StoppedInv'
    BY <1>1, <2>1 DEF StoppedInv
  <2>8. AcceptInv'
    <3>1. cur # 0 => cur \in Instances /\ inst'[cur] = inst[cur]
      BY <1>2, <2>2, Kinds, Zenon DEF PipeTypeOK
    <3>2. \A c \in Clients : cinst'[c] # 0 => cinst'[c] = cinst[c]
      BY <2>2
    <3>3. ~stopping => \A j \in Instances : inst'[j] # Self
      BY <2>2, Kinds DEF AcceptInv
    <3> QED
      BY <1>1, <1>2, <2>1, <3>1, <3>2, <3>3 DEF AcceptInv
  <2> QED
    BY <2>3, <2>4, <2>5, <2>6, <2>7, <2>8
<1> QED
  BY <1>3, <1>4

\* The acceptor closes the instance it was listening on, when the server stops.
LEMMA AcceptorEndsKeeps ==
    ASSUME PipeInv, AcceptorEnds
    PROVE  PipeInv'
<1> USE DEF PipeInv
<1>1. /\ apc = "end" /\ apc' = "done" /\ cur' = 0 /\ connected' = FALSE /\ Close(cur)
      /\ UNCHANGED <<prev, clients, spc, stopping, opc, cpc, req, resp, outcome>>
  BY DEF AcceptorEnds
<1>2. stopping /\ prev = 0 /\ cur \in 0..MaxInstances
  BY <1>1, Zenon DEF AcceptInv, PipeTypeOK
<1>3. /\ inst' \in [Instances -> {NoPipe, Listening, Self} \cup Clients]
      /\ cinst' \in [Clients -> 0..MaxInstances]
  BY <1>1, <1>2, CloseIs
<1>4. PipeTypeOK'
  BY <1>1, <1>3, Kinds, Zenon DEF PipeTypeOK
<1>5. LinkInv'
  BY <1>1, <1>2, CloseKeepsLinks
<1>6. ServeInv' /\ CallInv'
  BY <1>1, <1>2 DEF ServeInv, CallInv
<1>7. StoppedInv'
  BY <1>1 DEF StoppedInv
<1>8. AcceptInv'
  <2>1. \A c \in Clients : cinst'[c] # 0 => cinst'[c] = cinst[c]
    BY <1>1, <1>2, CloseIs
  <2> QED
    BY <1>1, <1>2, <2>1 DEF AcceptInv
<1> QED
  BY <1>4, <1>5, <1>6, <1>7, <1>8

-----------------------------------------------------------------------------
(* Start and stop *)

\* The first instance is made before the acceptor runs.
LEMMA StartKeeps ==
    ASSUME PipeInv, Start
    PROVE  PipeInv'
<1> USE DEF PipeInv
<1>1. /\ opc = "new" /\ inst' = [inst EXCEPT ![1] = Listening]
      /\ cur' = 1 /\ apc' = "loop" /\ opc' = "up"
      /\ UNCHANGED <<prev, connected, clients, spc, stopping, cpc, cinst, req, resp, outcome>>
  BY DEF Start, callVars
<1>2. apc = "none" /\ ~stopping /\ prev = 0 /\ ~connected /\ cur = 0
  BY <1>1 DEF StoppedInv, AcceptInv
<1>3. \A i \in Instances : inst[i] = NoPipe
  BY <1>2 DEF StoppedInv
<1>4. \A c \in Clients : cinst[c] = 0
  BY <1>3, Linked
<1>5. inst'[1] = Listening /\ \A j \in Instances : j = 1 \/ inst'[j] = NoPipe
  BY <1>1, <1>3, Kinds, Zenon DEF PipeTypeOK
<1>6. PipeTypeOK'
  BY <1>1, Kinds, Zenon DEF PipeTypeOK
<1>7. ServeInv' /\ CallInv'
  BY <1>1, ZenonT(30) DEF ServeInv, CallInv
<1>10. LinkInv'
  <2>1. \A j \in Instances : inst'[j] \notin Clients
    BY <1>5, Kinds
  <2> QED
    BY <1>1, <1>4, <2>1 DEF LinkInv
<1>8. StoppedInv'
  BY <1>1, <1>2, Zenon DEF StoppedInv
<1>9. AcceptInv'
  BY <1>1, <1>2, <1>4, <1>5, Kinds DEF AcceptInv
<1> QED
  BY <1>6, <1>7, <1>8, <1>9, <1>10

\* The steps of start() and stop() that neither make nor take an instance.
LEMMA OwnerKeeps ==
    ASSUME PipeInv, StartFails \/ StopBegins \/ JoinAcceptor \/ CancelClients \/ ReapAll
    PROVE  PipeInv'
<1> USE DEF PipeInv
<1>1. /\ UNCHANGED <<inst, apc, cur, prev, connected, cpc, cinst, req, resp, outcome>>
      /\ (stopping' <=> stopping) \/ stopping'
  BY DEF StartFails, StopBegins, JoinAcceptor, CancelClients, ReapAll, serverVars, acceptVars,
     callVars
<1>2. CASE StartFails \/ StopBegins \/ JoinAcceptor
  <2>1. /\ UNCHANGED <<clients, spc>> /\ stopping' \in BOOLEAN
        /\ opc' \in {"failed", "wake", "cancel"}
        /\ \/ opc = "new" /\ opc' = "failed" /\ stopping' = stopping
           \/ opc = "up" /\ opc' = "wake" /\ stopping' = TRUE
           \/ opc = "wake" /\ opc' = "cancel" /\ apc = "done" /\ stopping' = stopping
    BY <1>2, Zenon DEF StartFails, StopBegins, JoinAcceptor, serverVars, PipeTypeOK
  <2>2. PipeTypeOK'
    BY <1>1, <2>1, ZenonT(30) DEF PipeTypeOK
  <2>3. LinkInv' /\ AcceptInv'
    BY <1>1, <2>1 DEF LinkInv, AcceptInv
  <2>4. ServeInv' /\ CallInv'
    BY <1>1, <2>1, Zenon DEF ServeInv, CallInv
  <2>5. StoppedInv'
    BY <1>1, <2>1 DEF StoppedInv
  <2> QED
    BY <2>2, <2>3, <2>4, <2>5
<1>3. CASE CancelClients
  <2>1. /\ opc = "cancel" /\ opc' = "reap" /\ UNCHANGED <<clients, stopping>>
        /\ spc' = [c \in Clients |-> IF c \in clients /\ spc[c] \in {"reading", "sink"}
                                     THEN "close" ELSE spc[c]]
    BY <1>3 DEF CancelClients
  <2>2. stopping /\ apc = "done"
    BY <2>1 DEF StoppedInv
  <2>3. \A c \in Clients :
           spc'[c] = spc[c] \/ (spc[c] \in {"reading", "sink"} /\ spc'[c] = "close")
    BY <2>1
  <2>4. PipeTypeOK'
    BY <1>1, <2>1, Zenon DEF PipeTypeOK
  <2>5. LinkInv' /\ CallInv'
    BY <1>1, <2>1 DEF LinkInv, CallInv
  <2>6. ServeInv'
    BY <1>1, <2>1, <2>2, <2>3 DEF ServeInv
  <2>7. AcceptInv'
    BY <1>1, <2>1, <2>3 DEF AcceptInv
  <2>8. StoppedInv'
    BY <1>1, <2>1, <2>2 DEF StoppedInv
  <2> QED
    BY <2>4, <2>5, <2>6, <2>7, <2>8
<1>4. CASE ReapAll
  <2>1. /\ opc = "reap" /\ opc' = "stopped" /\ clients' = {} /\ UNCHANGED <<spc, stopping>>
        /\ \A c \in clients : spc[c] = "done"
    BY <1>4 DEF ReapAll, Unreaped
  <2>2. \A c \in Clients : spc[c] \in {"none", "done"}
    BY <2>1, Zenon DEF ServeInv
  <2>3. PipeTypeOK'
    BY <1>1, <2>1, ZenonT(30) DEF PipeTypeOK
  <2>4. LinkInv' /\ CallInv' /\ AcceptInv'
    BY <1>1, <2>1 DEF LinkInv, CallInv, AcceptInv
  <2>5. ServeInv'
    BY <1>1, <2>1, <2>2, Zenon DEF ServeInv
  <2>6. StoppedInv'
    BY <1>1, <2>1, <2>2 DEF StoppedInv
  <2> QED
    BY <2>3, <2>4, <2>5, <2>6
<1> QED
  BY <1>2, <1>3, <1>4

\* stop() connects to its own pipe and cancels the acceptor's call.
LEMMA WakeKeeps ==
    ASSUME PipeInv, WakeAcceptor
    PROVE  PipeInv'
<1> USE DEF PipeInv
<1>1. /\ opc = "wake" /\ apc # "done"
      /\ UNCHANGED <<cur, prev, clients, spc, stopping, opc, cpc, cinst, req, resp, outcome>>
      /\ \/ apc = "blocked" /\ apc' = "check" /\ connected' = FALSE
         \/ apc # "blocked" /\ apc' = apc /\ connected' = connected
  BY DEF WakeAcceptor, callVars
<1>2. stopping /\ apc # "none"
  BY <1>1 DEF StoppedInv
<1>3. /\ inst' \in [Instances -> {NoPipe, Listening, Self} \cup Clients]
      /\ \A j \in Instances : inst'[j] = inst[j] \/ (inst[j] = Listening /\ inst'[j] = Self)
  BY Zenon DEF WakeAcceptor, Idle, PipeTypeOK
<1>4. PipeTypeOK'
  BY <1>1, <1>3, Zenon DEF PipeTypeOK
<1>5. LinkInv'
  <2>1. ASSUME NEW c \in Clients, cinst[c] # 0
        PROVE  inst'[cinst[c]] = c
    <3>1. cinst[c] \in Instances /\ inst[cinst[c]] = c /\ c # Listening
      BY <2>1, Linked
    <3> QED
      BY <1>3, <3>1
  <2>2. ASSUME NEW j \in Instances, inst'[j] \in Clients
        PROVE  inst'[j] = inst[j]
    BY <1>3, <2>2, Kinds
  <2> QED
    BY <1>1, <2>1, <2>2 DEF LinkInv
<1>6. ServeInv' /\ CallInv'
  BY <1>1, Zenon DEF ServeInv, CallInv
<1>7. StoppedInv'
  BY <1>1, <1>2 DEF StoppedInv
<1>8. AcceptInv'
  <2>1. /\ cur # 0 => cur \in Instances
        /\ prev # 0 => prev \in Instances
    BY Kinds, Zenon DEF PipeTypeOK
  <2>2. /\ cur # 0 => inst'[cur] # NoPipe /\ (inst[cur] \in Clients => inst'[cur] = inst[cur])
        /\ prev # 0 => inst'[prev] = inst[prev]
    BY <1>3, <2>1, Kinds DEF AcceptInv
  <2> QED
    BY <1>1, <1>2, <2>2 DEF AcceptInv
<1> QED
  BY <1>4, <1>5, <1>6, <1>7, <1>8

-----------------------------------------------------------------------------
(* The threads that serve *)

\* The steps of a thread before it closes its end.
LEMMA ServeKeeps ==
    ASSUME PipeInv, NEW c \in Clients,
           ReadRequest(c) \/ Read(c) \/ Handle(c) \/ ReadSink(c) \/ SinkReturns(c)
    PROVE  PipeInv'
<1> USE DEF PipeInv
<1>1. PICK to \in {"reading", "handle", "written", "sink", "close"} : spc' = [spc EXCEPT ![c] = to]
  BY Zenon DEF ReadRequest, Read, Handle, ReadSink, SinkReturns, ServeStep
<1>2. /\ UNCHANGED <<inst, apc, cur, prev, connected, clients, stopping, opc, cpc, cinst, req,
                     outcome>>
      /\ spc[c] \notin {"none", "done"}
  BY Zenon DEF ReadRequest, Read, Handle, ReadSink, SinkReturns, ServeStep, acceptVars, callVars
<1>3. resp' \in [Clients -> {"none", "answer", "refusal"}]
  BY Zenon DEF ReadRequest, Read, Handle, ReadSink, SinkReturns, callVars, PipeTypeOK
<1>4. spc'[c] = to /\ \A d \in Clients : d # c => spc'[d] = spc[d]
  BY <1>1, Zenon DEF PipeTypeOK
<1>5. to = "close" => ~ClientOpen(c) \/ req[c] = "too large"
  BY <1>4, Zenon DEF ReadRequest, Read, Handle, ReadSink, SinkReturns, ServeStep, PipeTypeOK
<1>6. PipeTypeOK'
  BY <1>1, <1>2, <1>3, ZenonT(30) DEF PipeTypeOK
<1>7. LinkInv' /\ CallInv'
  BY <1>2, Zenon DEF LinkInv, CallInv
<1>8. ServeInv'
  <2>1. cpc[c] \in {"write", "read", "closed"}
    BY <1>2, Zenon DEF ServeInv
  <2> QED
    BY <1>2, <1>4, <1>5, <2>1, Zenon DEF ServeInv, ClientOpen
<1>9. AcceptInv'
  BY <1>2, <1>4 DEF AcceptInv
<1>10. StoppedInv'
  BY <1>2, <1>4, Zenon DEF StoppedInv
<1> QED
  BY <1>6, <1>7, <1>8, <1>9, <1>10

\* A thread closes the connection it served, which is no longer the acceptor's.
LEMMA CloseHandleKeeps ==
    ASSUME PipeInv, NEW c \in Clients, CloseHandle(c)
    PROVE  PipeInv'
<1> USE DEF PipeInv
<1> DEFINE i == cinst[c]
<1>1. /\ spc[c] = "close" /\ spc' = [spc EXCEPT ![c] = "done"] /\ Close(i)
      /\ UNCHANGED <<apc, cur, prev, connected, clients, stopping, opc, cpc, req, resp, outcome>>
  BY DEF CloseHandle, ServeStep, acceptVars
<1>2. i \in 0..MaxInstances
  BY Zenon DEF PipeTypeOK
<1>3. i # 0 => i \in Instances /\ i # cur /\ i # prev /\ inst[i] = c
  <2>1. i # 0 => i \in Instances /\ inst[i] = c
    BY Linked, Zenon
  <2>2. i # 0 => i # cur /\ i # prev
    BY <1>1 DEF AcceptInv
  <2> QED
    BY <2>1, <2>2
<1>4. spc'[c] = "done" /\ \A d \in Clients : d # c => spc'[d] = spc[d]
  BY <1>1, Zenon DEF PipeTypeOK
<1> HIDE DEF i
<1>5. /\ inst' \in [Instances -> {NoPipe, Listening, Self} \cup Clients]
      /\ cinst' \in [Clients -> 0..MaxInstances]
      /\ \A j \in Instances : j # i => inst'[j] = inst[j]
      /\ \A j \in Instances : inst'[j] # NoPipe => j # i
      /\ \A d \in Clients : cinst'[d] = IF cinst[d] = i THEN 0 ELSE cinst[d]
      /\ \A d \in Clients : cinst'[d] # cinst[d] => i # 0 /\ inst[i] = d
  BY <1>1, <1>2, CloseIs
<1>6. PipeTypeOK'
  BY <1>1, <1>5, Zenon DEF PipeTypeOK
<1>7. LinkInv'
  BY <1>1, <1>2, CloseKeepsLinks
<1>8. ServeInv'
  BY <1>1, <1>4, Zenon DEF ServeInv
<1>9. CallInv'
  <2>1. \A d \in Clients : d # c => cinst'[d] = cinst[d]
    BY <1>3, <1>5
  <2>2. ~stopping => cpc[c] = "closed" \/ req[c] = "too large"
    BY <1>1, ZenonT(30) DEF ServeInv
  <2> QED
    BY <1>1, <2>1, <2>2, Zenon DEF CallInv
<1>10. AcceptInv'
  <2>1. /\ cur # 0 => inst'[cur] = inst[cur] /\ cur \in Instances
        /\ prev # 0 => inst'[prev] = inst[prev] /\ prev \in Instances
    BY <1>3, <1>5, Kinds, Zenon DEF PipeTypeOK
  <2>2. \A d \in Clients : /\ cinst'[d] # 0 => cinst'[d] = cinst[d]
                           /\ spc'[d] # "none" => spc[d] # "none"
    BY <1>1, <1>4, <1>5, Zenon
  <2>3. ~stopping => \A j \in Instances : inst'[j] # Self
    BY <1>5, Kinds, ZenonT(30) DEF AcceptInv
  <2> QED
    BY <1>1, <2>1, <2>2, <2>3 DEF AcceptInv
<1>11. StoppedInv'
  <2>1. apc = "none" => \A j \in Instances : inst'[j] = NoPipe
    BY <1>5 DEF StoppedInv
  <2> QED
    BY <1>1, <1>4, <2>1, Zenon DEF StoppedInv
<1> QED
  BY <1>6, <1>7, <1>8, <1>9, <1>10, <1>11

-----------------------------------------------------------------------------
(* The callers *)

\* A client that opens the pipe takes an idle instance.
LEMMA OpenKeeps ==
    ASSUME PipeInv, NEW c \in Clients, NEW i \in Idle, cpc[c] = "open",
           inst' = [inst EXCEPT ![i] = c], cinst' = [cinst EXCEPT ![c] = i],
           cpc' = [cpc EXCEPT ![c] = "write"],
           UNCHANGED <<apc, cur, prev, connected, clients, spc, stopping, opc, req, resp, outcome>>
    PROVE  PipeInv'
<1> USE DEF PipeInv
<1>1. i \in Instances /\ inst[i] = Listening /\ i # 0 /\ i \in 0..MaxInstances
  BY Kinds DEF Idle
<1>2. /\ inst'[i] = c /\ \A j \in Instances : j # i => inst'[j] = inst[j]
      /\ cinst'[c] = i /\ \A d \in Clients : d # c => cinst'[d] = cinst[d]
      /\ cpc'[c] = "write" /\ \A d \in Clients : d # c => cpc'[d] = cpc[d]
  BY <1>1, Zenon DEF PipeTypeOK
<1>3. spc[c] = "none" /\ cinst[c] = 0 /\ req[c] = "none" /\ outcome[c] = "none"
  BY Zenon DEF ServeInv, LinkInv, CallInv
<1>4. PipeTypeOK'
  BY <1>1, Zenon DEF PipeTypeOK
<1>5. LinkInv'
  <2>1. ASSUME NEW d \in Clients, d # c, cinst[d] # 0
        PROVE  inst'[cinst[d]] = d /\ cpc'[d] \in {"write", "read", "closed"}
    <3>1. cinst[d] \in Instances /\ inst[cinst[d]] = d /\ d # Listening
      BY <2>1, Linked
    <3>2. cinst[d] # i
      BY <1>1, <3>1
    <3> QED
      BY <1>2, <2>1, <3>1, <3>2, Zenon DEF LinkInv
  <2>2. ASSUME NEW j \in Instances, j # i, inst[j] \in Clients
        PROVE  cinst'[inst[j]] = j
    <3>1. cinst[inst[j]] = j
      BY <2>2 DEF LinkInv
    <3>2. inst[j] # c
      BY <1>1, <1>3, <3>1, Kinds
    <3> QED
      BY <1>2, <2>2, <3>1, <3>2
  <2> QED
    BY <1>1, <1>2, <2>1, <2>2 DEF LinkInv
<1>6. ServeInv'
  BY <1>2, <1>3, Zenon DEF ServeInv
<1>7. CallInv'
  BY <1>2, <1>3 DEF CallInv
<1>8. StoppedInv'
  <2>1. apc # "none"
    BY <1>1, Kinds, ZenonT(30) DEF StoppedInv
  <2> QED
    BY <2>1 DEF StoppedInv
<1>9. AcceptInv'
  <2>1. /\ cur # 0 => cur \in Instances
        /\ prev # 0 => prev \in Instances /\ prev # i
    BY <1>1, Kinds, Zenon DEF PipeTypeOK, AcceptInv
  <2>2. /\ cur # 0 => inst'[cur] # NoPipe /\ (inst[cur] \in Clients => inst'[cur] = inst[cur])
        /\ prev # 0 => inst'[prev] = inst[prev]
    <3>1. ASSUME NEW j \in Instances PROVE j = i \/ inst'[j] = inst[j]
      BY <1>2, Zenon
    <3>2. inst[i] \notin Clients /\ inst'[i] = c /\ c # NoPipe
      BY <1>1, <1>2, Kinds, Zenon
    <3>3. cur # 0 => inst[cur] # NoPipe
      BY DEF AcceptInv
    <3> QED
      BY <2>1, <3>1, <3>2, <3>3, Zenon
  <2>3. \A d \in Clients : cpc[d] = "closed" => cpc'[d] = "closed"
    BY <1>2
  <2>4. ~stopping => \A j \in Instances : inst'[j] # Self
    BY <1>2, Kinds DEF AcceptInv
  <2>5. \A d \in Clients : spc[d] # "none" /\ cinst'[d] # 0 => cinst'[d] # cur /\ cinst'[d] # prev
    BY <1>2, <1>3 DEF AcceptInv
  <2>6. apc = "check" => cur # 0
    BY DEF AcceptInv
  <2> QED
    BY <2>2, <2>3, <2>4, <2>5, <2>6, Zenon DEF AcceptInv
<1> QED
  BY <1>4, <1>5, <1>6, <1>7, <1>8, <1>9

\* The other steps of a call move it on and leave the server alone.
LEMMA CallKeeps ==
    ASSUME PipeInv, NEW c \in Clients,
           Call(c) \/ Open(c) \/ WaitPipe(c) \/ WriteRequest(c) \/ ReadResponse(c) \/ TimesOut(c)
    PROVE  PipeInv'
<1> USE DEF PipeInv
<1>1. CASE \E i \in Idle : /\ cpc[c] = "open"
                           /\ inst' = [inst EXCEPT ![i] = c] /\ cinst' = [cinst EXCEPT ![c] = i]
                           /\ cpc' = [cpc EXCEPT ![c] = "write"]
                           /\ UNCHANGED <<apc, cur, prev, connected, clients, spc, stopping, opc,
                                          req, resp, outcome>>
  BY <1>1, OpenKeeps, Zenon
<1>2. CASE ~\E i \in Idle : /\ cpc[c] = "open"
                            /\ inst' = [inst EXCEPT ![i] = c] /\ cinst' = [cinst EXCEPT ![c] = i]
                            /\ cpc' = [cpc EXCEPT ![c] = "write"]
                            /\ UNCHANGED <<apc, cur, prev, connected, clients, spc, stopping, opc,
                                           req, resp, outcome>>
  <2>1. /\ UNCHANGED <<inst, cinst, apc, cur, prev, connected, clients, spc, stopping, opc, resp>>
        /\ \/ /\ cpc[c] \in {"idle", "open", "busy"} /\ UNCHANGED <<req, outcome>>
              /\ \E to \in {"open", "busy"} : cpc' = [cpc EXCEPT ![c] = to]
           \/ /\ cpc[c] = "write" /\ ServerOpen(c) /\ UNCHANGED outcome
              /\ cpc' = [cpc EXCEPT ![c] = "read"]
              /\ \E q \in {"sent", "too large"} : req' = [req EXCEPT ![c] = q]
           \/ /\ cpc[c] \in {"open", "busy", "write", "read"} /\ UNCHANGED req
              /\ \E how \in {"not found", "broken", "timeout", resp[c]} :
                    /\ Finish(c, how)
                    /\ how = resp[c] => resp[c] # "none"
                    /\ how = "broken" => ~ServerOpen(c)
    <3>1. CASE Call(c) \/ WaitPipe(c)
      BY <3>1, Zenon DEF Call, WaitPipe, serverVars, acceptVars, PipeTypeOK
    <3>2. CASE Open(c)
      BY <1>2, <3>2, Zenon DEF Open, serverVars, acceptVars, PipeTypeOK
    <3>3. CASE WriteRequest(c)
      BY <3>3, Zenon DEF WriteRequest, serverVars, acceptVars, PipeTypeOK
    <3>4. CASE ReadResponse(c)
      BY <3>4, Zenon DEF ReadResponse, serverVars, acceptVars, PipeTypeOK
    <3>5. CASE TimesOut(c)
      BY <3>5, Zenon DEF TimesOut, serverVars, acceptVars, PipeTypeOK
    <3> QED
      BY <3>1, <3>2, <3>3, <3>4, <3>5, Zenon
  <2>2. cpc[c] # "closed" /\ outcome[c] = "none"
    BY <2>1, Zenon DEF CallInv
  <2>3. PICK to \in {"open", "busy", "read", "closed"} : cpc' = [cpc EXCEPT ![c] = to]
    BY <2>1, Zenon DEF Finish
  <2>4. cpc'[c] = to /\ \A d \in Clients : d # c => cpc'[d] = cpc[d]
    BY <2>3, Zenon DEF PipeTypeOK
  <2>5. to \in {"open", "busy"} => cpc[c] \in {"idle", "open", "busy"}
    BY <2>1, <2>4, Zenon DEF Finish, PipeTypeOK
  <2>6. /\ req' \in [Clients -> {"none", "sent", "too large"}]
        /\ \A d \in Clients : d # c => req'[d] = req[d] /\ outcome'[d] = outcome[d]
        /\ outcome' \in [Clients -> {"none", "answer", "refusal", "not found", "broken",
                                    "timeout"}]
    <3>1. req' = req \/ \E q \in {"sent", "too large"} : req' = [req EXCEPT ![c] = q]
      BY <2>1, Zenon
    <3>2. /\ req' \in [Clients -> {"none", "sent", "too large"}]
          /\ \A d \in Clients : d # c => req'[d] = req[d]
      <4>1. req \in [Clients -> {"none", "sent", "too large"}]
        BY Zenon DEF PipeTypeOK
      <4>2. ASSUME NEW q \in {"sent", "too large"}, req' = [req EXCEPT ![c] = q]
            PROVE  /\ req' \in [Clients -> {"none", "sent", "too large"}]
                   /\ \A d \in Clients : d # c => req'[d] = req[d]
        BY <4>1, <4>2, Zenon
      <4> QED
        BY <3>1, <4>1, <4>2, Zenon
    <3>3. outcome' = outcome \/ \E how \in {"answer", "refusal", "not found", "broken", "timeout"} :
                                outcome' = [outcome EXCEPT ![c] = how]
      <4>1. resp[c] \in {"none", "answer", "refusal"}
        BY Zenon DEF PipeTypeOK
      <4> QED
        BY <2>1, <4>1, Zenon DEF Finish
    <3>4. /\ outcome' \in [Clients -> {"none", "answer", "refusal", "not found", "broken",
                                      "timeout"}]
          /\ \A d \in Clients : d # c => outcome'[d] = outcome[d]
      <4> DEFINE Results == {"none", "answer", "refusal", "not found", "broken", "timeout"}
      <4>1. outcome \in [Clients -> Results]
        BY Zenon DEF PipeTypeOK
      <4>2. ASSUME NEW how \in Results, outcome' = [outcome EXCEPT ![c] = how]
            PROVE  /\ outcome' \in [Clients -> Results]
                   /\ \A d \in Clients : d # c => outcome'[d] = outcome[d]
        BY <4>1, <4>2, Zenon
      <4> QED
        BY <3>3, <4>1, <4>2, Zenon
    <3> QED
      BY <3>2, <3>4, Zenon
  <2>7. PipeTypeOK'
    BY <2>1, <2>3, <2>6, ZenonT(30) DEF PipeTypeOK
  <2>8. LinkInv'
    BY <2>1, <2>4, <2>5, Zenon DEF LinkInv
  <2>9. ServeInv'
    <3>1. spc[c] # "none" => to \in {"read", "closed"}
      BY <2>5, Zenon DEF ServeInv
    <3>2. spc[c] \in {"close", "done"} /\ ~stopping => req'[c] = "too large" \/ to = "closed"
      <4>1. spc[c] \in {"close", "done"} /\ ~stopping => req[c] = "too large"
        BY <2>2, Zenon DEF ServeInv
      <4>2. req[c] = "too large" => cpc[c] = "read"
        BY <2>2, Zenon DEF CallInv
      <4> QED
        BY <2>1, <2>4, <4>1, <4>2, Zenon DEF Finish, PipeTypeOK
    <3> QED
      BY <2>1, <2>4, <2>6, <3>1, <3>2, Zenon DEF ServeInv
  <2>10. CallInv'
    <3>1. /\ to \notin {"read", "closed"} => req'[c] = "none"
          /\ to # "closed" => outcome'[c] = "none"
      BY <2>1, <2>2, <2>4, ZenonT(30) DEF CallInv, Finish, PipeTypeOK
    <3>2. to = "read" => cinst[c] # 0
      BY <2>1, <2>4, Zenon DEF Finish, ServerOpen, PipeTypeOK
    <3>3. outcome'[c] = "broken" => req'[c] = req[c] /\ ~ServerOpen(c)
      BY <2>1, <2>2, <2>6, ZenonT(30) DEF Finish, PipeTypeOK
    <3>4. outcome'[c] = "broken" /\ req'[c] = "sent" => stopping
      <4>1. ~ServerOpen(c) => cinst[c] = 0
        BY Zenon DEF ServerOpen, LinkInv
      <4>2. req[c] = "sent" => cpc[c] = "read"
        BY <2>2, Zenon DEF CallInv
      <4> QED
        BY <3>3, <4>1, <4>2, Zenon DEF CallInv
    <3> QED
      BY <2>1, <2>4, <2>6, <3>1, <3>2, <3>4, ZenonT(30) DEF CallInv
  <2>11. StoppedInv'
    BY <2>1, Zenon DEF StoppedInv
  <2>12. AcceptInv'
    <3>1. \A d \in Clients : cpc[d] = "closed" => cpc'[d] = "closed"
      BY <2>2, <2>4, Zenon
    <3> QED
      BY <2>1, <3>1, Zenon DEF AcceptInv
  <2> QED
    BY <2>7, <2>8, <2>9, <2>10, <2>11, <2>12
<1> QED
  BY <1>1, <1>2

-----------------------------------------------------------------------------
(* The theorems *)

\* The inductive invariant of the server, its threads and its callers.
THEOREM PipeInvariance == Spec => []PipeInv
<1>1. Init => PipeInv
  <2> SUFFICES ASSUME Init PROVE PipeInv
    OBVIOUS
  <2>1. PipeTypeOK
    BY Kinds, Zenon DEF Init, PipeTypeOK
  <2>2. LinkInv /\ AcceptInv /\ ServeInv /\ CallInv /\ StoppedInv
    BY Kinds DEF Init, LinkInv, AcceptInv, ServeInv, CallInv, StoppedInv
  <2> QED
    BY <2>1, <2>2 DEF PipeInv
<1>2. PipeInv /\ [Next]_vars => PipeInv'
  <2> SUFFICES ASSUME PipeInv, [Next]_vars PROVE PipeInv'
    OBVIOUS
  <2>1. CASE UNCHANGED vars
    BY <2>1, ZenonT(30) DEF vars, serverVars, acceptVars, callVars, PipeInv, PipeTypeOK, LinkInv, AcceptInv,
       ServeInv, CallInv, StoppedInv
  <2>2. CASE Start \/ StartFails \/ StopBegins \/ Stop
    BY <2>2, StartKeeps, OwnerKeeps, WakeKeeps DEF Stop
  <2>3. CASE Acceptor \/ NextInstanceFails
    BY <2>3, AcceptorWaits, NextInstanceKeeps, HandOffKeeps, AcceptorEndsKeeps DEF Acceptor
  <2>4. ASSUME NEW c \in Clients, Serve(c) \/ Call(c) \/ CallSteps(c) \/ TimesOut(c)
        PROVE  PipeInv'
    BY <2>4, ServeKeeps, CloseHandleKeeps, CallKeeps DEF Serve, CallSteps
  <2> QED
    BY <2>1, <2>2, <2>3, <2>4 DEF Next, Resting
<1> QED
  BY <1>1, <1>2, PTL DEF Spec

\* A client whose request was accepted loses its answer only to a stop.
THEOREM AnswersKept == Spec => []AnswerKept
<1>1. PipeInv => AnswerKept
  BY Zenon DEF PipeInv, CallInv, AnswerKept
<1> QED
  BY <1>1, PipeInvariance, PTL

\* Between start and stop the pipe always has an instance, so no client is told that
\* there is no service.
THEOREM AlwaysFound == Spec => NeverNotFound
<1> DEFINE Found == opc = "up" => \A c \in Clients :
                       outcome'[c] = "not found" => outcome[c] = "not found"
<1>1. PipeInv /\ opc = "up" => Exists
  <2> SUFFICES ASSUME PipeInv, opc = "up" PROVE Exists
    OBVIOUS
  <2>1. ~stopping /\ apc # "none"
    BY DEF PipeInv, StoppedInv
  <2>2. cur # 0 \/ prev # 0
    BY <2>1, Zenon DEF PipeInv, AcceptInv, PipeTypeOK
  <2>3. CASE cur # 0
    BY <2>3, Kinds, Zenon DEF PipeInv, PipeTypeOK, AcceptInv, Exists
  <2>4. CASE prev # 0
    BY <2>4, Kinds, Zenon DEF PipeInv, PipeTypeOK, AcceptInv, Exists
  <2> QED
    BY <2>2, <2>3, <2>4
<1>2. PipeInv /\ [Next]_vars => [Found]_vars
  <2> SUFFICES ASSUME PipeInv, [Next]_vars, opc = "up", NEW c \in Clients,
                      outcome'[c] = "not found", outcome[c] # "not found"
               PROVE  FALSE
    BY Zenon DEF Found
  <2>1. Exists /\ PipeTypeOK
    BY <1>1, Zenon DEF PipeInv
  <2>2. outcome' # outcome
    BY Zenon
  <2>3. PICK d \in Clients : Call(d) \/ CallSteps(d) \/ TimesOut(d)
    BY <2>2, Zenon DEF Next, Resting, vars, Start, StartFails, Acceptor, AcceptLoop, ConnectNamedPipe,
       Connected, CheckStopping, NextInstance, HandOff, AcceptorEnds, NextInstanceFails,
       StopBegins, Stop, WakeAcceptor, JoinAcceptor, CancelClients, ReapAll, Serve, ReadRequest,
       Read, Handle, ReadSink, SinkReturns, CloseHandle, callVars
  <2>4. PICK how : /\ outcome' = [outcome EXCEPT ![d] = how]
                   /\ how \in {"broken", "timeout"} \/ (how = resp[d] /\ resp[d] # "none")
    BY <2>1, <2>2, <2>3, Zenon DEF Call, CallSteps, Open, WaitPipe, WriteRequest, ReadResponse, TimesOut,
       Finish
  <2>5. how # "not found"
    BY <2>1, <2>4, Zenon DEF PipeTypeOK
  <2> QED
    BY <2>1, <2>4, <2>5, Zenon DEF PipeTypeOK
<1> QED
  BY <1>2, PipeInvariance, PTL DEF Spec, NeverNotFound, Found

\* Once stop() has returned, neither the acceptor nor any thread of a client runs.
THEOREM StopLeavesNone == Spec => []NoThreadLeft
<1>1. PipeInv => NoThreadLeft
  BY DEF PipeInv, StoppedInv, NoThreadLeft
<1> QED
  BY <1>1, PipeInvariance, PTL

-----------------------------------------------------------------------------
(* The way of a batch to the cloud *)

\* The steps of post in this build.
Posting ==
    CASE backend = "winhttp" -> {"session", "connect", "request", "attach", "handshake",
                                 "pin", "write", "response"}
      [] backend = "openssl" -> {"dial", "ssl", "handshake", "pin", "write", "response"}
      [] backend = "none"    -> {"no backend"}

\* What post has opened before a step.
Opened ==
    CASE pc = "connect" -> {"session"}
      [] pc = "request" -> {"session", "connect"}
      [] pc = "ssl"     -> {"dial"}
      [] pc \in {"attach", "handshake", "pin", "write", "response"} ->
            IF backend = "winhttp" THEN {"session", "connect", "request"} ELSE {"dial", "ssl"}
      [] OTHER          -> {}

\* The connection: where post is, what it holds and whom it talks to.
ConnInv ==
    /\ backend \in {"winhttp", "openssl", "none"}
    /\ pc \in {"init", "refused", "idle", "drain", "answer", "sleep"} \cup Posting
    /\ handles = Opened
    /\ pc = "pin" => peer \in {"pinned", "other"}
    /\ NoBodyUnpinned
    /\ refusals \in {0, 1}
    /\ refusals = 1 => pc = "idle" \/ (pc = "answer" /\ result = "permanent")

\* The queue and the cloud: a post is about the first batch of the queue, and an
\* answer of ok about one the cloud has.
QueueInv ==
    /\ rejected \subseteq Batches /\ stored \subseteq Batches \ rejected
    /\ queue \in [first : Nat \ {0}, last : 0..MaxBatches] /\ queue.first <= queue.last + 1
    /\ pc \in Posting \cup {"answer"} => queue.first <= queue.last
    /\ pc = "answer" => /\ result \in {"ok", "retry", "permanent"}
                        /\ result = "ok" => queue.first \in stored

\* Each post is paid for by an attempt, each slice by the ceiling of a delay.
EffortInv ==
    /\ delay \in Nat /\ posts \in Nat /\ slept \in Nat /\ attempt \in 0..MaxAttempts
    /\ pc \in Posting \cup {"drain", "answer", "sleep"} => attempt < MaxAttempts
    /\ pc \in Posting \cup {"answer"} => posts <= attempt + 1
    /\ pc \in {"drain", "sleep"} => posts <= attempt
    /\ pc \in Posting \cup {"drain", "answer"} => slept + DelaysAfter[attempt] <= DelaysAfter[0]
    /\ pc = "sleep" => slept + delay + DelaysAfter[attempt] <= DelaysAfter[0]
    /\ posts <= MaxAttempts /\ slept <= DelaysAfter[0]

-----------------------------------------------------------------------------
(* The connection *)

\* The order of the calls in each build.
LEMMA Order ==
    /\ backend = "winhttp" =>
          /\ Steps[1] = "session" /\ Then("session") = "connect" /\ Then("connect") = "request"
          /\ Then("request") = "attach" /\ Then("attach") = "handshake"
          /\ Then("handshake") = "pin" /\ Then("pin") = "write" /\ Then("write") = "response"
    /\ backend = "openssl" =>
          /\ Steps[1] = "dial" /\ Then("dial") = "ssl" /\ Then("ssl") = "handshake"
          /\ Then("handshake") = "pin" /\ Then("pin") = "write" /\ Then("write") = "response"
    /\ backend = "none" => Steps[1] = "no backend"
<1>1. CASE backend = "winhttp"
  <2>1. /\ Steps[1] = "session" /\ Then("session") = "connect" /\ Then("connect") = "request"
        /\ Then("request") = "attach"
    BY <1>1 DEF Then, Steps
  <2>2. /\ Then("attach") = "handshake" /\ Then("handshake") = "pin"
    BY <1>1 DEF Then, Steps
  <2>3. Then("pin") = "write" /\ Then("write") = "response"
    BY <1>1 DEF Then, Steps
  <2> QED
    BY <1>1, <2>1, <2>2, <2>3
<1>2. CASE backend = "openssl"
  <2>1. /\ Steps[1] = "dial" /\ Then("dial") = "ssl" /\ Then("ssl") = "handshake"
    BY <1>2 DEF Then, Steps
  <2>2. /\ Then("handshake") = "pin" /\ Then("pin") = "write" /\ Then("write") = "response"
    BY <1>2 DEF Then, Steps
  <2> QED
    BY <1>2, <2>1, <2>2
<1>3. CASE backend = "none"
  BY <1>3 DEF Steps
<1> QED
  BY <1>1, <1>2, <1>3, Zenon

\* An answer that says what happened: ok for a batch that is stored, and permanent
\* when the peer or the batch was refused.
TrueAnswer(answer) ==
    /\ answer \in {"ok", "retry", "permanent"}
    /\ answer = "ok" => queue.first \in stored /\ stored' = stored
    /\ refusals' = refusals \/ (refusals' = refusals + 1 /\ answer = "permanent")

\* Every way out of post closes exactly what has been opened by then.
LEMMA ReturnCloses ==
    ASSUME ConnInv, pc \in Posting, NEW answer, Return(answer)
    PROVE  handles' = {} /\ pc' = "answer" /\ result' = answer /\ peer' = "none"
<1>1. Opened \ Closes(pc) = {}
  <2>1. CASE backend = "winhttp"
    BY <2>1 DEF ConnInv, Posting, Opened, Closes
  <2>2. CASE backend = "openssl"
    BY <2>2 DEF ConnInv, Posting, Opened, Closes
  <2>3. CASE backend = "none"
    BY <2>3, Zenon DEF ConnInv, Posting, Opened, Closes
  <2> QED
    BY <2>1, <2>2, <2>3 DEF ConnInv
<1> QED
  BY <1>1 DEF Return, ConnInv

\* In the middle of post nothing has been refused.
LEMMA NotYetRefused ==
    ASSUME ConnInv, pc \in Posting
    PROVE  refusals = 0 /\ pc \notin {"init", "refused", "idle", "drain", "answer", "sleep"}
  BY Zenon DEF ConnInv, Posting

\* A refusal leaves post as a permanent failure.
LEMMA ReturnKeeps ==
    ASSUME ConnInv, pc \in Posting, UNCHANGED backend, NEW answer, Return(answer),
           TrueAnswer(answer)
    PROVE  ConnInv'
<1>1. handles' = {} /\ pc' = "answer" /\ result' = answer /\ peer' = "none"
  BY ReturnCloses
<1>2. refusals' = 0 \/ (refusals' = 1 /\ result' = "permanent")
  BY <1>1, NotYetRefused DEF TrueAnswer
<1>3. refusals' \in {0, 1} /\ (refusals' = 1 => result' = "permanent")
  BY <1>2
<1> QED
  BY <1>1, <1>3, Zenon DEF ConnInv, Opened, NoBodyUnpinned

\* The calls of post, one by one.
LEMMA CallStepKeeps ==
    ASSUME ConnInv, CallSucceeds \/ Handshake
    PROVE  ConnInv' /\ pc' \in Posting
<1>1. backend' = backend /\ refusals' = refusals /\ backend \in {"winhttp", "openssl", "none"}
  BY DEF CallSucceeds, Handshake, ConnInv, env
<1>0. refusals' = 0
  BY <1>1, NotYetRefused, Zenon DEF CallSucceeds, Handshake, ConnInv, Posting, Opening
<1>2. CASE backend = "winhttp"
  <2>1. /\ pc \in {"session", "connect", "request", "attach", "handshake"}
        /\ pc' = Then(pc) /\ handles = Opened
        /\ handles' = IF pc \in Opening THEN handles \cup {pc} ELSE handles
        /\ pc = "handshake" => peer' \in {"pinned", "other"}
    BY <1>2 DEF CallSucceeds, Handshake, GoesOn, ConnInv, Posting, Opening
  <2> QED
    BY <1>0, <1>1, <1>2, <2>1, Order, ZenonT(30) DEF ConnInv, Posting, Opened, Opening, NoBodyUnpinned
<1>3. CASE backend = "openssl"
  <2>1. /\ pc \in {"dial", "ssl", "handshake"}
        /\ pc' = Then(pc) /\ handles = Opened
        /\ handles' = IF pc \in Opening THEN handles \cup {pc} ELSE handles
        /\ pc = "handshake" => peer' \in {"pinned", "other"}
    BY <1>3 DEF CallSucceeds, Handshake, GoesOn, ConnInv, Posting, Opening
  <2> QED
    BY <1>0, <1>1, <1>3, <2>1, Order, Zenon DEF ConnInv, Posting, Opened, Opening, NoBodyUnpinned
<1>4. CASE backend = "none"
  BY <1>4, Zenon DEF CallSucceeds, Handshake, ConnInv, Posting, Opening
<1> QED
  BY <1>1, <1>2, <1>3, <1>4

\* The peer's certificate has matched, or the body is out: on to the next call.
LEMMA OnwardKeeps ==
    ASSUME ConnInv, pc \in {"pin", "write"}, peer = "pinned", pc' = Then(pc),
           UNCHANGED <<backend, handles, peer, refusals>>
    PROVE  ConnInv' /\ pc' \in Posting
<1>1. backend \in {"winhttp", "openssl"} /\ pc' \in {"write", "response"} /\ pc \in Posting
  BY Order, Zenon DEF ConnInv, Posting
<1>2. refusals' = 0
  BY <1>1, NotYetRefused
<1> QED
  BY <1>1, <1>2, Zenon DEF ConnInv, Posting, Opened, NoBodyUnpinned

\* Each way out returns an answer that is true.
LEMMA WaysOut ==
    ASSUME ConnInv, PostSteps, pc' = "answer"
    PROVE  \E answer : Return(answer) /\ TrueAnswer(answer)
<1>1. CASE CallSucceeds \/ Handshake
  BY <1>1, CallStepKeeps, Zenon DEF Posting, ConnInv
<1>2. CASE CallFails
  <2>1. Return(Failure(pc)) /\ TrueAnswer(Failure(pc))
    BY <1>2, Zenon DEF CallFails, Failure, Opening, TrueAnswer
  <2> QED
    BY <2>1
<1>3. CASE VerifyPin
  <2>1. Then("pin") # "answer"
    BY <1>3, Order, Zenon DEF VerifyPin, ConnInv, Posting
  <2>2. Return(Failure("pin")) /\ refusals' = refusals + 1
    BY <1>3, <2>1 DEF VerifyPin, GoesOn
  <2>3. TrueAnswer(Failure("pin"))
    BY <2>2 DEF Failure, TrueAnswer
  <2> QED
    BY <2>2, <2>3
<1>4. CASE WriteBody
  <2>1. Then("write") # "answer"
    BY <1>4, Order, Zenon DEF WriteBody, ConnInv, Posting
  <2>2. Return(Failure("write"))
    BY <1>4, <2>1 DEF WriteBody, GoesOn
  <2>3. TrueAnswer(Failure("write"))
    BY <1>4 DEF WriteBody, Failure, TrueAnswer
  <2> QED
    BY <2>2, <2>3
<1>5. CASE Answered
  <2>1. PICK status \in Statuses :
           Return(Classify(status)) /\ refusals' = IF status = 400 THEN refusals + 1 ELSE refusals
    BY <1>5 DEF Answered
  <2>2. status \in {200, 400, 429, 500} /\ (status = 200 => queue.first \in stored)
    BY DEF Statuses
  <2>3. stored' = stored
    BY <1>5 DEF Answered
  <2>4. TrueAnswer(Classify(status))
    BY <2>1, <2>2, <2>3 DEF Classify, TrueAnswer
  <2> QED
    BY <2>1, <2>4
<1>6. CASE NoResponse
  <2>1. Return(Failure("response"))
    BY <1>6 DEF NoResponse
  <2>2. TrueAnswer(Failure("response"))
    BY <1>6 DEF NoResponse, Failure, TrueAnswer
  <2> QED
    BY <2>1, <2>2
<1>7. CASE CutResponse
  <2>1. PICK status \in {0, 2, 20} : Return(Classify(status))
    BY <1>7 DEF CutResponse
  <2>2. TrueAnswer(Classify(status))
    BY <1>7 DEF CutResponse, Classify, TrueAnswer
  <2> QED
    BY <2>1, <2>2
<1>8. CASE NoBackend
  <2>1. Return(Failure("no backend"))
    BY <1>8, Zenon DEF NoBackend
  <2>2. TrueAnswer(Failure("no backend"))
    BY <1>8, ZenonT(30) DEF NoBackend, Failure, TrueAnswer
  <2> QED
    BY <2>1, <2>2, Zenon
<1> QED
  BY <1>1, <1>2, <1>3, <1>4, <1>5, <1>6, <1>7, <1>8 DEF PostSteps

\* A step of post goes on to another call or returns.
LEMMA PostStepIs ==
    ASSUME ConnInv, PostSteps
    PROVE  /\ pc \in Posting /\ UNCHANGED <<backend, rejected, drain, stop>>
           /\ ConnInv'
           /\ pc' \in Posting \cup {"answer"}
<1>1. pc \in Posting /\ UNCHANGED <<backend, rejected, drain, stop>>
  BY Zenon DEF PostSteps, CallSucceeds, CallFails, Handshake, VerifyPin, WriteBody, Answered,
         NoResponse, CutResponse, NoBackend, ConnInv, Opening, Posting, env
<1>2. CASE pc' = "answer"
  BY <1>1, <1>2, WaysOut, ReturnKeeps
<1>3. CASE pc' # "answer"
  <2>1. CASE CallSucceeds \/ Handshake
    BY <1>1, <2>1, CallStepKeeps
  <2>2. CASE ~(CallSucceeds \/ Handshake)
    <3>1. /\ pc \in {"pin", "write"} /\ peer = "pinned" /\ pc' = Then(pc)
          /\ UNCHANGED <<backend, handles, peer, refusals>>
      BY <1>3, <2>2, Zenon DEF PostSteps, CallFails, VerifyPin, WriteBody, Answered,
         NoResponse, CutResponse, NoBackend, GoesOn, Return, conn, env, ConnInv, NoBodyUnpinned
    <3> QED
      BY <1>1, <3>1, OnwardKeeps
  <2> QED
    BY <2>1, <2>2
<1> QED
  BY <1>1, <1>2, <1>3

\* The steps of drain leave the connection alone.
LEMMA DrainStepKeeps ==
    ASSUME ConnInv, StartCycle \/ Drain \/ Commit \/ GivesUp \/ Retry \/ Sleep
    PROVE  ConnInv'
<1>1. /\ UNCHANGED <<backend, handles, peer>> /\ pc \in {"idle", "drain", "answer", "sleep"}
      /\ pc' \in {"idle", "drain", "sleep", Steps[1]}
  BY DEF StartCycle, Drain, Commit, GivesUp, Retry, Sleep, env, conn
<1>2. Steps[1] \in {"session", "dial", "no backend"} /\ Steps[1] \in Posting
  BY Order, Zenon DEF ConnInv, Posting
<1>3. handles = {}
  BY <1>1 DEF ConnInv, Opened
<1>4. refusals' \in {0, 1} /\ (refusals' = 1 => pc' = "idle")
  <2>1. CASE StartCycle
    BY <2>1 DEF StartCycle
  <2>2. CASE Drain \/ Sleep
    <3>1. refusals' = refusals /\ pc \in {"drain", "sleep"}
      BY <2>2 DEF Drain, Sleep
    <3> QED
      BY <3>1 DEF ConnInv
  <2>3. CASE Commit \/ Retry
    <3>1. refusals' = refusals /\ pc = "answer" /\ result \in {"ok", "retry"}
      BY <2>3 DEF Commit, Retry
    <3> QED
      BY <3>1 DEF ConnInv
  <2>4. CASE GivesUp
    BY <2>4 DEF GivesUp, ConnInv
  <2> QED
    BY <2>1, <2>2, <2>3, <2>4
<1> QED
  BY <1>1, <1>2, <1>3, <1>4, Zenon DEF ConnInv, Posting, Opened, NoBodyUnpinned

\* Every step keeps the connection's invariant.
LEMMA ConnKeeps == ConnInv /\ [TransportNext]_tvars => ConnInv'
<1> SUFFICES ASSUME ConnInv, [TransportNext]_tvars PROVE ConnInv'
  OBVIOUS
<1>1. CASE Change \/ RequestStop \/ UNCHANGED tvars
  BY <1>1, Zenon DEF Change, RequestStop, tvars, env, conn, ConnInv, Opened, Posting, NoBodyUnpinned
<1>2. CASE MakeTransport
  <2>1. pc = "init" /\ pc' \in {"idle", "refused"} /\ UNCHANGED <<backend, conn, refusals>>
    BY <1>2, Zenon DEF MakeTransport
  <2> QED
    BY <2>1, Zenon DEF conn, ConnInv, Opened, Posting, NoBodyUnpinned
<1>3. CASE PostSteps
  BY <1>3, PostStepIs
<1>4. CASE StartCycle \/ Drain \/ Commit \/ GivesUp \/ Retry \/ Sleep
  BY <1>4, DrainStepKeeps
<1> QED
  BY <1>1, <1>2, <1>3, <1>4 DEF TransportNext, Work

\* It holds in every state.
THEOREM ConnInvariance == TransportSpec => []ConnInv
<1>1. TransportInit => ConnInv
  BY TransportAssumption DEF TransportInit, ConnInv, Opened, Posting, NoBodyUnpinned
<1> QED
  BY <1>1, ConnKeeps, PTL DEF TransportSpec

\* No byte of a batch goes to a server whose certificate has not matched the pin on
\* this very connection, in either TLS library and whatever fails on the way.
THEOREM BodyOnlyToPinned == TransportSpec => []NoBodyUnpinned
<1>1. ConnInv => NoBodyUnpinned
  BY DEF ConnInv
<1> QED
  BY <1>1, ConnInvariance, PTL

\* post leaves no handle open on any of its ways out, and a cycle meets one wrong
\* peer or one refused batch at most.
THEOREM WaysOutClean == TransportSpec => []EveryWayOut
<1>1. ConnInv => EveryWayOut
  BY DEF ConnInv, Opened, EveryWayOut
<1> QED
  BY <1>1, ConnInvariance, PTL

-----------------------------------------------------------------------------
(* The queue and the contract of post *)

\* A step of post is about the first batch of the queue.
LEMMA PostStores ==
    ASSUME ConnInv, QueueInv, PostSteps
    PROVE  /\ stored' \in {stored, stored \cup {queue.first}}
           /\ stored' \subseteq Batches \ rejected
           /\ pc' = "answer" => /\ result' \in {"ok", "retry", "permanent"}
                                /\ result' = "ok" => queue.first \in stored'
<1>1. pc \in Posting /\ queue.first <= queue.last
  BY PostStepIs DEF QueueInv
<1>4. queue.first \in Batches
  BY <1>1, TransportAssumption DEF QueueInv, Batches
<1>2. stored' = stored \/ (queue.first \notin rejected /\ stored' = stored \cup {queue.first})
  BY Zenon DEF PostSteps, CallSucceeds, CallFails, Handshake, VerifyPin, WriteBody, CloudStores,
         Answered, NoResponse, CutResponse, NoBackend
<1>3. ASSUME pc' = "answer"
      PROVE  result' \in {"ok", "retry", "permanent"} /\ (result' = "ok" => queue.first \in stored')
  <2>1. PICK answer : Return(answer) /\ TrueAnswer(answer)
    BY <1>3, WaysOut
  <2> QED
    BY <2>1, Zenon DEF Return, TrueAnswer
<1> QED
  BY <1>2, <1>3, <1>4 DEF QueueInv

\* post never goes past the queue, and what it answers ok is stored.
LEMMA QueueKeeps == ConnInv /\ QueueInv /\ [TransportNext]_tvars => QueueInv'
<1> SUFFICES ASSUME ConnInv, QueueInv, [TransportNext]_tvars PROVE QueueInv'
  OBVIOUS
<1>1. CASE Change \/ RequestStop \/ UNCHANGED tvars
  BY <1>1, Zenon DEF Change, RequestStop, tvars, env, drain, QueueInv, Posting
<1>2. CASE MakeTransport
  <2>1. pc' \in {"idle", "refused"} /\ UNCHANGED <<backend, rejected, stored, queue>>
    BY <1>2, Zenon DEF MakeTransport, drain
  <2>2. pc' \notin Posting /\ Posting' = Posting
    BY <2>1, Zenon DEF ConnInv, Posting
  <2> QED
    BY <2>1, <2>2 DEF QueueInv
<1>3. CASE PostSteps
  <2>1. pc \in Posting /\ UNCHANGED <<backend, rejected, queue>>
    BY <1>3, PostStepIs DEF drain
  <2>2. Posting' = Posting
    BY <2>1, Zenon DEF Posting
  <2> QED
    BY <1>3, <2>1, <2>2, PostStores DEF QueueInv
<1>4. CASE StartCycle
  <2>1. /\ pc' = "drain" /\ UNCHANGED <<backend, rejected, stored>>
        /\ queue' = queue \/ (queue.last < MaxBatches /\ queue' = [queue EXCEPT !.last = @ + 1])
    BY <1>4 DEF StartCycle, env
  <2>2. /\ queue' \in [first : Nat \ {0}, last : 0..MaxBatches]
        /\ queue'.first <= queue'.last + 1
    BY <2>1, TransportAssumption DEF QueueInv
  <2>3. pc' \notin Posting' \cup {"answer"}
    BY <2>1, Zenon DEF ConnInv, Posting
  <2> QED
    BY <2>1, <2>2, <2>3 DEF QueueInv
<1>5. CASE Drain
  <2>1. /\ UNCHANGED <<backend, rejected, stored, queue>>
        /\ pc' = "idle" \/ (pc' = Steps[1] /\ ~(queue.first > queue.last))
    BY <1>5 DEF Drain, env
  <2>2. Steps[1] # "answer"
    BY Order, Zenon DEF ConnInv
  <2>3. "idle" \notin Posting'
    BY <2>1, Zenon DEF ConnInv, Posting
  <2>4. ~(queue.first > queue.last) => queue.first <= queue.last
    BY DEF QueueInv
  <2> QED
    BY <2>1, <2>2, <2>3, <2>4 DEF QueueInv
<1>6. CASE Commit
  <2>1. /\ pc = "answer" /\ pc' \in {"drain", "idle"} /\ UNCHANGED <<backend, rejected, stored>>
        /\ queue' = [queue EXCEPT !.first = @ + 1] \/ queue' = queue
    BY <1>6 DEF Commit, env
  <2>2. /\ queue' \in [first : Nat \ {0}, last : 0..MaxBatches]
        /\ queue'.first <= queue'.last + 1
    BY <2>1, TransportAssumption DEF QueueInv
  <2>3. pc' \notin Posting' \cup {"answer"}
    BY <2>1, Zenon DEF ConnInv, Posting
  <2> QED
    BY <2>1, <2>2, <2>3 DEF QueueInv
<1>7. CASE GivesUp \/ Retry \/ Sleep
  <2>1. /\ pc' \in {"idle", "sleep", "drain"} /\ UNCHANGED <<backend, rejected, stored, queue>>
    BY <1>7 DEF GivesUp, Retry, Sleep, env, drain
  <2>2. pc' \notin Posting' \cup {"answer"}
    BY <2>1, Zenon DEF ConnInv, Posting
  <2> QED
    BY <2>1, <2>2 DEF QueueInv
<1> QED
  BY <1>1, <1>2, <1>3, <1>4, <1>5, <1>6, <1>7 DEF TransportNext, Work

\* It holds in every state.
THEOREM QueueInvariance == TransportSpec => []QueueInv
<1>1. TransportInit => QueueInv
  BY TransportAssumption DEF TransportInit, QueueInv, Posting, ConnInv
<1> QED
  BY <1>1, QueueKeeps, ConnInvariance, PTL DEF TransportSpec

\* The elements of Steps are the places inside post.
LEMMA InPost ==
    ASSUME backend \in {"winhttp", "openssl", "none"}, NEW x
    PROVE  (\E i \in DOMAIN Steps : Steps[i] = x) <=> x \in Posting
<1>1. CASE backend = "winhttp"
  <2> DEFINE s == <<"session", "connect", "request", "attach", "handshake",
                    "pin", "write", "response">>
  <2>1. Steps = s
    BY <1>1 DEF Steps
  <2>2. /\ s[1] = "session" /\ s[2] = "connect" /\ s[3] = "request" /\ s[4] = "attach"
        /\ s[5] = "handshake" /\ s[6] = "pin" /\ s[7] = "write" /\ s[8] = "response"
        /\ DOMAIN s = 1..8
    OBVIOUS
  <2>3. \A i \in 1..8 : i = 1 \/ i = 2 \/ i = 3 \/ i = 4 \/ i = 5 \/ i = 6 \/ i = 7 \/ i = 8
    OBVIOUS
  <2> HIDE DEF s
  <2>4. Posting = {s[1], s[2], s[3], s[4], s[5], s[6], s[7], s[8]}
    BY <1>1, <2>2 DEF Posting
  <2> QED
    BY <2>1, <2>2, <2>3, <2>4
<1>2. CASE backend = "openssl"
  <2> DEFINE s == <<"dial", "ssl", "handshake", "pin", "write", "response">>
  <2>1. Steps = s
    BY <1>2 DEF Steps
  <2>2. /\ s[1] = "dial" /\ s[2] = "ssl" /\ s[3] = "handshake" /\ s[4] = "pin"
        /\ s[5] = "write" /\ s[6] = "response" /\ DOMAIN s = 1..6
    OBVIOUS
  <2>3. \A i \in 1..6 : i = 1 \/ i = 2 \/ i = 3 \/ i = 4 \/ i = 5 \/ i = 6
    OBVIOUS
  <2> HIDE DEF s
  <2>4. Posting = {s[1], s[2], s[3], s[4], s[5], s[6]}
    BY <1>2, <2>2 DEF Posting
  <2> QED
    BY <2>1, <2>2, <2>3, <2>4
<1>3. CASE backend = "none"
  <2> DEFINE s == <<"no backend">>
  <2>1. Steps = s
    BY <1>3, Zenon DEF Steps
  <2>2. s[1] = "no backend" /\ 1 \in DOMAIN s
    OBVIOUS
  <2>3. \A i \in DOMAIN s : i = 1
    OBVIOUS
  <2> HIDE DEF s
  <2>4. Posting = {s[1]}
    BY <1>3, <2>2, Zenon DEF Posting
  <2> QED
    BY <2>1, <2>2, <2>3, <2>4, Zenon
<1> QED
  BY <1>1, <1>2, <1>3

\* What the call is to module PostCall, without the order of the steps.
LEMMA CallingIs ==
    ASSUME ConnInv
    PROVE  calling = IF pc = "answer" THEN result ELSE IF pc \in Posting THEN "out" ELSE "idle"
  BY InPost DEF ConnInv, calling

\* Module Reporter may take post for what PostCall says: it answers ok only for a
\* batch that is stored, and touches no other.
THEOREM PostKeepsContract == TransportSpec => KeepsContract
<1>1. ConnInv /\ QueueInv /\ TransportInit => Contract!PostInit
  <2> SUFFICES ASSUME ConnInv, QueueInv, TransportInit PROVE Contract!PostInit
    OBVIOUS
  <2>1. calling = "idle"
    BY CallingIs DEF TransportInit, ConnInv, Posting
  <2>2. sendingBatch \in Batches
    BY TransportAssumption DEF sendingBatch, Batches
  <2> QED
    BY <2>1, <2>2 DEF TransportInit, Contract!PostInit
<1>2. /\ ConnInv /\ QueueInv /\ ConnInv' /\ QueueInv' /\ [TransportNext]_tvars
      => [Contract!Begin \/ Contract!Store \/ Contract!Answer \/ Contract!Forget]_<<calling, sendingBatch, stored>>
  <2> SUFFICES ASSUME ConnInv, QueueInv, ConnInv', QueueInv', [TransportNext]_tvars
               PROVE  Contract!Begin \/ Contract!Store \/ Contract!Answer \/ Contract!Forget
                      \/ UNCHANGED <<calling, sendingBatch, stored>>
    OBVIOUS
  <2> DEFINE is(p, r) == IF p = "answer" THEN r ELSE IF p \in Posting THEN "out" ELSE "idle"
  <2>1. calling = is(pc, result)
    BY CallingIs
  <2>2. backend' = backend /\ Posting' = Posting
    <3>1. backend' = backend
      <4>1. CASE PostSteps
        BY <4>1, PostStepIs
      <4>2. CASE ~PostSteps
        BY <4>2, Zenon DEF TransportNext, Change, RequestStop, MakeTransport, Work, StartCycle, Drain, Commit,
             GivesUp, Retry, Sleep, tvars, env
      <4> QED
        BY <4>1, <4>2
    <3> QED
      BY <3>1 DEF Posting
  <2>3. calling' = is(pc', result')
    <3>1. (\E i \in DOMAIN Steps' : Steps'[i] = pc') <=> pc' \in Posting
      <4>1. Steps' = Steps
        BY <2>2 DEF Steps
      <4> QED
        BY <4>1, InPost DEF ConnInv
    <3> QED
      BY <3>1 DEF calling
  <2>4. sendingBatch \in Batches /\ sendingBatch' \in Batches
    BY TransportAssumption DEF sendingBatch, Batches
  <2>5. {"init", "refused", "idle", "drain", "answer", "sleep"} \cap Posting = {}
    BY Zenon DEF ConnInv, Posting
  <2>6. Contract!Begin <=> /\ calling # "out" /\ calling' = "out" /\ sendingBatch' \in Batches
                           /\ stored' = stored
    BY Zenon DEF Contract!Begin
  <2>7. Contract!Store <=> /\ calling = "out" /\ stored' = stored \cup {sendingBatch}
                           /\ UNCHANGED <<calling, sendingBatch>>
    BY Zenon DEF Contract!Store
  <2>8. Contract!Answer <=> /\ calling = "out" /\ calling' \in {"ok", "retry", "permanent"}
                            /\ stored' \in {stored, stored \cup {sendingBatch}}
                            /\ calling' = "ok" => sendingBatch \in stored'
                            /\ UNCHANGED sendingBatch
    BY Zenon DEF Contract!Answer
  <2>9. Contract!Forget <=> /\ calling # "out" /\ calling' = "idle" /\ sendingBatch' \in Batches
                            /\ stored' = stored
    BY ZenonT(30) DEF Contract!Forget
  <2>10. CASE Change \/ RequestStop \/ UNCHANGED tvars
    BY <2>10, <2>1, <2>3 DEF Change, RequestStop, tvars, drain, sendingBatch
  <2>11. CASE MakeTransport
    <3>1. pc = "init" /\ pc' \in {"idle", "refused"} /\ UNCHANGED <<queue, stored>>
      BY <2>11, Zenon DEF MakeTransport, drain
    <3> QED
      BY <2>1, <2>3, <2>5, <3>1 DEF sendingBatch
  <2>12. CASE PostSteps
    <3>1. pc \in Posting /\ queue' = queue /\ queue.first <= queue.last
      BY <2>12, PostStepIs DEF QueueInv, drain
    <3>2. sendingBatch = queue.first /\ sendingBatch' = sendingBatch
      BY <3>1, TransportAssumption DEF sendingBatch, QueueInv, Batches
    <3>3. calling = "out"
      BY <2>1, <2>5, <3>1
    <3>4. /\ stored' \in {stored, stored \cup {queue.first}}
          /\ pc' = "answer" => /\ result' \in {"ok", "retry", "permanent"}
                               /\ result' = "ok" => queue.first \in stored'
      BY <2>12, PostStores
    <3>5. CASE pc' = "answer"
      <4>1. calling' = result'
        BY <2>3, <3>5, Zenon
      <4>2. stored' \in {stored, stored \cup {sendingBatch}} /\ UNCHANGED sendingBatch
        BY <3>2, <3>4, Zenon
      <4>3. /\ calling' \in {"ok", "retry", "permanent"}
            /\ calling' = "ok" => sendingBatch \in stored'
        BY <3>2, <3>4, <3>5, <4>1, Zenon
      <4> QED
        BY <2>8, <3>3, <4>2, <4>3, Zenon
    <3>6. CASE pc' # "answer"
      <4>1. calling' = "out"
        BY <2>3, <2>12, <3>6, PostStepIs
      <4> QED
        BY <2>7, <3>2, <3>3, <3>4, <4>1
    <3> QED
      BY <3>5, <3>6
  <2>13. CASE StartCycle \/ Sleep
    <3>1. /\ pc \in {"idle", "sleep"} /\ pc' \in {"drain", "sleep"} /\ stored' = stored
          /\ queue'.first = queue.first
      BY <2>13 DEF StartCycle, Sleep, QueueInv
    <3> QED
      BY <2>1, <2>3, <2>5, <3>1 DEF sendingBatch
  <2>14. CASE Drain
    <3>1. pc = "drain" /\ pc' \in {"idle", Steps[1]} /\ UNCHANGED <<queue, stored>>
      BY <2>14 DEF Drain, drain
    <3>2. Steps[1] \in Posting
      BY Order, Zenon DEF ConnInv, Posting
    <3>3. calling = "idle" /\ calling' \in {"idle", "out"} /\ sendingBatch' = sendingBatch
      BY <2>1, <2>3, <2>5, <3>1, <3>2 DEF sendingBatch
    <3> QED
      BY <2>4, <2>6, <3>1, <3>3
  <2>15. CASE Commit \/ GivesUp \/ Retry
    <3>1. pc = "answer" /\ pc' \in {"drain", "idle", "sleep"} /\ stored' = stored
      BY <2>15 DEF Commit, GivesUp, Retry
    <3>2. calling # "out" /\ calling' = "idle"
      BY <2>1, <2>3, <2>5, <3>1 DEF QueueInv
    <3> QED
      BY <2>4, <2>9, <3>1, <3>2
  <2> QED
    BY <2>10, <2>11, <2>12, <2>13, <2>14, <2>15 DEF TransportNext, Work
<1> QED
  BY <1>1, <1>2, ConnInvariance, QueueInvariance, PTL
  DEF TransportSpec, KeepsContract, Contract!PostSpec

-----------------------------------------------------------------------------
(* The effort of a drain *)

\* A set of numbers that is not empty has a least one.
LEMMA Least ==
    ASSUME NEW T, T \subseteq Nat, T # {}
    PROVE  \E x \in T : \A y \in T : x <= y
<1>1. PICK x \in T : \A y \in T : ~(<<y, x>> \in OpToRel(<, Nat))
  BY WFMin, NatLessThanWellFounded, Zenon
<1>2. \A y \in T : ~(y < x)
  BY <1>1, Zenon DEF OpToRel
<1> QED
  BY <1>2

\* A set that has 0, and with each number below K the next one, has them all.
LEMMA Climb ==
    ASSUME NEW K \in Nat, NEW T, 0 \in T, \A n \in 1..K : n - 1 \in T => n \in T
    PROVE  \A n \in 0..K : n \in T
<1> DEFINE M == {n \in 0..K : n \notin T}
<1>1. ASSUME M # {} PROVE FALSE
  <2>1. PICK n \in M : \A m \in M : n <= m
    <3>1. M \subseteq Nat
      OBVIOUS
    <3> HIDE DEF M
    <3> QED
      BY <1>1, <3>1, Least, Zenon
  <2>2. n \in 0..K /\ n \notin T
    OBVIOUS
  <2>3. n \in 1..K /\ n - 1 \in 0..K /\ ~(n <= n - 1)
    BY <2>2
  <2>4. n - 1 \in T
    BY <2>1, <2>3
  <2> QED
    BY <2>2, <2>3, <2>4
<1> QED
  BY <1>1

\* What a recursion from n - 1 to n defines exists.
LEMMA Recursion ==
    ASSUME NEW K \in Nat, NEW a \in Nat, NEW g \in [Nat -> Nat]
    PROVE  \E f \in [0..K -> Nat] : f[0] = a /\ \A n \in 1..K : f[n] = g[f[n - 1]]
<1> DEFINE Upto(m, f) == f \in [0..m -> Nat] /\ f[0] = a /\ \A n \in 1..m : f[n] = g[f[n - 1]]
           T == {m \in Nat : \E f : Upto(m, f)}
<1>1. 0 \in T
  <2>1. Upto(0, [n \in 0..0 |-> a])
    OBVIOUS
  <2> HIDE DEF Upto
  <2> QED
    BY <2>1
<1>2. ASSUME NEW m \in 1..K, m - 1 \in T PROVE m \in T
  <2>1. m \in Nat /\ m - 1 \in Nat
    OBVIOUS
  <2>2. PICK f : Upto(m - 1, f)
    BY <1>2, ZenonT(30)
  <2> DEFINE h == [n \in 0..m |-> IF n = m THEN g[f[m - 1]] ELSE f[n]]
  <2>3. f[m - 1] \in Nat /\ \A n \in 0..(m - 1) : f[n] \in Nat
    BY <2>1, <2>2
  <2>4. h \in [0..m -> Nat] /\ h[0] = a
    BY <2>1, <2>2, <2>3
  <2>5. ASSUME NEW n \in 1..m PROVE h[n] = g[h[n - 1]]
    <3>1. n \in 0..m /\ n - 1 \in 0..m /\ n - 1 # m
      BY <2>1
    <3>2. h[n - 1] = f[n - 1] /\ h[n] = IF n = m THEN g[f[m - 1]] ELSE f[n]
      BY <3>1, Zenon
    <3>3. n # m => n \in 1..(m - 1)
      BY <2>1
    <3>4. n # m => f[n] = g[f[n - 1]]
      BY <2>2, <3>3, Zenon
    <3> HIDE DEF h
    <3> QED
      BY <3>2, <3>4
  <2>6. Upto(m, h)
    BY <2>4, <2>5, ZenonT(30)
  <2> HIDE DEF Upto
  <2> QED
    BY <2>1, <2>6
<1> HIDE DEF T
<1>3. \A m \in 0..K : m \in T
  BY <1>1, <1>2, Climb
<1>4. K \in T
  BY <1>3
<1> QED
  BY <1>4, ZenonT(30) DEF T

\* base_ms << n: up to the clamp nothing is lost.
LEMMA ShiftDoubles ==
    /\ Shifted[0] = BaseDelay
    /\ \A n \in 1..MaxExponent : Shifted[n] = 2 * Shifted[n - 1]
    /\ \A n \in 0..MaxExponent : Shifted[n] \in 1..MaxInt
<1> DEFINE m == 2 * MaxInt + 2
           g == [v \in Nat |-> (2 * v) % m]
           Equation(f) == f = [n \in 0..MaxExponent |-> IF n = 0 THEN BaseDelay ELSE (2 * f[n - 1]) % m]
<1>1. /\ MaxExponent \in Nat /\ BaseDelay \in Nat /\ BaseDelay \in 1..MaxInt /\ MaxInt \in Nat
      /\ m \in Nat /\ m > 0 /\ MaxInt < m
  BY TransportAssumption
<1> HIDE DEF m
<1>2. g \in [Nat -> Nat]
  BY <1>1
<1>3. \E f : Equation(f)
  <2> HIDE DEF g
  <2>1. PICK f \in [0..MaxExponent -> Nat] :
           f[0] = BaseDelay /\ \A n \in 1..MaxExponent : f[n] = g[f[n - 1]]
    <3>1. MaxExponent \in Nat /\ BaseDelay \in Nat
      BY <1>1
    <3> HIDE DEF Equation
    <3> QED
      BY <1>2, <3>1, Recursion, ZenonT(30)
  <2>2. ASSUME NEW n \in 0..MaxExponent
        PROVE  f[n] = IF n = 0 THEN BaseDelay ELSE (2 * f[n - 1]) % m
    <3>1. CASE n = 0
      BY <2>1, <3>1
    <3>2. CASE n # 0
      <4>1. n \in 1..MaxExponent /\ f[n - 1] \in Nat
        BY <1>1, <2>1, <3>2
      <4>2. f[n] = g[f[n - 1]]
        BY <2>1, <4>1
      <4>3. g[f[n - 1]] = (2 * f[n - 1]) % m
        BY <4>1, Zenon DEF g
      <4> QED
        BY <3>2, <4>2, <4>3, Zenon
    <3> QED
      BY <3>1, <3>2
  <2>3. f = [n \in 0..MaxExponent |-> f[n]]
    BY <2>1
  <2>4. Equation(f)
    BY <2>2, <2>3
  <2> HIDE DEF Equation
  <2> QED
    BY <2>4
<1>4. Shifted = CHOOSE f : Equation(f)
  BY DEF Shifted, m
<1>5. Equation(Shifted)
  BY <1>3, <1>4, Zenon
<1>6. \A n \in 0..MaxExponent : Shifted[n] = IF n = 0 THEN BaseDelay ELSE (2 * Shifted[n - 1]) % m
  BY <1>5, Zenon
<1> HIDE DEF Equation
<1>7. Shifted[0] = BaseDelay
  BY <1>1, <1>6
<1>8. ASSUME NEW n \in 1..MaxExponent, Shifted[n - 1] \in 1..MaxInt
      PROVE  Shifted[n] = 2 * Shifted[n - 1] /\ Shifted[n] \in 1..MaxInt
  <2>1. Shifted[n] = (2 * Shifted[n - 1]) % m
    BY <1>1, <1>6
  <2>2. 2 * Shifted[n - 1] <= MaxInt
    BY ClampAssumption
  <2> DEFINE x == 2 * Shifted[n - 1]
  <2>3. x \in 1..MaxInt
    BY <1>1, <1>8, <2>2
  <2> HIDE DEF x
  <2>4. x % m = x
    BY <1>1, <2>3
  <2> QED
    BY <2>1, <2>3, <2>4 DEF x
<1> DEFINE T == {n \in 0..MaxExponent : Shifted[n] \in 1..MaxInt}
<1>9. 0 \in T /\ \A n \in 1..MaxExponent : n - 1 \in T => n \in T
  BY <1>1, <1>7, <1>8
<1>10. \A n \in 0..MaxExponent : n \in T
  <2> HIDE DEF T
  <2> QED
    BY <1>1, <1>9, Climb
<1>11. \A n \in 1..MaxExponent : n - 1 \in 0..MaxExponent
  BY <1>1
<1> QED
  BY <1>7, <1>8, <1>10, <1>11

\* What the recursion of Backoff amounts to.
LEMMA BackoffDoubles ==
    /\ Backoff[0] = IF BaseDelay > CapDelay THEN CapDelay ELSE BaseDelay
    /\ \A n \in 1..MaxAttempts :
          Backoff[n] = IF 2 * Backoff[n - 1] > CapDelay THEN CapDelay ELSE 2 * Backoff[n - 1]
    /\ \A n \in 0..MaxAttempts : Backoff[n] \in 0..CapDelay
<1> DEFINE capped(v) == IF v > CapDelay THEN CapDelay ELSE v
           g == [v \in Nat |-> capped(2 * v)]
           Equation(f) == f = [n \in 0..MaxAttempts |->
                                 LET doubled == IF n = 0 THEN BaseDelay ELSE 2 * f[n - 1]
                                 IN  IF doubled > CapDelay THEN CapDelay ELSE doubled]
<1>1. MaxAttempts \in Nat /\ BaseDelay \in Nat /\ CapDelay \in Nat
  BY TransportAssumption
<1>2. g \in [Nat -> Nat] /\ capped(BaseDelay) \in Nat
  BY <1>1
<1>3. \E f : Equation(f)
  <2> HIDE DEF g
  <2>1. PICK f \in [0..MaxAttempts -> Nat] :
           f[0] = capped(BaseDelay) /\ \A n \in 1..MaxAttempts : f[n] = g[f[n - 1]]
    <3>1. MaxAttempts \in Nat /\ g \in [Nat -> Nat] /\ capped(BaseDelay) \in Nat
      BY <1>1, <1>2
    <3> HIDE DEF capped, Equation
    <3> QED
      BY <3>1, Recursion, ZenonT(30)
  <2>2. ASSUME NEW n \in 0..MaxAttempts
        PROVE  f[n] = capped(IF n = 0 THEN BaseDelay ELSE 2 * f[n - 1])
    <3>1. CASE n = 0
      BY <2>1, <3>1
    <3>2. CASE n # 0
      <4>1. n \in 1..MaxAttempts /\ f[n - 1] \in Nat
        BY <1>1, <2>1, <3>2
      <4> QED
        BY <2>1, <3>2, <4>1, ZenonT(30) DEF g
    <3> QED
      BY <3>1, <3>2
  <2>3. f = [n \in 0..MaxAttempts |-> f[n]]
    BY <2>1
  <2>4. Equation(f)
    BY <2>2, <2>3
  <2> HIDE DEF Equation
  <2> QED
    BY <2>4
<1>4. Backoff = CHOOSE f : Equation(f)
  BY DEF Backoff
<1>5. Equation(Backoff)
  BY <1>3, <1>4, Zenon
<1>6. \A n \in 0..MaxAttempts :
         Backoff[n] = capped(IF n = 0 THEN BaseDelay ELSE 2 * Backoff[n - 1])
  BY <1>5, Zenon
<1> HIDE DEF Equation
<1>7. Backoff[0] = capped(BaseDelay)
  BY <1>1, <1>6
<1>8. \A n \in 1..MaxAttempts : Backoff[n] = capped(2 * Backoff[n - 1])
  BY <1>1, <1>6
<1> DEFINE T == {n \in 0..MaxAttempts : Backoff[n] \in 0..CapDelay}
<1>9. 0 \in T /\ \A n \in 1..MaxAttempts : n - 1 \in T => n \in T
  BY <1>1, <1>7, <1>8
<1>10. \A n \in 0..MaxAttempts : n \in T
  <2> HIDE DEF T
  <2> QED
    BY <1>1, <1>9, Climb
<1> QED
  BY <1>7, <1>8, <1>10

\* The clamp changes nothing: the shift gives the ceilings that double up to the cap,
\* however many attempts there are.
LEMMA CeilingIs == \A n \in 0..MaxAttempts : Ceiling(n) = Backoff[n]
<1> DEFINE e(n) == IF n < MaxExponent THEN n ELSE MaxExponent
           capped(v) == IF v > CapDelay THEN CapDelay ELSE v
<1>1. /\ MaxAttempts \in Nat /\ MaxExponent \in Nat /\ CapDelay \in Nat /\ MaxInt \in Nat
      /\ BaseDelay \in Nat
  BY TransportAssumption
<1>2. ASSUME NEW n \in Nat
      PROVE  e(n) \in 0..MaxExponent /\ Shifted[e(n)] \in 1..MaxInt
             /\ Ceiling(n) = capped(Shifted[e(n)])
  <2>1. e(n) \in 0..MaxExponent
    BY <1>1
  <2>2. Shifted[e(n)] \in 1..MaxInt
    <3> HIDE DEF e
    <3> QED
      BY <2>1, ShiftDoubles
  <2>3. Ceiling(n) = IF Shifted[e(n)] > CapDelay \/ Shifted[e(n)] > MaxInt \/ Shifted[e(n)] = 0
                     THEN CapDelay ELSE Shifted[e(n)]
    BY Zenon DEF Ceiling
  <2> HIDE DEF e
  <2> QED
    BY <1>1, <2>1, <2>2, <2>3
<1> DEFINE T == {n \in 0..MaxAttempts : Ceiling(n) = Backoff[n]}
<1>3. 0 \in T
  <2>1. e(0) = 0
    BY <1>1
  <2>2. Ceiling(0) = capped(BaseDelay)
    BY <1>2, <2>1, ShiftDoubles
  <2> QED
    BY <1>1, <2>2, BackoffDoubles
<1>4. ASSUME NEW n \in 1..MaxAttempts, n - 1 \in T PROVE n \in T
  <2>1. n \in Nat /\ n - 1 \in Nat /\ n \in 0..MaxAttempts
    BY <1>1
  <2> DEFINE x == Shifted[e(n - 1)]
             y == Shifted[e(n)]
  <2>2. Backoff[n - 1] = capped(x) /\ Backoff[n] = capped(2 * capped(x)) /\ Ceiling(n) = capped(y)
    BY <1>2, <1>4, <2>1, BackoffDoubles
  <2>3. x \in Nat /\ y \in Nat
    BY <1>2, <2>1
  <2>4. CASE n <= MaxExponent
    <3>1. e(n) = n /\ e(n - 1) = n - 1 /\ n \in 1..MaxExponent
      BY <1>1, <2>4
    <3>2. y = 2 * x
      BY <3>1, ShiftDoubles, ZenonT(30)
    <3> HIDE DEF x, y
    <3>3. capped(2 * capped(x)) = capped(2 * x)
      BY <1>1, <2>3
    <3> QED
      BY <2>1, <2>2, <3>2, <3>3
  <2>5. CASE ~(n <= MaxExponent)
    <3>1. e(n) = MaxExponent /\ e(n - 1) = MaxExponent
      BY <1>1, <2>1, <2>5
    <3>2. x = y /\ CapDelay <= y
      BY <3>1, ClampAssumption
    <3> HIDE DEF x, y
    <3>3. capped(2 * capped(x)) = capped(y)
      BY <1>1, <2>3, <3>2
    <3> QED
      BY <2>1, <2>2, <3>3
  <2> QED
    BY <2>4, <2>5
<1>5. \A n \in 0..MaxAttempts : n \in T
  <2> HIDE DEF T
  <2> QED
    BY <1>1, <1>3, <1>4, Climb
<1> QED
  BY <1>5

\* d adds up the ceilings of the delays from failure number m to the last.
IsSum(d, m) ==
    /\ d \in [m..(MaxAttempts - 1) -> Nat]
    /\ d = [n \in m..(MaxAttempts - 1) |->
             IF n = MaxAttempts - 1 THEN 0 ELSE d[n + 1] + Backoff[n + 1]]

\* There is such a d: the last failure has one, and so has each one before.
LEMMA SumExists == \E d : IsSum(d, 0)
<1> DEFINE N == MaxAttempts - 1
           T == {k \in 0..N : ~\E d : IsSum(d, N - k)}
<1>1. N \in Nat
  BY TransportAssumption
<1>2. ASSUME T # {} PROVE FALSE
  <2>1. PICK k \in T : \A j \in T : k <= j
    <3>1. T \subseteq Nat
      OBVIOUS
    <3> HIDE DEF T
    <3> QED
      BY <1>2, <3>1, Least, Zenon
  <2>2. k \in 0..N /\ ~\E d : IsSum(d, N - k)
    OBVIOUS
  <2> HIDE DEF T
  <2>3. k # 0
    <3>1. IsSum([n \in N..N |-> 0], N)
      BY <1>1 DEF IsSum
    <3>2. N - 0 = N
      BY <1>1
    <3> QED
      BY <2>2, <3>1, <3>2
  <2> DEFINE m == N - k
  <2>4. m \in Nat /\ m + 1 \in Nat /\ m < N /\ N - (k - 1) = m + 1 /\ k - 1 \in 0..N /\ ~(k <= k - 1)
    BY <1>1, <2>2, <2>3
  <2>5. PICK d : IsSum(d, m + 1)
    <3>1. k - 1 \notin T
      BY <2>1, <2>4, Zenon
    <3> QED
      BY <2>4, <3>1 DEF T
  <2> DEFINE e == [n \in m..N |-> IF n = m THEN d[m + 1] + Backoff[m + 1] ELSE d[n]]
  <2>6. Backoff[m + 1] \in Nat
    BY <1>1, <2>4, BackoffDoubles, TransportAssumption
  <2> HIDE DEF m
  <2>7. IsSum(e, m)
    <3>1. /\ d \in [(m + 1)..N -> Nat]
          /\ \A n \in (m + 1)..N : d[n] = IF n = N THEN 0 ELSE d[n + 1] + Backoff[n + 1]
      BY <2>5, Zenon DEF IsSum
    <3>2. e \in [m..N -> Nat]
      BY <1>1, <2>4, <2>6, <3>1
    <3>3. ASSUME NEW n \in m..N
          PROVE  e[n] = IF n = N THEN 0 ELSE e[n + 1] + Backoff[n + 1]
      BY <1>1, <2>4, <3>1
    <3> QED
      BY <3>2, <3>3 DEF IsSum
  <2> QED
    BY <2>2, <2>7 DEF m
<1>3. N \in 0..N /\ N - N = 0
  BY <1>1
<1> QED
  BY <1>2, <1>3

\* What the recursion of DelaysAfter amounts to.
LEMMA DelaysAddUp ==
    /\ DelaysAfter \in [0..(MaxAttempts - 1) -> Nat]
    /\ \A n \in 0..(MaxAttempts - 2) : DelaysAfter[n] = DelaysAfter[n + 1] + Backoff[n + 1]
<1> DEFINE N == MaxAttempts - 1
           Equation(d) == d = [n \in 0..N |-> IF n = N THEN 0 ELSE d[n + 1] + Backoff[n + 1]]
<1>1. N \in Nat /\ MaxAttempts - 2 = N - 1
  BY TransportAssumption
<1>2. \E d : Equation(d)
  BY SumExists, Zenon DEF IsSum
<1>3. DelaysAfter = CHOOSE d : Equation(d)
  BY DEF DelaysAfter
<1>4. Equation(DelaysAfter)
  BY <1>2, <1>3, Zenon
<1>5. \A n \in 0..N : DelaysAfter[n] = IF n = N THEN 0 ELSE DelaysAfter[n + 1] + Backoff[n + 1]
  BY <1>4, Zenon
<1>6. DelaysAfter = [n \in 0..N |-> DelaysAfter[n]]
  BY <1>4
<1> HIDE DEF Equation
<1> DEFINE T == {k \in 0..N : DelaysAfter[N - k] \notin Nat}
<1>7. ASSUME T # {} PROVE FALSE
  <2>1. PICK k \in T : \A j \in T : k <= j
    <3>1. T \subseteq Nat
      OBVIOUS
    <3> HIDE DEF T
    <3> QED
      BY <1>7, <3>1, Least, Zenon
  <2>2. k \in 0..N /\ DelaysAfter[N - k] \notin Nat
    OBVIOUS
  <2>3. N - k \in 0..N
    BY <1>1, <2>2
  <2>4. k # 0 /\ N - k # N
    BY <1>1, <1>5, <2>2, <2>3
  <2>5. N - (k - 1) = (N - k) + 1 /\ k - 1 \in 0..N /\ ~(k <= k - 1) /\ (N - k) + 1 \in Nat
    BY <1>1, <2>2, <2>4
  <2>6. DelaysAfter[(N - k) + 1] \in Nat
    BY <2>1, <2>5
  <2>7. Backoff[(N - k) + 1] \in Nat
    BY <1>1, <2>3, <2>4, <2>5, BackoffDoubles, TransportAssumption
  <2>8. DelaysAfter[N - k] = DelaysAfter[(N - k) + 1] + Backoff[(N - k) + 1]
    BY <1>5, <2>3, <2>4
  <2> QED
    BY <2>2, <2>6, <2>7, <2>8
<1>8. \A n \in 0..N : DelaysAfter[n] \in Nat
  <2>1. \A n \in 0..N : N - n \in 0..N /\ N - (N - n) = n
    BY <1>1
  <2> QED
    BY <1>7, <2>1
<1>9. \A n \in 0..(N - 1) : n \in 0..N /\ n # N
  BY <1>1
<1> QED
  BY <1>1, <1>5, <1>6, <1>8, <1>9, Zenon

\* Each post is paid for by an attempt, each slice by the ceiling of its delay.
LEMMA EffortKeeps ==
    ASSUME ConnInv, EffortInv, [TransportNext]_tvars
    PROVE  EffortInv'
<1>0. MaxAttempts \in Nat \ {0} /\ DelaysAfter[0] \in Nat
  BY TransportAssumption, DelaysAddUp
<1>1. \A n \in 0..(MaxAttempts - 1) : DelaysAfter[n] \in Nat
  BY DelaysAddUp
<1>2. {"init", "refused", "idle", "drain", "answer", "sleep"} \cap Posting = {}
  BY Zenon DEF ConnInv, Posting
<1>3. backend' = backend => Posting' = Posting
  BY Zenon DEF Posting
<1>4. CASE Change \/ RequestStop \/ UNCHANGED tvars
  <2>1. UNCHANGED <<backend, pc, attempt, delay, posts, slept>>
    BY <1>4 DEF Change, RequestStop, tvars, env, drain
  <2> QED
    BY <1>3, <2>1, Zenon DEF EffortInv
<1>5. CASE MakeTransport \/ GivesUp
  <2>1. UNCHANGED <<backend, attempt, delay, posts, slept>> /\ pc' \in {"idle", "refused"}
    BY <1>5, Zenon DEF MakeTransport, GivesUp, env, drain
  <2> QED
    BY <1>2, <1>3, <2>1 DEF EffortInv
<1>6. CASE PostSteps
  <2>1. pc \in Posting /\ UNCHANGED <<backend, attempt, delay, posts, slept>>
        /\ pc' \in Posting \cup {"answer"}
    BY <1>6, PostStepIs, Zenon DEF drain
  <2> QED
    BY <1>2, <1>3, <2>1 DEF EffortInv
<1>7. CASE StartCycle
  <2>1. pc' = "drain" /\ attempt' = 0 /\ posts' = 0 /\ slept' = 0 /\ UNCHANGED <<backend, delay>>
    BY <1>7 DEF StartCycle, env
  <2> QED
    BY <1>0, <1>2, <1>3, <2>1 DEF EffortInv
<1>8. CASE Commit
  <2>1. /\ UNCHANGED <<backend, delay>>
        /\ \/ pc' = "drain" /\ attempt' = 0 /\ posts' = 0 /\ slept' = 0
           \/ pc' = "idle" /\ UNCHANGED <<attempt, posts, slept>>
    BY <1>8 DEF Commit, env
  <2>2. CASE pc' = "drain" /\ attempt' = 0 /\ posts' = 0 /\ slept' = 0
    BY <1>0, <1>2, <1>3, <2>1, <2>2 DEF EffortInv
  <2>3. CASE pc' = "idle" /\ UNCHANGED <<attempt, posts, slept>>
    BY <1>2, <1>3, <2>1, <2>3 DEF EffortInv
  <2> QED
    BY <2>1, <2>2, <2>3
<1>9. CASE Drain
  <2>1. /\ pc = "drain" /\ UNCHANGED <<backend, attempt, delay, slept>>
        /\ (pc' = "idle" /\ posts' = posts) \/ (pc' = Steps[1] /\ posts' = posts + 1)
    BY <1>9 DEF Drain, env
  <2>2. Steps[1] \in Posting
    BY Order, ZenonT(30) DEF ConnInv, Posting
  <2>3. CASE pc' = "idle" /\ posts' = posts
    BY <1>2, <1>3, <2>1, <2>3 DEF EffortInv
  <2>4. CASE pc' = Steps[1] /\ posts' = posts + 1
    <3>1. pc' \in Posting' /\ pc' \notin {"drain", "sleep"}
      BY <1>2, <1>3, <2>1, <2>2, <2>4
    <3>2. /\ attempt \in Nat /\ attempt < MaxAttempts /\ posts \in Nat /\ posts <= attempt
      BY <1>0, <2>1 DEF EffortInv
    <3>3. posts' \in Nat /\ posts' <= attempt' + 1 /\ posts' <= MaxAttempts
      BY <1>0, <2>1, <2>4, <3>2
    <3> QED
      BY <2>1, <3>1, <3>2, <3>3 DEF EffortInv
  <2> QED
    BY <2>1, <2>3, <2>4
<1>10. CASE Retry
  <2>1. /\ pc = "answer" /\ attempt' = attempt + 1 /\ UNCHANGED <<backend, posts, slept>>
        /\ \/ pc' = "idle" /\ delay' = delay
           \/ ~(attempt' >= MaxAttempts) /\ pc' = "sleep" /\ delay' \in 0..Ceiling(attempt')
    BY <1>10 DEF Retry, env
  <2>2. attempt \in 0..(MaxAttempts - 1) /\ attempt' \in 0..MaxAttempts /\ posts <= attempt'
    BY <1>0, <2>1 DEF EffortInv
  <2>3. CASE pc' = "idle" /\ delay' = delay
    BY <1>2, <1>3, <2>1, <2>2, <2>3 DEF EffortInv
  <2>4. CASE ~(attempt' >= MaxAttempts) /\ pc' = "sleep" /\ delay' \in 0..Ceiling(attempt')
    <3>1. attempt \in 0..(MaxAttempts - 2) /\ attempt' \in 0..(MaxAttempts - 1) /\ attempt' < MaxAttempts
      BY <1>0, <2>1, <2>2, <2>4
    <3>2. Ceiling(attempt') = Backoff[attempt'] /\ Backoff[attempt'] \in 0..CapDelay
      BY <2>2, CeilingIs, BackoffDoubles
    <3>3. DelaysAfter[attempt] = DelaysAfter[attempt'] + Backoff[attempt']
      BY <2>1, <3>1, DelaysAddUp, Zenon
    <3>4. delay' \in Nat /\ delay' <= Backoff[attempt']
      BY <2>4, <3>2, TransportAssumption
    <3>5. /\ slept \in Nat /\ posts \in Nat /\ slept + DelaysAfter[attempt] <= DelaysAfter[0]
          /\ posts <= MaxAttempts /\ slept <= DelaysAfter[0]
      BY <2>1 DEF EffortInv
    <3>6. slept' + delay' + DelaysAfter[attempt'] <= DelaysAfter[0]
      <4>1. DelaysAfter[attempt'] \in Nat /\ Backoff[attempt'] \in Nat
        BY <1>1, <3>1, <3>2, TransportAssumption
      <4> QED
        BY <1>0, <2>1, <3>3, <3>4, <3>5, <4>1
    <3>7. pc' \notin Posting' \cup {"drain", "answer"}
      BY <1>2, <1>3, <2>1, <2>4
    <3> QED
      BY <2>1, <2>2, <2>4, <3>1, <3>4, <3>5, <3>6, <3>7 DEF EffortInv
  <2> QED
    BY <2>1, <2>3, <2>4
<1>11. CASE Sleep
  <2>1. /\ pc = "sleep" /\ UNCHANGED <<backend, attempt, posts>>
        /\ \/ pc' = "drain" /\ delay' = 0 /\ slept' = slept
           \/ delay # 0 /\ pc' = pc /\ delay' = delay - 1 /\ slept' = slept + 1
    BY <1>11 DEF Sleep, env
  <2>2. /\ attempt \in 0..(MaxAttempts - 1) /\ slept \in Nat /\ delay \in Nat
        /\ slept + delay + DelaysAfter[attempt] <= DelaysAfter[0]
    BY <1>0, <2>1 DEF EffortInv
  <2>3. DelaysAfter[attempt] \in Nat
    BY <1>1, <2>2
  <2>4. CASE pc' = "drain" /\ delay' = 0 /\ slept' = slept
    <3>1. slept' + DelaysAfter[attempt'] <= DelaysAfter[0]
      BY <1>0, <2>1, <2>2, <2>3, <2>4
    <3>2. pc' \notin Posting' \cup {"answer", "sleep"}
      BY <1>2, <1>3, <2>1, <2>4
    <3> QED
      BY <2>1, <2>4, <3>1, <3>2 DEF EffortInv
  <2>5. CASE delay # 0 /\ pc' = pc /\ delay' = delay - 1 /\ slept' = slept + 1
    <3>1. delay' \in Nat /\ slept' \in Nat /\ slept' <= DelaysAfter[0]
          /\ slept' + delay' + DelaysAfter[attempt'] <= DelaysAfter[0]
      BY <1>0, <2>1, <2>2, <2>3, <2>5
    <3>2. pc' = "sleep" /\ pc' \notin Posting' \cup {"drain", "answer"}
      BY <1>2, <1>3, <2>1, <2>5
    <3> QED
      BY <2>1, <2>5, <3>1, <3>2 DEF EffortInv
  <2> QED
    BY <2>1, <2>4, <2>5
<1> QED
  BY <1>4, <1>5, <1>6, <1>7, <1>8, <1>9, <1>10, <1>11 DEF TransportNext, Work

\* After a stop drain waits for the post it is in: it begins none and sleeps no more.
LEMMA StopsDrain ==
    ASSUME ConnInv, EffortInv, [TransportNext]_tvars, stop
    PROVE  posts' <= posts /\ slept' <= slept
<1>1. posts \in Nat /\ slept \in Nat
  BY DEF EffortInv
<1>2. UNCHANGED <<posts, slept>> \/ (posts' = 0 /\ slept' = 0)
  <2>1. CASE PostSteps
    BY <2>1, PostStepIs DEF drain
  <2>2. CASE Change \/ RequestStop \/ MakeTransport \/ UNCHANGED tvars
    BY <2>2, Zenon DEF Change, RequestStop, MakeTransport, tvars, drain
  <2>3. CASE StartCycle \/ Drain \/ Commit \/ GivesUp \/ Retry \/ Sleep
    BY <2>3, Zenon DEF StartCycle, Drain, Commit, GivesUp, Retry, Sleep, drain
  <2> QED
    BY <2>1, <2>2, <2>3 DEF TransportNext, Work
<1> QED
  BY <1>1, <1>2

\* drain comes back from an outage within its attempts and the ceilings of the delays,
\* which double up to the cap, for every backoff and every course of the trouble; a
\* stop adds neither a post nor a slice.
THEOREM DrainInTime == TransportSpec => DrainBounded
<1>1. TransportInit => EffortInv
  <2>1. DelaysAfter[0] \in Nat
    BY TransportAssumption, DelaysAddUp
  <2> QED
    BY <2>1, TransportAssumption DEF TransportInit, EffortInv, Posting
<1>2. ConnInv /\ EffortInv /\ [TransportNext]_tvars => EffortInv'
  BY EffortKeeps
<1>3. EffortInv => /\ posts <= MaxAttempts /\ slept <= DelaysAfter[0]
                   /\ pc = "sleep" => Ceiling(attempt) = Backoff[attempt]
  BY CeilingIs DEF EffortInv
<1>4. ConnInv /\ EffortInv /\ [TransportNext]_tvars
      => [stop => posts' <= posts /\ slept' <= slept]_tvars
  BY StopsDrain
<1> QED
  BY <1>1, <1>2, <1>3, <1>4, ConnInvariance, PTL DEF TransportSpec, DrainBounded

=============================================================================
