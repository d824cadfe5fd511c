------------------------------- MODULE ScanDb -------------------------------
(***************************************************************************)
(* ns::Db on SQL Server (db_odbc.cpp) as the agents of a fleet use it:     *)
(* connect and disconnect as write_db does, record_scan statement by       *)
(* statement, and the query for a host's findings.                         *)
(*                                                                         *)
(* The server is modelled from how the code uses it, at its default READ   *)
(* COMMITTED: a statement on a host's row waits for the open transaction   *)
(* that changed it, an identity is not taken back by a rollback, and a     *)
(* lost session rolls back.  Switching autocommit on commits what is open; *)
(* set_autocommit ignores its result, and here it never fails.             *)
(***************************************************************************)
EXTENDS Integers, FiniteSets

CONSTANTS
    Agents,         \* machines that write
    Hosts,          \* host names; two cloned machines may have the same one
    MaxScans,       \* bound: scan identities handed out
    MaxRows         \* bound: packages, and findings, of one scan

ASSUME ScanDbAssumption == MaxScans \in Nat /\ MaxRows \in Nat

VARIABLES
    scans,          \* committed scan rows, with the number of rows they have
    latest,         \* committed latest_scan_id of each host, 0 for NULL
    hosts,          \* committed rows of dbo.hosts
    nextScan,       \* the identity the next scan row gets
    tx,             \* what each agent's open transaction has changed
    hostOf,         \* each agent's host name
    link,           \* each agent's connection; impl_->connected is # "none"
    autocommit,     \* its mode
    pc,             \* where each agent is in record_scan
    scanId,         \* r.scan_id
    ret,            \* what became of the last record_scan
    seen            \* the scan the agent's last query returned the rows of

server == <<scans, latest, hosts>>
vars == <<server, nextScan, tx, hostOf, link, autocommit, pc, scanId, ret, seen>>

NoScan == [id |-> 0, packageCount |-> 0, findingCount |-> 0,
           packages |-> 0, findings |-> 0]
NoTx == [locked |-> FALSE, scan |-> NoScan, pointed |-> FALSE]

Init ==
    /\ scans = {} /\ latest = [h \in Hosts |-> 0] /\ hosts = {}
    /\ nextScan = 1 /\ tx = [a \in Agents |-> NoTx]
    /\ hostOf \in [Agents -> Hosts]
    /\ link = [a \in Agents |-> "none"] /\ autocommit = [a \in Agents |-> TRUE]
    /\ pc = [a \in Agents |-> "idle"]
    /\ scanId = [a \in Agents |-> 0] /\ ret = [a \in Agents |-> "none"]
    /\ seen = [a \in Agents |-> 0]

(* A statement on the row of a's host has to wait for another agent. *)
Blocked(a) == \E b \in Agents \ {a} : hostOf[b] = hostOf[a] /\ tx[b].locked

(* The transaction t of agent a becomes visible. *)
Publish(a, t) ==
    /\ scans' = IF t.scan = NoScan THEN scans
                ELSE {s \in scans : s.id # t.scan.id} \cup {t.scan}
    /\ hosts' = IF t.locked THEN hosts \cup {hostOf[a]} ELSE hosts
    /\ latest' = IF t.pointed THEN [latest EXCEPT ![hostOf[a]] = t.scan.id] ELSE latest

(* A statement that makes a's transaction t: visible at once in autocommit. *)
Execute(a, t, next) ==
    /\ link[a] = "up"
    /\ pc' = [pc EXCEPT ![a] = next]
    /\ IF autocommit[a]
       THEN Publish(a, t) /\ tx' = [tx EXCEPT ![a] = [t EXCEPT !.locked = FALSE]]
       ELSE tx' = [tx EXCEPT ![a] = t] /\ UNCHANGED server

---------------------------------------------------------------------------
(* write_db: connect unless connected.  A failed connect ends the attempt. *)
StartScan(a) ==
    /\ pc[a] = "idle"
    /\ scanId' = [scanId EXCEPT ![a] = 0]
    /\ \/ /\ link' = [link EXCEPT ![a] = IF @ = "none" THEN "up" ELSE @]
          /\ pc' = [pc EXCEPT ![a] = "begin"] /\ ret' = [ret EXCEPT ![a] = "none"]
       \/ /\ link[a] = "none" /\ ret' = [ret EXCEPT ![a] = "no"]
          /\ UNCHANGED <<link, pc>>
    /\ UNCHANGED <<server, nextScan, tx, hostOf, autocommit, seen>>

Begin(a) ==
    /\ pc[a] = "begin"
    /\ autocommit' = [autocommit EXCEPT ![a] = FALSE]
    /\ pc' = [pc EXCEPT ![a] = "update"]
    /\ UNCHANGED <<server, nextScan, tx, hostOf, link, scanId, ret, seen>>

\* Mutant: the host's row is looked up, not updated.
HostSelect(a) ==
    /\ pc[a] = "update" /\ ~Blocked(a)
    /\ Execute(a, tx[a], IF hostOf[a] \in hosts THEN "scan" ELSE "insert")
    /\ UNCHANGED <<nextScan, hostOf, link, autocommit, scanId, ret, seen>>

HostUpdate(a) ==
    /\ pc[a] = "update" /\ ~Blocked(a)
    /\ IF hostOf[a] \in hosts
       THEN Execute(a, [tx[a] EXCEPT !.locked = TRUE], "scan")
       ELSE Execute(a, tx[a], "insert")
    /\ UNCHANGED <<nextScan, hostOf, link, autocommit, scanId, ret, seen>>

(* The UNIQUE constraint refuses a name that another agent has committed. *)
HostInsert(a) ==
    /\ pc[a] = "insert" /\ ~Blocked(a) /\ hostOf[a] \notin hosts
    /\ Execute(a, [tx[a] EXCEPT !.locked = TRUE], "scan")
    /\ UNCHANGED <<nextScan, hostOf, link, autocommit, scanId, ret, seen>>

ScanInsert(a) ==
    /\ pc[a] = "scan" /\ nextScan <= MaxScans
    /\ \E np, nf \in 0..MaxRows :
          Execute(a, [tx[a] EXCEPT !.scan = [id |-> nextScan, packageCount |-> np,
                         findingCount |-> nf, packages |-> 0, findings |-> 0]], "packages")
    /\ nextScan' = nextScan + 1 /\ scanId' = [scanId EXCEPT ![a] = nextScan]
    /\ UNCHANGED <<hostOf, link, autocommit, ret, seen>>

PackageInsert(a) ==
    /\ pc[a] = "packages"
    /\ IF tx[a].scan.packages < tx[a].scan.packageCount
       THEN Execute(a, [tx[a] EXCEPT !.scan.packages = @ + 1], "packages")
       ELSE Execute(a, tx[a], "findings")
    /\ UNCHANGED <<nextScan, hostOf, link, autocommit, scanId, ret, seen>>

FindingInsert(a) ==
    /\ pc[a] = "findings"
    /\ IF tx[a].scan.findings < tx[a].scan.findingCount
       THEN Execute(a, [tx[a] EXCEPT !.scan.findings = @ + 1], "findings")
       ELSE Execute(a, tx[a], "latest")
    /\ UNCHANGED <<nextScan, hostOf, link, autocommit, scanId, ret, seen>>

\* Mutant: a host that had no row keeps its NULL.
LatestIfKnown(a) ==
    /\ pc[a] = "latest" /\ ~Blocked(a)
    /\ Execute(a, [tx[a] EXCEPT !.pointed = hostOf[a] \in hosts, !.locked = TRUE], "commit")
    /\ UNCHANGED <<nextScan, hostOf, link, autocommit, scanId, ret, seen>>

LatestUpdate(a) ==
    /\ pc[a] = "latest" /\ ~Blocked(a)
    /\ Execute(a, [tx[a] EXCEPT !.pointed = TRUE, !.locked = TRUE], "commit")
    /\ UNCHANGED <<nextScan, hostOf, link, autocommit, scanId, ret, seen>>

(* record_scan returns true, or false to a write_db that then disconnects. *)
Return(a, how) ==
    /\ pc' = [pc EXCEPT ![a] = "idle"] /\ ret' = [ret EXCEPT ![a] = how]
    /\ tx' = [tx EXCEPT ![a] = NoTx] /\ autocommit' = [autocommit EXCEPT ![a] = TRUE]
    /\ link' = IF how = "yes" THEN link ELSE [link EXCEPT ![a] = "none"]
    /\ UNCHANGED <<nextScan, hostOf, scanId, seen>>

Commit(a) ==
    /\ pc[a] = "commit" /\ link[a] = "up"
    /\ Publish(a, tx[a]) /\ Return(a, "yes")

(* The commit is done and its answer lost: reported as an error. *)
CommitUnanswered(a) ==
    /\ pc[a] = "commit" /\ link[a] = "up"
    /\ Publish(a, tx[a]) /\ Return(a, "unsure")

\* Mutant: no rollback, so switching autocommit on commits.
FailWithoutRollback(a) ==
    /\ pc[a] # "idle"
    /\ Publish(a, tx[a]) /\ Return(a, "no")

(* A prepare, bind, execute, fetch or commit fails, at once or at the query
   timeout: roll back. *)
Fail(a) == pc[a] # "idle" /\ UNCHANGED server /\ Return(a, "no")

(* The server loses the session; the agent learns it from its next call. *)
SessionLost(a) ==
    /\ link[a] = "up"
    /\ link' = [link EXCEPT ![a] = "lost"] /\ tx' = [tx EXCEPT ![a] = NoTx]
    /\ UNCHANGED <<server, nextScan, hostOf, autocommit, pc, scanId, ret, seen>>

(* The agent's process dies and is started again. *)
Crash(a) ==
    /\ pc[a] # "idle"
    /\ link' = [link EXCEPT ![a] = "none"] /\ tx' = [tx EXCEPT ![a] = NoTx]
    /\ autocommit' = [autocommit EXCEPT ![a] = TRUE]
    /\ pc' = [pc EXCEPT ![a] = "idle"]
    /\ scanId' = [scanId EXCEPT ![a] = 0] /\ ret' = [ret EXCEPT ![a] = "none"]
    /\ UNCHANGED <<server, nextScan, hostOf, seen>>

(* host_findings, between scans, on the same connection. *)
Query(a) ==
    /\ pc[a] = "idle" /\ link[a] = "up" /\ ~Blocked(a) /\ latest[hostOf[a]] # 0
    /\ seen' = [seen EXCEPT ![a] = latest[hostOf[a]]]
    /\ UNCHANGED <<server, nextScan, tx, hostOf, link, autocommit, pc, scanId, ret>>

---------------------------------------------------------------------------
Statement(a) ==
    \/ Begin(a) \/ HostUpdate(a) \/ HostInsert(a) \/ ScanInsert(a)
    \/ PackageInsert(a) \/ FindingInsert(a) \/ LatestUpdate(a) \/ Commit(a)

Next ==
    \E a \in Agents :
        \/ StartScan(a) \/ Statement(a) \/ CommitUnanswered(a) \/ Fail(a)
        \/ SessionLost(a) \/ Crash(a) \/ Query(a)

Spec == Init /\ [][Next]_vars

---------------------------------------------------------------------------
Scan == [id : 0..MaxScans, packageCount : 0..MaxRows, findingCount : 0..MaxRows,
         packages : 0..MaxRows, findings : 0..MaxRows]

(* The tables and each agent's transaction keep to their values: record_scan
   adds no more rows to a scan than the inventory and the findings have. *)
ScanDbTypeOK ==
    /\ scans \subseteq Scan /\ latest \in [Hosts -> 0..MaxScans] /\ hosts \subseteq Hosts
    /\ nextScan \in 1..(MaxScans + 1)
    /\ tx \in [Agents -> [locked : BOOLEAN, scan : Scan, pointed : BOOLEAN]]
    /\ hostOf \in [Agents -> Hosts]
    /\ link \in [Agents -> {"none", "up", "lost"}]
    /\ autocommit \in [Agents -> BOOLEAN]
    /\ pc \in [Agents -> {"idle", "begin", "update", "insert", "scan", "packages",
                          "findings", "latest", "commit"}]
    /\ scanId \in [Agents -> 0..MaxScans] /\ seen \in [Agents -> 0..MaxScans]
    /\ ret \in [Agents -> {"none", "yes", "no", "unsure"}]

Whole == {s.id : s \in {t \in scans : t.packages = t.packageCount
                                     /\ t.findings = t.findingCount}}

(* "A reader never sees a scan whose findings are half-written, and a crash
   mid-write rolls the whole scan back" (db.hpp:54): every scan anyone can see
   has all its rows, and a host's pointer leads to one of them. *)
NeverHalfWritten ==
    /\ \A s \in scans : s.id \in Whole
    /\ \A h \in Hosts : latest[h] = 0 \/ latest[h] \in Whole

(* What record_scan returns is what happened: after true the scan with this
   scan_id is there, after false it is not, unless the answer to the commit
   itself was lost. *)
ReturnIsTrue ==
    \A a \in Agents :
        /\ ret[a] = "yes" => scanId[a] \in Whole
        /\ ret[a] = "no" => \A s \in scans : s.id # scanId[a]

(* A host's findings never go back to an older scan between two queries, also
   when two machines write under one name: the host's row is locked before the
   scan gets its number. *)
ReadsForward == [][\A a \in Agents : seen'[a] >= seen[a]]_vars

Store == INSTANCE ScanStore WITH whole <- Whole, Ids <- 1..MaxScans

(* The statements, failures and crashes together amount to scans that appear
   whole, one at a time, each the latest of its host. *)
StoresWhole == Store!StoreSpec
=============================================================================
