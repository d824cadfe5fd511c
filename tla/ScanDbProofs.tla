---------------------------- MODULE ScanDbProofs ----------------------------
(***************************************************************************)
(* Proofs about module ScanDb, for any fleet of agents and any host names: *)
(* no reader sees a half-written scan, record_scan's return value is true, *)
(* a host's findings never go back, and the statements implement the store *)
(* of whole scans.                                                         *)
(***************************************************************************)
EXTENDS ScanDb, TLAPS

\* How long, in seconds, the provers may take for a leaf.
USE SMTT(20), ZenonT(20)

Ids == {s.id : s \in scans}

\* From the INSERT of the scan row to the commit.
InScan(a) == pc[a] \in {"packages", "findings", "latest", "commit"}

\* Where an agent is in record_scan says what its transaction holds.  Only a
\* transaction in an open session holds anything, and autocommit is off while
\* there are statements to run.
TxInv(a) ==
    /\ pc[a] \in {"idle", "begin", "update", "insert"} \/ link[a] # "up" => tx[a] = NoTx
    /\ pc[a] \notin {"idle", "begin"} => ~autocommit[a]
    /\ pc[a] # "idle" => ret[a] = "none"
    /\ link[a] = "up" =>
          /\ pc[a] = "scan" => tx[a].locked /\ tx[a].scan = NoScan /\ ~tx[a].pointed
          /\ InScan(a) => /\ tx[a].locked /\ tx[a].scan.id = scanId[a] /\ scanId[a] # 0
                          /\ tx[a].scan.packages <= tx[a].scan.packageCount
                          /\ tx[a].scan.findings <= tx[a].scan.findingCount
          /\ pc[a] \in {"findings", "latest", "commit"} =>
                tx[a].scan.packages = tx[a].scan.packageCount
          /\ pc[a] \in {"latest", "commit"} => tx[a].scan.findings = tx[a].scan.findingCount
          /\ pc[a] = "commit" => tx[a].pointed

\* One agent at a time has the row of a host.
LockInv ==
    \A a, b \in Agents : a # b /\ hostOf[a] = hostOf[b] => ~(tx[a].locked /\ tx[b].locked)

\* A scan's number is handed out once, and the number an agent holds is in the
\* table only if its commit may have gone through.
IdInv ==
    /\ \A a \in Agents : scanId[a] < nextScan
    /\ \A a, b \in Agents : a # b /\ scanId[a] # 0 => scanId[a] # scanId[b]
    /\ \A s \in scans : s.id # 0 /\ s.id < nextScan
    /\ \A a \in Agents : ret[a] \in {"none", "no"} => scanId[a] \notin Ids
    /\ \A a \in Agents : ret[a] = "yes" => scanId[a] \in Ids

\* What is in the tables is complete, a host points into them, and an agent that
\* has the host's row and a number has a newer one than the host points to.
StoreInv ==
    /\ \A s \in scans : s.packages = s.packageCount /\ s.findings = s.findingCount
    /\ \A h \in Hosts : latest[h] = 0 \/ latest[h] \in Ids
    /\ \A a \in Agents : tx[a].locked /\ InScan(a) => latest[hostOf[a]] < scanId[a]
    /\ \A a \in Agents : seen[a] <= latest[hostOf[a]]

\* The inductive invariant.
ScanDbInv == ScanDbTypeOK /\ (\A a \in Agents : TxInv(a)) /\ LockInv /\ IdInv /\ StoreInv

-----------------------------------------------------------------------------
(* The inductive invariant *)

Places == {"idle", "begin", "update", "insert", "scan", "packages", "findings", "latest",
           "commit"}

Tx == [locked : BOOLEAN, scan : Scan, pointed : BOOLEAN]

\* An empty transaction is one.
LEMMA NoTxType == NoScan \in Scan /\ NoTx \in Tx /\ ~NoTx.locked
<1>1. 0 \in 0..MaxScans /\ 0 \in 0..MaxRows
  BY ScanDbAssumption
<1>2. NoScan \in Scan
  BY <1>1 DEF NoScan, Scan
<1> QED
  BY <1>2 DEF NoTx, Tx

\* What an agent's transaction holds depends on the agent's own state alone.
LEMMA OtherTx ==
    ASSUME NEW b \in Agents, TxInv(b),
           tx'[b] = tx[b], pc'[b] = pc[b], ret'[b] = ret[b], autocommit'[b] = autocommit[b],
           link'[b] = link[b], scanId'[b] = scanId[b]
    PROVE  TxInv(b)'
BY Zenon DEF TxInv, InScan

\* And so is one that has only taken the host's row.
LEMMA Locked ==
    /\ [NoTx EXCEPT !.locked = TRUE] \in Tx /\ [NoTx EXCEPT !.locked = TRUE].locked
    /\ [NoTx EXCEPT !.locked = TRUE].scan = NoScan
    /\ ~[NoTx EXCEPT !.locked = TRUE].pointed
<1>1. NoTx.scan = NoScan /\ NoTx.pointed = FALSE
  BY DEF NoTx
<1> QED
  BY <1>1, NoTxType, Zenon DEF Tx

\* Before the first connect nothing is stored and nothing is open.
LEMMA InitInv == Init => ScanDbInv
<1> SUFFICES ASSUME Init PROVE ScanDbInv
  OBVIOUS
<1>1. ScanDbTypeOK
  BY NoTxType, ScanDbAssumption DEF Init, ScanDbTypeOK, Tx
<1>2. ASSUME NEW a \in Agents PROVE TxInv(a)
  BY <1>2 DEF Init, TxInv, InScan
<1>3. LockInv
  BY NoTxType DEF Init, LockInv
<1>4. IdInv
  BY DEF Init, IdInv, Ids
<1>5. StoreInv
  BY <1>1 DEF Init, StoreInv, ScanDbTypeOK, InScan
<1> QED
  BY <1>1, <1>2, <1>3, <1>4, <1>5 DEF ScanDbInv

\* A statement inside the transaction: agent a's transaction becomes t and a goes
\* on to `next`; nobody else sees anything of it.
LEMMA StatementKeeps ==
    ASSUME ScanDbInv, NEW a \in Agents, NEW t \in Tx, NEW next \in Places,
           pc' = [pc EXCEPT ![a] = next], tx' = [tx EXCEPT ![a] = t],
           UNCHANGED <<scans, latest, hosts, nextScan, hostOf, link, autocommit, scanId, ret, seen>>,
           t.locked => tx[a].locked \/ ~Blocked(a),
           t.locked /\ InScan(a)' => latest[hostOf[a]] < scanId[a],
           TxInv(a)'
    PROVE  ScanDbInv'
<1>1. ScanDbTypeOK'
  BY DEF ScanDbInv, ScanDbTypeOK, Tx, Places
<1>2. ASSUME NEW b \in Agents PROVE TxInv(b)'
  <2>1. CASE b = a
    BY <2>1
  <2>2. CASE b # a
    <3>1. tx'[b] = tx[b] /\ pc'[b] = pc[b]
      BY <2>2 DEF ScanDbInv, ScanDbTypeOK
    <3> QED
      BY <3>1 DEF ScanDbInv, TxInv, InScan
  <2> QED
    BY <2>1, <2>2
<1>3. tx'[a] = t /\ \A b \in Agents : b # a => tx'[b] = tx[b] /\ pc'[b] = pc[b]
  BY DEF ScanDbInv, ScanDbTypeOK
<1>4. LockInv'
  BY <1>3 DEF ScanDbInv, LockInv, Blocked
<1>5. IdInv'
  BY DEF ScanDbInv, IdInv, Ids
<1>6. StoreInv'
  BY <1>3 DEF ScanDbInv, StoreInv, InScan, Ids
<1> QED
  BY <1>1, <1>2, <1>4, <1>5, <1>6 DEF ScanDbInv

\* Outside "idle" and "begin" autocommit is off, so a statement touches nothing
\* but the agent's own transaction.
LEMMA InTransaction ==
    ASSUME ScanDbInv, NEW a \in Agents, NEW t, NEW next, Execute(a, t, next),
           pc[a] \notin {"idle", "begin"}
    PROVE  /\ link[a] = "up" /\ ~autocommit[a] /\ TxInv(a) /\ tx[a] \in Tx
           /\ pc' = [pc EXCEPT ![a] = next] /\ tx' = [tx EXCEPT ![a] = t]
           /\ pc'[a] = next /\ tx'[a] = t
           /\ UNCHANGED <<scans, latest, hosts>>
<1>1. TxInv(a) /\ ~autocommit[a] /\ tx[a] \in Tx
  BY DEF ScanDbInv, TxInv, ScanDbTypeOK, Tx
<1>2. pc \in [Agents -> Places] /\ tx \in [Agents -> Tx]
  BY DEF ScanDbInv, ScanDbTypeOK, Tx, Places
<1>3. /\ link[a] = "up" /\ pc' = [pc EXCEPT ![a] = next]
      /\ tx' = [tx EXCEPT ![a] = t] /\ UNCHANGED <<scans, latest, hosts>>
  BY <1>1 DEF Execute, server
<1> QED
  BY <1>1, <1>2, <1>3

\* The UPDATE of the host's row takes the row, or finds none and takes nothing.
LEMMA HostUpdateKeeps ==
    ASSUME ScanDbInv, NEW a \in Agents, HostUpdate(a)
    PROVE  ScanDbInv'
<1>1. /\ pc[a] = "update" /\ ~Blocked(a)
      /\ UNCHANGED <<nextScan, hostOf, link, autocommit, scanId, ret, seen>>
  BY DEF HostUpdate
<1>2. CASE hostOf[a] \in hosts
  <2> DEFINE t == [tx[a] EXCEPT !.locked = TRUE]
  <2>1. Execute(a, t, "scan")
    BY <1>2 DEF HostUpdate
  <2> HIDE DEF t
  <2>2. /\ link[a] = "up" /\ TxInv(a) /\ ~autocommit[a]
        /\ pc' = [pc EXCEPT ![a] = "scan"] /\ tx' = [tx EXCEPT ![a] = t]
        /\ pc'[a] = "scan" /\ tx'[a] = t
        /\ UNCHANGED <<scans, latest, hosts>>
    BY <1>1, <2>1, InTransaction
  <2>3. tx[a] = NoTx
    BY <1>1, <2>2 DEF TxInv
  <2>4. t \in Tx /\ t.locked /\ t.scan = NoScan /\ ~t.pointed
    BY <2>3, Locked DEF t
  <2>5. TxInv(a)'
    BY <1>1, <2>2, <2>4 DEF TxInv, InScan
  <2> QED
    BY <1>1, <2>2, <2>4, <2>5, StatementKeeps, Zenon DEF Places, InScan
<1>3. CASE hostOf[a] \notin hosts
  <2>1. Execute(a, tx[a], "insert")
    BY <1>3 DEF HostUpdate
  <2>2. /\ link[a] = "up" /\ TxInv(a) /\ ~autocommit[a] /\ tx[a] \in Tx
        /\ pc' = [pc EXCEPT ![a] = "insert"] /\ tx' = [tx EXCEPT ![a] = tx[a]]
        /\ pc'[a] = "insert" /\ tx'[a] = tx[a]
        /\ UNCHANGED <<scans, latest, hosts>>
    BY <1>1, <2>1, InTransaction
  <2>3. TxInv(a)'
    BY <1>1, <2>2 DEF TxInv, InScan
  <2> QED
    BY <1>1, <2>2, <2>3, StatementKeeps, Zenon DEF Places, InScan
<1> QED
  BY <1>2, <1>3

\* The INSERT of the host's row takes it.
LEMMA HostInsertKeeps ==
    ASSUME ScanDbInv, NEW a \in Agents, HostInsert(a)
    PROVE  ScanDbInv'
<1> DEFINE t == [tx[a] EXCEPT !.locked = TRUE]
<1>1. /\ pc[a] = "insert" /\ ~Blocked(a) /\ Execute(a, t, "scan")
      /\ UNCHANGED <<nextScan, hostOf, link, autocommit, scanId, ret, seen>>
  BY DEF HostInsert
<1> HIDE DEF t
<1>2. /\ link[a] = "up" /\ TxInv(a) /\ ~autocommit[a]
      /\ pc' = [pc EXCEPT ![a] = "scan"] /\ tx' = [tx EXCEPT ![a] = t]
      /\ pc'[a] = "scan" /\ tx'[a] = t
      /\ UNCHANGED <<scans, latest, hosts>>
  BY <1>1, InTransaction
<1>3. tx[a] = NoTx
  BY <1>1, <1>2 DEF TxInv
<1>4. t \in Tx /\ t.locked /\ t.scan = NoScan /\ ~t.pointed
  BY <1>3, Locked DEF t
<1>5. TxInv(a)'
  BY <1>1, <1>2, <1>4 DEF TxInv, InScan
<1> QED
  BY <1>1, <1>2, <1>4, <1>5, StatementKeeps, Zenon DEF Places, InScan

\* The number is new, so it is nobody's and newer than any host points to.
LEMMA ScanInsertKeeps ==
    ASSUME ScanDbInv, NEW a \in Agents, ScanInsert(a)
    PROVE  ScanDbInv'
<1>1. /\ pc[a] = "scan" /\ nextScan <= MaxScans
      /\ nextScan' = nextScan + 1 /\ scanId' = [scanId EXCEPT ![a] = nextScan]
      /\ UNCHANGED <<hostOf, link, autocommit, ret, seen>>
  BY DEF ScanInsert
<1>2. PICK np \in 0..MaxRows, nf \in 0..MaxRows :
          Execute(a, [tx[a] EXCEPT !.scan = [id |-> nextScan, packageCount |-> np,
                         findingCount |-> nf, packages |-> 0, findings |-> 0]], "packages")
  BY DEF ScanInsert
<1> DEFINE s == [id |-> nextScan, packageCount |-> np, findingCount |-> nf,
                 packages |-> 0, findings |-> 0]
           t == [tx[a] EXCEPT !.scan = s]
<1>3. nextScan \in 0..MaxScans /\ nextScan # 0 /\ 0 \in 0..MaxRows
  BY <1>1, ScanDbAssumption DEF ScanDbInv, ScanDbTypeOK
<1>4. /\ s \in Scan /\ s.id = nextScan
      /\ s.packages <= s.packageCount /\ s.findings <= s.findingCount
  BY <1>3, ScanDbAssumption DEF Scan
<1>5. Execute(a, t, "packages")
  BY <1>2
<1> HIDE DEF s, t
<1>6. /\ link[a] = "up" /\ TxInv(a) /\ ~autocommit[a] /\ tx[a] \in Tx
      /\ pc' = [pc EXCEPT ![a] = "packages"] /\ tx' = [tx EXCEPT ![a] = t]
      /\ pc'[a] = "packages" /\ tx'[a] = t
      /\ UNCHANGED <<scans, latest, hosts>>
  BY <1>1, <1>5, InTransaction
<1>7. tx[a].locked
  BY <1>1, <1>6 DEF TxInv
<1>8. t \in Tx /\ t.locked /\ t.scan = s
  BY <1>4, <1>6, <1>7, Zenon DEF t, Tx
<1>9. ScanDbTypeOK
  BY DEF ScanDbInv
<1>10. /\ scanId'[a] = nextScan
       /\ \A b \in Agents : b # a => /\ scanId'[b] = scanId[b]
                                     /\ pc'[b] = pc[b] /\ tx'[b] = tx[b]
  BY <1>1, <1>6, <1>9 DEF ScanDbTypeOK
<1>11. ScanDbTypeOK'
  <2>1. tx' \in [Agents -> Tx]
    BY <1>6, <1>8, <1>9 DEF ScanDbTypeOK, Tx
  <2>2. nextScan' \in 1..(MaxScans + 1) /\ scanId' \in [Agents -> 0..MaxScans]
    BY <1>1, <1>3, <1>9, ScanDbAssumption DEF ScanDbTypeOK
  <2>3. pc' \in [Agents -> Places]
    BY <1>6, <1>9 DEF ScanDbTypeOK, Places
  <2> QED
    BY <1>1, <1>6, <1>9, <2>1, <2>2, <2>3 DEF ScanDbTypeOK, Tx, Places
<1>12. ASSUME NEW b \in Agents PROVE TxInv(b)'
  <2>1. CASE b = a
    BY <1>1, <1>3, <1>4, <1>6, <1>8, <1>10, <2>1 DEF TxInv, InScan
  <2>2. CASE b # a
    <3>1. TxInv(b)
      BY DEF ScanDbInv
    <3> QED
      BY <1>1, <1>10, <2>2, <3>1, OtherTx, Zenon
  <2> QED
    BY <2>1, <2>2
<1>13. LockInv'
  BY <1>1, <1>6, <1>7, <1>10 DEF ScanDbInv, LockInv
<1>14. IdInv'
  <2>1. \A b \in Agents : scanId[b] < nextScan /\ scanId[b] \in Int /\ nextScan \in Int
    BY <1>9 DEF ScanDbInv, IdInv, ScanDbTypeOK
  <2>2. \A b \in Agents : scanId'[b] < nextScan'
    BY <1>1, <1>10, <2>1
  <2>3. \A b, c \in Agents : b # c /\ scanId'[b] # 0 => scanId'[b] # scanId'[c]
    BY <1>10, <2>1 DEF ScanDbInv, IdInv
  <2>4. Ids' = Ids /\ nextScan \notin Ids /\ ret[a] = "none"
    BY <1>1, <1>6, <2>1 DEF ScanDbInv, IdInv, Ids, TxInv
  <2>5. \A s1 \in scans' : s1.id # 0 /\ s1.id < nextScan'
    BY <1>1, <1>6, <1>9, <2>1 DEF ScanDbInv, IdInv, ScanDbTypeOK, Scan
  <2> QED
    BY <1>1, <1>10, <2>2, <2>3, <2>4, <2>5 DEF ScanDbInv, IdInv
<1>15. \A h \in Hosts : latest[h] < nextScan
  BY <1>9, <1>3 DEF ScanDbInv, StoreInv, IdInv, Ids, ScanDbTypeOK
<1>16. StoreInv'
  BY <1>1, <1>6, <1>9, <1>10, <1>15 DEF ScanDbInv, StoreInv, InScan, Ids, ScanDbTypeOK
<1> QED
  BY <1>11, <1>12, <1>13, <1>14, <1>16 DEF ScanDbInv

\* One package row more, or on to the findings when they are all there.
LEMMA PackageInsertKeeps ==
    ASSUME ScanDbInv, NEW a \in Agents, PackageInsert(a)
    PROVE  ScanDbInv'
<1>1. /\ pc[a] = "packages"
      /\ UNCHANGED <<nextScan, hostOf, link, autocommit, scanId, ret, seen>>
  BY DEF PackageInsert
<1>2. CASE tx[a].scan.packages < tx[a].scan.packageCount
  <2> DEFINE t == [tx[a] EXCEPT !.scan.packages = @ + 1]
  <2>1. Execute(a, t, "packages")
    BY <1>2 DEF PackageInsert
  <2> HIDE DEF t
  <2>2. /\ link[a] = "up" /\ TxInv(a) /\ ~autocommit[a] /\ tx[a] \in Tx
        /\ pc' = [pc EXCEPT ![a] = "packages"] /\ tx' = [tx EXCEPT ![a] = t]
        /\ pc'[a] = "packages" /\ tx'[a] = t
        /\ UNCHANGED <<scans, latest, hosts>>
    BY <1>1, <2>1, InTransaction
  <2>3. tx[a].scan \in Scan
    BY <2>2 DEF Tx
  <2>4. tx[a].scan.packages + 1 \in 0..MaxRows
    BY <1>2, <2>3, ScanDbAssumption DEF Scan
  <2>5. [tx[a].scan EXCEPT !.packages = @ + 1] \in Scan
    BY <2>3, <2>4, Zenon DEF Scan
  <2>6. /\ t = [tx[a] EXCEPT !.scan = [tx[a].scan EXCEPT !.packages = @ + 1]]
    BY <2>2 DEF t, Tx
  <2>7. /\ t \in Tx /\ t.locked = tx[a].locked
        /\ t.scan = [tx[a].scan EXCEPT !.packages = @ + 1]
    BY <2>2, <2>5, <2>6 DEF Tx
  <2>8. /\ t.scan.id = tx[a].scan.id
        /\ t.scan.packages <= t.scan.packageCount
        /\ t.scan.findings = tx[a].scan.findings
        /\ t.scan.findingCount = tx[a].scan.findingCount
    BY <1>2, <2>3, <2>7 DEF Scan
  <2>10. TxInv(a)'
    BY <1>1, <2>2, <2>7, <2>8, Zenon DEF TxInv, InScan
  <2>9. InScan(a) /\ (tx[a].locked => latest[hostOf[a]] < scanId[a])
    BY <1>1 DEF ScanDbInv, StoreInv, InScan
  <2> QED
    BY <1>1, <2>2, <2>7, <2>9, <2>10, StatementKeeps, Zenon DEF Places
<1>3. CASE ~(tx[a].scan.packages < tx[a].scan.packageCount)
  <2>1. Execute(a, tx[a], "findings")
    BY <1>3 DEF PackageInsert
  <2>2. /\ link[a] = "up" /\ TxInv(a) /\ ~autocommit[a] /\ tx[a] \in Tx
        /\ pc' = [pc EXCEPT ![a] = "findings"] /\ tx' = [tx EXCEPT ![a] = tx[a]]
        /\ pc'[a] = "findings" /\ tx'[a] = tx[a]
        /\ UNCHANGED <<scans, latest, hosts>>
    BY <1>1, <2>1, InTransaction
  <2>3. tx[a].scan.packages = tx[a].scan.packageCount
    BY <1>1, <1>3, <2>2 DEF TxInv, InScan, Tx, Scan
  <2>4. TxInv(a)'
    BY <1>1, <2>2, <2>3 DEF TxInv, InScan
  <2>5. InScan(a) /\ (tx[a].locked => latest[hostOf[a]] < scanId[a])
    BY <1>1 DEF ScanDbInv, StoreInv, InScan
  <2> QED
    BY <1>1, <2>2, <2>4, <2>5, StatementKeeps, Zenon DEF Places
<1> QED
  BY <1>2, <1>3

\* One finding row more, or on to the pointer when they are all there.
LEMMA FindingInsertKeeps ==
    ASSUME ScanDbInv, NEW a \in Agents, FindingInsert(a)
    PROVE  ScanDbInv'
<1>1. /\ pc[a] = "findings"
      /\ UNCHANGED <<nextScan, hostOf, link, autocommit, scanId, ret, seen>>
  BY DEF FindingInsert
<1>2. CASE tx[a].scan.findings < tx[a].scan.findingCount
  <2> DEFINE t == [tx[a] EXCEPT !.scan.findings = @ + 1]
  <2>1. Execute(a, t, "findings")
    BY <1>2 DEF FindingInsert
  <2> HIDE DEF t
  <2>2. /\ link[a] = "up" /\ TxInv(a) /\ ~autocommit[a] /\ tx[a] \in Tx
        /\ pc' = [pc EXCEPT ![a] = "findings"] /\ tx' = [tx EXCEPT ![a] = t]
        /\ pc'[a] = "findings" /\ tx'[a] = t
        /\ UNCHANGED <<scans, latest, hosts>>
    BY <1>1, <2>1, InTransaction
  <2>3. tx[a].scan \in Scan
    BY <2>2 DEF Tx
  <2>4. tx[a].scan.findings + 1 \in 0..MaxRows
    BY <1>2, <2>3, ScanDbAssumption DEF Scan
  <2>5. [tx[a].scan EXCEPT !.findings = @ + 1] \in Scan
    BY <2>3, <2>4, Zenon DEF Scan
  <2>6. t = [tx[a] EXCEPT !.scan = [tx[a].scan EXCEPT !.findings = @ + 1]]
    BY <2>2 DEF t, Tx
  <2>7. /\ t \in Tx /\ t.locked = tx[a].locked
        /\ t.scan = [tx[a].scan EXCEPT !.findings = @ + 1]
    BY <2>2, <2>5, <2>6 DEF Tx
  <2>8. /\ t.scan.id = tx[a].scan.id
        /\ t.scan.findings <= t.scan.findingCount
        /\ t.scan.packages = tx[a].scan.packages
        /\ t.scan.packageCount = tx[a].scan.packageCount
    BY <1>2, <2>3, <2>7 DEF Scan
  <2>9. InScan(a) /\ (tx[a].locked => latest[hostOf[a]] < scanId[a])
    BY <1>1 DEF ScanDbInv, StoreInv, InScan
  <2>10. TxInv(a)'
    BY <1>1, <2>2, <2>7, <2>8, ZenonT(30) DEF TxInv, InScan
  <2> QED
    BY <1>1, <2>2, <2>7, <2>9, <2>10, StatementKeeps, Zenon DEF Places
<1>3. CASE ~(tx[a].scan.findings < tx[a].scan.findingCount)
  <2>1. Execute(a, tx[a], "latest")
    BY <1>3 DEF FindingInsert
  <2>2. /\ link[a] = "up" /\ TxInv(a) /\ ~autocommit[a] /\ tx[a] \in Tx
        /\ pc' = [pc EXCEPT ![a] = "latest"] /\ tx' = [tx EXCEPT ![a] = tx[a]]
        /\ pc'[a] = "latest" /\ tx'[a] = tx[a]
        /\ UNCHANGED <<scans, latest, hosts>>
    BY <1>1, <2>1, InTransaction
  <2>3. tx[a].scan.findings = tx[a].scan.findingCount
    BY <1>1, <1>3, <2>2 DEF TxInv, InScan, Tx, Scan
  <2>4. TxInv(a)'
    BY <1>1, <2>2, <2>3 DEF TxInv, InScan
  <2>5. InScan(a) /\ (tx[a].locked => latest[hostOf[a]] < scanId[a])
    BY <1>1 DEF ScanDbInv, StoreInv, InScan
  <2> QED
    BY <1>1, <2>2, <2>4, <2>5, StatementKeeps, Zenon DEF Places
<1> QED
  BY <1>2, <1>3

\* The UPDATE of latest_scan_id stays in the transaction until the commit.
LEMMA LatestUpdateKeeps ==
    ASSUME ScanDbInv, NEW a \in Agents, LatestUpdate(a)
    PROVE  ScanDbInv'
<1> DEFINE t == [tx[a] EXCEPT !.pointed = TRUE, !.locked = TRUE]
<1>1. /\ pc[a] = "latest" /\ ~Blocked(a) /\ Execute(a, t, "commit")
      /\ UNCHANGED <<nextScan, hostOf, link, autocommit, scanId, ret, seen>>
  BY DEF LatestUpdate
<1> HIDE DEF t
<1>2. /\ link[a] = "up" /\ TxInv(a) /\ ~autocommit[a] /\ tx[a] \in Tx
      /\ pc' = [pc EXCEPT ![a] = "commit"] /\ tx' = [tx EXCEPT ![a] = t]
      /\ pc'[a] = "commit" /\ tx'[a] = t
      /\ UNCHANGED <<scans, latest, hosts>>
  BY <1>1, InTransaction
<1>3. t \in Tx /\ t.locked /\ t.pointed /\ t.scan = tx[a].scan
  BY <1>2, Zenon DEF t, Tx
<1>4. TxInv(a)'
  BY <1>1, <1>2, <1>3 DEF TxInv, InScan
<1>5. latest[hostOf[a]] < scanId[a]
  BY <1>1, <1>2 DEF ScanDbInv, StoreInv, InScan, TxInv
<1> QED
  BY <1>1, <1>2, <1>3, <1>4, <1>5, StatementKeeps, Zenon DEF Places

\* The commit: the scan appears with its rows, and the host points to it.
LEMMA Committed ==
    ASSUME ScanDbInv, NEW a \in Agents, pc[a] = "commit", link[a] = "up", Publish(a, tx[a])
    PROVE  /\ scans' = scans \cup {tx[a].scan} /\ tx[a].scan \in Scan
           /\ tx[a].scan.id = scanId[a] /\ scanId[a] # 0 /\ scanId[a] \notin Ids
           /\ tx[a].scan.packages = tx[a].scan.packageCount
           /\ tx[a].scan.findings = tx[a].scan.findingCount
           /\ hosts' \subseteq Hosts
           /\ tx[a].locked /\ latest[hostOf[a]] < scanId[a]
           /\ latest' = [latest EXCEPT ![hostOf[a]] = scanId[a]]
           /\ Ids' = Ids \cup {scanId[a]}
<1>1. /\ tx[a].locked /\ tx[a].scan.id = scanId[a] /\ scanId[a] # 0 /\ tx[a].pointed
      /\ tx[a].scan.packages = tx[a].scan.packageCount
      /\ tx[a].scan.findings = tx[a].scan.findingCount
      /\ ret[a] = "none"
  BY DEF ScanDbInv, TxInv, InScan
<1>2. tx[a].scan \in Scan /\ hostOf[a] \in Hosts /\ hosts \subseteq Hosts
  BY DEF ScanDbInv, ScanDbTypeOK
<1>3. scanId[a] \notin Ids
  BY <1>1 DEF ScanDbInv, IdInv
<1>4. tx[a].scan # NoScan
  BY <1>1 DEF NoScan
<1>5. scans' = scans \cup {tx[a].scan}
  BY <1>1, <1>3, <1>4 DEF Publish, Ids
<1>6. hosts' \subseteq Hosts /\ latest' = [latest EXCEPT ![hostOf[a]] = scanId[a]]
  BY <1>1, <1>2 DEF Publish
<1>7. latest[hostOf[a]] < scanId[a]
  BY <1>1 DEF ScanDbInv, StoreInv, InScan
<1>8. Ids' = Ids \cup {scanId[a]}
  BY <1>1, <1>5 DEF Ids
<1> QED
  BY <1>1, <1>2, <1>3, <1>5, <1>6, <1>7, <1>8

\* A commit, answered or not, publishes a whole scan that is newer than what its
\* host pointed to; no other agent has that host's row.
LEMMA CommitKeeps ==
    ASSUME ScanDbInv, NEW a \in Agents, Commit(a) \/ CommitUnanswered(a)
    PROVE  ScanDbInv'
<1>1. PICK how \in {"yes", "unsure"} :
         pc[a] = "commit" /\ link[a] = "up" /\ Publish(a, tx[a]) /\ Return(a, how)
  BY DEF Commit, CommitUnanswered
<1>2. /\ pc' = [pc EXCEPT ![a] = "idle"] /\ ret' = [ret EXCEPT ![a] = how]
      /\ tx' = [tx EXCEPT ![a] = NoTx] /\ autocommit' = [autocommit EXCEPT ![a] = TRUE]
      /\ link' = IF how = "yes" THEN link ELSE [link EXCEPT ![a] = "none"]
      /\ UNCHANGED <<nextScan, hostOf, scanId, seen>>
  BY <1>1 DEF Return
<1>3. ScanDbTypeOK
  BY DEF ScanDbInv
<1>4. /\ scans' = scans \cup {tx[a].scan} /\ tx[a].scan \in Scan
      /\ tx[a].scan.id = scanId[a] /\ scanId[a] # 0 /\ scanId[a] \notin Ids
      /\ tx[a].scan.packages = tx[a].scan.packageCount
      /\ tx[a].scan.findings = tx[a].scan.findingCount
      /\ hosts' \subseteq Hosts
      /\ tx[a].locked /\ latest[hostOf[a]] < scanId[a]
      /\ latest' = [latest EXCEPT ![hostOf[a]] = scanId[a]]
      /\ Ids' = Ids \cup {scanId[a]}
  BY <1>1, Committed
<1>5. ScanDbTypeOK'
  BY <1>2, <1>3, <1>4, NoTxType DEF ScanDbTypeOK, Tx
<1>6. /\ tx'[a] = NoTx /\ pc'[a] = "idle" /\ ret'[a] = how
      /\ \A b \in Agents : b # a =>
            /\ tx'[b] = tx[b] /\ pc'[b] = pc[b] /\ ret'[b] = ret[b]
            /\ autocommit'[b] = autocommit[b] /\ link'[b] = link[b]
  BY <1>2, <1>3 DEF ScanDbTypeOK
<1>7. ASSUME NEW b \in Agents PROVE TxInv(b)'
  <2>1. CASE b = a
    BY <1>6, <2>1 DEF TxInv, InScan
  <2>2. CASE b # a
    <3>1. TxInv(b)
      BY DEF ScanDbInv
    <3> QED
      BY <1>2, <1>6, <2>2, <3>1, OtherTx, Zenon
  <2> QED
    BY <2>1, <2>2
<1>8. LockInv'
  BY <1>2, <1>6, NoTxType DEF ScanDbInv, LockInv
<1>9. IdInv'
  <2>1. \A s \in scans' : s.id # 0 /\ s.id < nextScan'
    BY <1>2, <1>4 DEF ScanDbInv, IdInv
  <2>2. \A b \in Agents : ret'[b] \in {"none", "no"} => scanId[b] \notin Ids'
    <3> SUFFICES ASSUME NEW b \in Agents, ret'[b] \in {"none", "no"} PROVE scanId[b] \notin Ids'
      OBVIOUS
    <3>1. b # a
      BY <1>1, <1>6
    <3> QED
      BY <3>1, <1>4, <1>6 DEF ScanDbInv, IdInv
  <2>3. \A b \in Agents : ret'[b] = "yes" => scanId[b] \in Ids'
    BY <1>4, <1>6 DEF ScanDbInv, IdInv
  <2> QED
    BY <1>2, <2>1, <2>2, <2>3 DEF ScanDbInv, IdInv
<1>10. StoreInv'
  <2>1. \A h \in Hosts : latest'[h] = IF h = hostOf[a] THEN scanId[a] ELSE latest[h]
    BY <1>3, <1>4 DEF ScanDbTypeOK
  <2>2. \A b \in Agents : hostOf[b] \in Hosts
    BY <1>3 DEF ScanDbTypeOK
  <2>3. \A s \in scans' : s.packages = s.packageCount /\ s.findings = s.findingCount
    BY <1>4 DEF ScanDbInv, StoreInv
  <2>4. \A h \in Hosts : latest'[h] = 0 \/ latest'[h] \in Ids'
    BY <1>4, <2>1 DEF ScanDbInv, StoreInv
  <2>5. ASSUME NEW b \in Agents, tx'[b].locked, InScan(b)'
        PROVE  latest'[hostOf[b]] < scanId[b]
    <3>1. b # a
      BY <1>6, <2>5, NoTxType
    <3>2. tx[b].locked /\ InScan(b) /\ hostOf[b] # hostOf[a]
      BY <1>4, <1>6, <2>5, <3>1, Zenon DEF ScanDbInv, LockInv, InScan
    <3> QED
      BY <2>1, <2>2, <3>2 DEF ScanDbInv, StoreInv
  <2>6. ASSUME NEW b \in Agents PROVE seen[b] <= latest'[hostOf[b]]
    BY <1>3, <1>4, <2>1, <2>2 DEF ScanDbInv, StoreInv, ScanDbTypeOK
  <2> QED
    BY <1>2, <2>3, <2>4, <2>5, <2>6 DEF StoreInv
<1> QED
  BY <1>5, <1>7, <1>8, <1>9, <1>10 DEF ScanDbInv

\* A rollback leaves nothing behind: the number stays unused.
LEMMA FailKeeps ==
    ASSUME ScanDbInv, NEW a \in Agents, Fail(a)
    PROVE  ScanDbInv'
<1>1. /\ pc[a] # "idle" /\ pc' = [pc EXCEPT ![a] = "idle"] /\ ret' = [ret EXCEPT ![a] = "no"]
      /\ tx' = [tx EXCEPT ![a] = NoTx] /\ autocommit' = [autocommit EXCEPT ![a] = TRUE]
      /\ link' = [link EXCEPT ![a] = "none"]
      /\ UNCHANGED <<scans, latest, hosts, nextScan, hostOf, scanId, seen>>
  BY DEF Fail, Return, server
<1>2. ScanDbTypeOK /\ ret[a] = "none"
  BY <1>1 DEF ScanDbInv, TxInv
<1>3. ScanDbTypeOK'
  BY <1>1, <1>2, NoTxType DEF ScanDbTypeOK, Tx
<1>4. /\ tx'[a] = NoTx /\ pc'[a] = "idle" /\ ret'[a] = "no"
      /\ \A b \in Agents : b # a =>
            /\ tx'[b] = tx[b] /\ pc'[b] = pc[b] /\ ret'[b] = ret[b]
            /\ autocommit'[b] = autocommit[b] /\ link'[b] = link[b]
  BY <1>1, <1>2 DEF ScanDbTypeOK
<1>5. ASSUME NEW b \in Agents PROVE TxInv(b)'
  <2>1. CASE b = a
    BY <1>4, <2>1 DEF TxInv, InScan
  <2>2. CASE b # a
    <3>1. TxInv(b)
      BY DEF ScanDbInv
    <3> QED
      BY <1>1, <1>4, <2>2, <3>1, OtherTx, Zenon
  <2> QED
    BY <2>1, <2>2
<1>6. LockInv'
  BY <1>1, <1>4, NoTxType DEF ScanDbInv, LockInv
<1>7. IdInv'
  BY <1>1, <1>2, <1>4 DEF ScanDbInv, IdInv, Ids
<1>8. StoreInv'
  BY <1>1, <1>4, NoTxType DEF ScanDbInv, StoreInv, InScan, Ids
<1> QED
  BY <1>3, <1>5, <1>6, <1>7, <1>8 DEF ScanDbInv

\* A crash forgets the number as well.
LEMMA CrashKeeps ==
    ASSUME ScanDbInv, NEW a \in Agents, Crash(a)
    PROVE  ScanDbInv'
<1>1. /\ pc' = [pc EXCEPT ![a] = "idle"] /\ ret' = [ret EXCEPT ![a] = "none"]
      /\ tx' = [tx EXCEPT ![a] = NoTx] /\ autocommit' = [autocommit EXCEPT ![a] = TRUE]
      /\ link' = [link EXCEPT ![a] = "none"] /\ scanId' = [scanId EXCEPT ![a] = 0]
      /\ UNCHANGED <<scans, latest, hosts, nextScan, hostOf, seen>>
  BY DEF Crash, server
<1>2. ScanDbTypeOK
  BY DEF ScanDbInv
<1>3. ScanDbTypeOK'
  BY <1>1, <1>2, NoTxType, ScanDbAssumption DEF ScanDbTypeOK, Tx
<1>4. /\ tx'[a] = NoTx /\ pc'[a] = "idle" /\ ret'[a] = "none" /\ scanId'[a] = 0
      /\ \A b \in Agents : b # a =>
            /\ tx'[b] = tx[b] /\ pc'[b] = pc[b] /\ ret'[b] = ret[b]
            /\ autocommit'[b] = autocommit[b] /\ link'[b] = link[b] /\ scanId'[b] = scanId[b]
  BY <1>1, <1>2 DEF ScanDbTypeOK
<1>5. ASSUME NEW b \in Agents PROVE TxInv(b)'
  <2>1. CASE b = a
    BY <1>4, <2>1 DEF TxInv, InScan
  <2>2. CASE b # a
    <3>1. TxInv(b)
      BY DEF ScanDbInv
    <3> QED
      BY <1>1, <1>4, <2>2, <3>1, OtherTx, Zenon
  <2> QED
    BY <2>1, <2>2
<1>6. LockInv'
  BY <1>1, <1>4, NoTxType DEF ScanDbInv, LockInv
<1>7. IdInv'
  <2>1. 0 \notin Ids /\ 0 < nextScan
    BY <1>2 DEF ScanDbInv, IdInv, Ids, ScanDbTypeOK
  <2>2. Ids' = Ids /\ nextScan' = nextScan
    BY <1>1, Zenon DEF Ids
  <2>3. IdInv
    BY DEF ScanDbInv
  <2>4. \A b \in Agents : scanId'[b] < nextScan'
    BY <1>4, <2>1, <2>2, <2>3, Zenon DEF IdInv
  <2>5. \A b, c \in Agents : b # c /\ scanId'[b] # 0 => scanId'[b] # scanId'[c]
    <3> SUFFICES ASSUME NEW b \in Agents, NEW c \in Agents, b # c, scanId'[b] # 0
                 PROVE  scanId'[b] # scanId'[c]
      OBVIOUS
    <3>1. b # a /\ scanId'[b] = scanId[b]
      BY <1>4, Zenon
    <3>2. CASE c = a
      BY <1>4, <3>2, Zenon
    <3>3. CASE c # a
      <4>1. scanId'[c] = scanId[c]
        BY <1>4, <3>3, Zenon
      <4> QED
        BY <2>3, <3>1, <4>1, Zenon DEF IdInv
    <3> QED
      BY <3>2, <3>3
  <2>6. \A s \in scans' : s.id # 0 /\ s.id < nextScan'
    BY <1>1, <2>3, Zenon DEF IdInv
  <2>7. \A b \in Agents : /\ ret'[b] \in {"none", "no"} => scanId'[b] \notin Ids'
                          /\ ret'[b] = "yes" => scanId'[b] \in Ids'
    <3> SUFFICES ASSUME NEW b \in Agents
                 PROVE  /\ ret'[b] \in {"none", "no"} => scanId'[b] \notin Ids'
                        /\ ret'[b] = "yes" => scanId'[b] \in Ids'
      OBVIOUS
    <3>1. CASE b = a
      BY <1>4, <2>1, <2>2, <3>1, Zenon
    <3>2. CASE b # a
      BY <1>4, <2>2, <2>3, <3>2, Zenon DEF IdInv
    <3> QED
      BY <3>1, <3>2
  <2> QED
    BY <2>4, <2>5, <2>6, <2>7, Zenon DEF IdInv
<1>8. StoreInv'
  BY <1>1, <1>4, NoTxType DEF ScanDbInv, StoreInv, InScan, Ids
<1> QED
  BY <1>3, <1>5, <1>6, <1>7, <1>8 DEF ScanDbInv

\* A lost session takes the transaction with it.
LEMMA SessionLostKeeps ==
    ASSUME ScanDbInv, NEW a \in Agents, SessionLost(a)
    PROVE  ScanDbInv'
<1>1. /\ tx' = [tx EXCEPT ![a] = NoTx] /\ link' = [link EXCEPT ![a] = "lost"]
      /\ UNCHANGED <<scans, latest, hosts, nextScan, hostOf, autocommit, pc, scanId, ret, seen>>
  BY DEF SessionLost, server
<1>2. ScanDbTypeOK
  BY DEF ScanDbInv
<1>3. ScanDbTypeOK'
  BY <1>1, <1>2, NoTxType DEF ScanDbTypeOK, Tx
<1>4. /\ tx'[a] = NoTx /\ link'[a] = "lost"
      /\ \A b \in Agents : b # a => tx'[b] = tx[b] /\ link'[b] = link[b]
  BY <1>1, <1>2 DEF ScanDbTypeOK
<1>5. ASSUME NEW b \in Agents PROVE TxInv(b)'
  <2>1. CASE b = a
    BY <1>1, <1>4, <2>1, Zenon DEF ScanDbInv, TxInv, InScan
  <2>2. CASE b # a
    <3>1. TxInv(b)
      BY DEF ScanDbInv
    <3> QED
      BY <1>1, <1>4, <2>2, <3>1, OtherTx, Zenon
  <2> QED
    BY <2>1, <2>2
<1>6. LockInv'
  BY <1>1, <1>4, NoTxType DEF ScanDbInv, LockInv
<1>7. IdInv' /\ StoreInv'
  BY <1>1, <1>4, NoTxType DEF ScanDbInv, StoreInv, IdInv, InScan, Ids
<1> QED
  BY <1>3, <1>5, <1>6, <1>7 DEF ScanDbInv

\* write_db's connect, made or failed, with no transaction open.
LEMMA StartScanKeeps ==
    ASSUME ScanDbInv, NEW a \in Agents, StartScan(a)
    PROVE  ScanDbInv'
<1>1. /\ pc[a] = "idle" /\ scanId' = [scanId EXCEPT ![a] = 0]
      /\ UNCHANGED <<scans, latest, hosts, nextScan, tx, hostOf, autocommit, seen>>
  BY DEF StartScan, server
<1>2. PICK p \in {"idle", "begin"}, r \in {"none", "no"}, l \in {"none", "up", "lost"} :
         /\ pc' = [pc EXCEPT ![a] = p] /\ ret' = [ret EXCEPT ![a] = r]
         /\ link' = [link EXCEPT ![a] = l] /\ (p = "begin" => r = "none")
  <2>1. CASE /\ link' = [link EXCEPT ![a] = IF @ = "none" THEN "up" ELSE @]
             /\ pc' = [pc EXCEPT ![a] = "begin"] /\ ret' = [ret EXCEPT ![a] = "none"]
    <3>1. (IF link[a] = "none" THEN "up" ELSE link[a]) \in {"none", "up", "lost"}
      BY DEF ScanDbInv, ScanDbTypeOK
    <3> QED
      BY <2>1, <3>1, Zenon
  <2>2. CASE link[a] = "none" /\ ret' = [ret EXCEPT ![a] = "no"] /\ UNCHANGED <<link, pc>>
    BY <1>1, <2>2 DEF ScanDbInv, ScanDbTypeOK
  <2> QED
    BY <2>1, <2>2 DEF StartScan
<1>3. ScanDbTypeOK /\ tx[a] = NoTx
  BY <1>1 DEF ScanDbInv, TxInv
<1>4. ScanDbTypeOK'
  BY <1>1, <1>2, <1>3, ScanDbAssumption DEF ScanDbTypeOK
<1>5. /\ pc'[a] = p /\ ret'[a] = r /\ scanId'[a] = 0
      /\ \A b \in Agents : b # a =>
            /\ pc'[b] = pc[b] /\ ret'[b] = ret[b]
            /\ link'[b] = link[b] /\ scanId'[b] = scanId[b]
  BY <1>1, <1>2, <1>3 DEF ScanDbTypeOK
<1>6. ASSUME NEW b \in Agents PROVE TxInv(b)'
  <2>1. CASE b = a
    BY <1>1, <1>2, <1>3, <1>5, <2>1, Zenon DEF TxInv, InScan
  <2>2. CASE b # a
    <3>1. TxInv(b)
      BY DEF ScanDbInv
    <3> QED
      BY <1>1, <1>5, <2>2, <3>1, OtherTx, Zenon
  <2> QED
    BY <2>1, <2>2
<1>7. LockInv'
  BY <1>1, Zenon DEF ScanDbInv, LockInv
<1>8. IdInv'
  <2>1. 0 \notin Ids /\ 0 < nextScan
    BY <1>3 DEF ScanDbInv, IdInv, Ids, ScanDbTypeOK
  <2>2. IdInv /\ Ids' = Ids /\ UNCHANGED <<scans, nextScan>>
    BY <1>1, Zenon DEF ScanDbInv, Ids
  <2>3. ret'[a] # "yes" /\ scanId'[a] = 0
    BY <1>2, <1>5
  <2>4. \A b \in Agents : scanId'[b] < nextScan'
    BY <1>5, <2>1, <2>2, Zenon DEF IdInv
  <2>5. ASSUME NEW b \in Agents, NEW c \in Agents, b # c, scanId'[b] # 0
        PROVE  scanId'[b] # scanId'[c]
    <3>1. b # a /\ scanId'[b] = scanId[b]
      BY <1>5, <2>3, <2>5, Zenon
    <3>2. c = a \/ scanId'[c] = scanId[c]
      BY <1>5, Zenon
    <3>3. scanId[b] # scanId[c]
      BY <2>2, <2>5, <3>1, Zenon DEF IdInv
    <3> QED
      BY <2>3, <2>5, <3>1, <3>2, <3>3, Zenon
  <2>6. \A b \in Agents : /\ ret'[b] \in {"none", "no"} => scanId'[b] \notin Ids'
                          /\ ret'[b] = "yes" => scanId'[b] \in Ids'
    BY <1>5, <2>1, <2>2, <2>3, ZenonT(30) DEF IdInv
  <2> QED
    BY <2>2, <2>4, <2>5, <2>6, Zenon DEF IdInv
<1>9. StoreInv'
  BY <1>1, <1>2, <1>5 DEF ScanDbInv, StoreInv, InScan, Ids
<1> QED
  BY <1>4, <1>6, <1>7, <1>8, <1>9 DEF ScanDbInv

\* Switching autocommit off, a query, and a step of nobody.
LEMMA QuietKeeps ==
    ASSUME ScanDbInv,
           (\E a \in Agents : Begin(a) \/ Query(a)) \/ UNCHANGED vars
    PROVE  ScanDbInv'
<1>1. ASSUME NEW a \in Agents, Begin(a) PROVE ScanDbInv'
  <2>1. /\ pc[a] = "begin" /\ autocommit' = [autocommit EXCEPT ![a] = FALSE]
        /\ pc' = [pc EXCEPT ![a] = "update"]
        /\ UNCHANGED <<scans, latest, hosts, nextScan, tx, hostOf, link, scanId, ret, seen>>
    BY <1>1 DEF Begin, server
  <2>2. ScanDbTypeOK
    BY DEF ScanDbInv
  <2>3. ScanDbTypeOK'
    BY <2>1, <2>2 DEF ScanDbTypeOK
  <2>4. /\ pc'[a] = "update" /\ autocommit'[a] = FALSE
        /\ \A b \in Agents : b # a => pc'[b] = pc[b] /\ autocommit'[b] = autocommit[b]
    BY <2>1, <2>2 DEF ScanDbTypeOK
  <2>5. ASSUME NEW b \in Agents PROVE TxInv(b)'
    BY <2>1, <2>4 DEF ScanDbInv, TxInv, InScan
  <2>6. LockInv' /\ IdInv' /\ StoreInv'
    BY <2>1, <2>4, Zenon DEF ScanDbInv, LockInv, IdInv, StoreInv, InScan, Ids
  <2> QED
    BY <2>3, <2>5, <2>6 DEF ScanDbInv
<1>2. ASSUME NEW a \in Agents, Query(a) PROVE ScanDbInv'
  <2>1. /\ seen' = [seen EXCEPT ![a] = latest[hostOf[a]]]
        /\ UNCHANGED <<scans, latest, hosts, nextScan, tx, hostOf, link, autocommit, pc,
                       scanId, ret>>
    BY <1>2 DEF Query, server
  <2>2. ScanDbTypeOK /\ ScanDbTypeOK'
    BY <2>1, Zenon DEF ScanDbInv, ScanDbTypeOK
  <2>3. ASSUME NEW b \in Agents PROVE TxInv(b)'
    BY <2>1 DEF ScanDbInv, TxInv, InScan
  <2>4. LockInv' /\ IdInv'
    BY <2>1, Zenon DEF ScanDbInv, LockInv, IdInv, Ids
  <2>5. \A b \in Agents : seen'[b] <= latest[hostOf[b]]
    BY <2>1, <2>2 DEF ScanDbInv, StoreInv, ScanDbTypeOK
  <2>6. StoreInv'
    BY <2>1, <2>5 DEF ScanDbInv, StoreInv, InScan, Ids
  <2> QED
    BY <2>2, <2>3, <2>4, <2>6 DEF ScanDbInv
<1>3. ASSUME UNCHANGED vars PROVE ScanDbInv'
  BY <1>3, ZenonT(30) DEF vars, server, ScanDbInv, ScanDbTypeOK, TxInv, LockInv, IdInv, StoreInv, InScan, Ids
<1> QED
  BY <1>1, <1>2, <1>3

\* Every step of every agent preserves the invariant.
LEMMA NextKeeps == ScanDbInv /\ [Next]_vars => ScanDbInv'
  BY HostUpdateKeeps, HostInsertKeeps, ScanInsertKeeps, PackageInsertKeeps, FindingInsertKeeps,
     LatestUpdateKeeps, CommitKeeps, FailKeeps, SessionLostKeeps, CrashKeeps, StartScanKeeps,
     QuietKeeps
  DEF Next, Statement

\* The invariant holds in every state the agents can reach.
THEOREM ScanDbInvariance == Spec => []ScanDbInv
  BY InitInv, NextKeeps, PTL DEF Spec

-----------------------------------------------------------------------------
(* What follows from it *)

\* Every committed scan is whole.
LEMMA WholeIds == ScanDbInv => Whole = Ids
  BY DEF ScanDbInv, StoreInv, Whole, Ids

\* A reader never sees a scan with some of its rows missing, and no host points to
\* one: for any number of agents and hosts, at any interleaving of their
\* statements, failures, lost sessions and crashes.
THEOREM ScansWhole == Spec => []NeverHalfWritten
<1>1. ScanDbInv => NeverHalfWritten
  BY WholeIds, Zenon DEF ScanDbInv, StoreInv, NeverHalfWritten, Ids
<1> QED
  BY <1>1, ScanDbInvariance, PTL

\* When record_scan returns true the scan is there, when it returns false it is not,
\* unless only the answer to the commit was lost.
THEOREM AnswerTrue == Spec => []ReturnIsTrue
<1>1. ScanDbInv => ReturnIsTrue
  BY WholeIds DEF ScanDbInv, IdInv, ReturnIsTrue, Ids
<1> QED
  BY <1>1, ScanDbInvariance, PTL

\* What an agent has read of a host is never newer than what the host points to,
\* so the next query does not go back.
THEOREM NeverBack == Spec => ReadsForward
<1>1. ScanDbInv /\ ScanDbInv' /\ [Next]_vars => [\A a \in Agents : seen'[a] >= seen[a]]_vars
  <2> SUFFICES ASSUME ScanDbInv, Next PROVE \A a \in Agents : seen'[a] >= seen[a]
    OBVIOUS
  <2>1. ScanDbTypeOK /\ \A a \in Agents : seen[a] <= latest[hostOf[a]]
    BY DEF ScanDbInv, StoreInv
  <2>2. \/ seen' = seen
        \/ \E a \in Agents : seen' = [seen EXCEPT ![a] = latest[hostOf[a]]]
    BY DEF Next, Statement, StartScan, Begin, HostUpdate, HostInsert, ScanInsert, PackageInsert,
           FindingInsert, LatestUpdate, Commit, CommitUnanswered, Fail, Return, SessionLost,
           Crash, Query
  <2> QED
    BY <2>1, <2>2 DEF ScanDbTypeOK
<1> QED
  BY <1>1, ScanDbInvariance, PTL DEF Spec, ReadsForward

\* The only step that changes what is in the store is a commit, and it records one
\* whole scan.
THEOREM ImplementsStore == Spec => StoresWhole
<1>1. Init => Store!StoreInit
  BY DEF Init, Store!StoreInit, Whole
<1>2. ScanDbInv /\ ScanDbInv' /\ [Next]_vars => [Store!StoreNext]_(Store!storeVars)
  <2> SUFFICES ASSUME ScanDbInv, ScanDbInv', [Next]_vars
               PROVE  Store!StoreNext \/ (Whole' = Whole /\ latest' = latest)
    BY DEF Store!storeVars
  <2>1. Whole = Ids /\ Whole' = Ids'
    BY DEF ScanDbInv, StoreInv, Whole, Ids
  <2>2. CASE \E a \in Agents : Commit(a) \/ CommitUnanswered(a)
    <3>1. PICK a \in Agents : pc[a] = "commit" /\ link[a] = "up" /\ Publish(a, tx[a])
      BY <2>2 DEF Commit, CommitUnanswered
    <3>2. /\ scanId[a] # 0 /\ scanId[a] \notin Ids /\ latest[hostOf[a]] < scanId[a]
          /\ latest' = [latest EXCEPT ![hostOf[a]] = scanId[a]]
          /\ Ids' = Ids \cup {scanId[a]}
      BY <3>1, Committed
    <3>3. hostOf[a] \in Hosts /\ scanId[a] \in 1..MaxScans /\ latest[hostOf[a]] \in Int
      BY <3>2 DEF ScanDbInv, ScanDbTypeOK
    <3>4. Store!Record(hostOf[a], scanId[a])
      BY <2>1, <3>2, <3>3 DEF Store!Record
    <3> QED
      BY <3>3, <3>4 DEF Store!StoreNext
  <2>3. CASE ~\E a \in Agents : Commit(a) \/ CommitUnanswered(a)
    <3>1. scans' = scans /\ latest' = latest
      <4>1. ASSUME NEW a \in Agents, NEW t, NEW next, Execute(a, t, next),
                   pc[a] \notin {"idle", "begin"}
            PROVE  scans' = scans /\ latest' = latest
        BY <4>1, InTransaction
      <4>2. ASSUME NEW a \in Agents, HostUpdate(a) \/ HostInsert(a) \/ ScanInsert(a)
                                     \/ PackageInsert(a) \/ FindingInsert(a) \/ LatestUpdate(a)
            PROVE  scans' = scans /\ latest' = latest
        <5>1. pc[a] \notin {"idle", "begin"} /\ \E t, next : Execute(a, t, next)
          BY <4>2, Zenon DEF HostUpdate, HostInsert, ScanInsert, PackageInsert, FindingInsert,
                      LatestUpdate
        <5> QED
          BY <4>1, <5>1
      <4>3. ASSUME NEW a \in Agents, StartScan(a) \/ Begin(a) \/ Fail(a) \/ SessionLost(a)
                                     \/ Crash(a) \/ Query(a)
            PROVE  scans' = scans /\ latest' = latest
        BY <4>3 DEF StartScan, Begin, Fail, SessionLost, Crash, Query, server
      <4>4. UNCHANGED vars => scans' = scans /\ latest' = latest
        BY DEF vars, server
      <4> QED
        BY <2>3, <4>2, <4>3, <4>4 DEF Next, Statement
    <3> QED
      BY <2>1, <3>1 DEF Ids
  <2> QED
    BY <2>2, <2>3
<1> QED
  BY <1>1, <1>2, ScanDbInvariance, PTL DEF Spec, StoresWhole, Store!StoreSpec

=============================================================================
