--------------------------- MODULE ReporterProofs ---------------------------
(***************************************************************************)
(* Proofs about module Reporter.  The reporter uses the spool as module    *)
(* Spool allows, so what SpoolProofs and SpoolContentProofs establish      *)
(* holds of the two together; it releases only what the cloud has; and the *)
(* two implement the delivery queue.                                       *)
(***************************************************************************)
EXTENDS Reporter, SpoolDeliveryProofs

\* How long, in seconds, the provers may take for a leaf.
USE SMTT(20), ZenonT(20)

-----------------------------------------------------------------------------
(* The reporter is a caller of the spool *)

\* A step of the reporter is a step of the spool or leaves it alone.
LEMMA SpoolStep == ASSUME [ReporterNext]_allVars PROVE [Next]_vars
<1>1. CASE UNCHANGED allVars
  BY <1>1 DEF allVars
<1>2. CASE Start
  BY <1>2 DEF Start, Next
<1>3. CASE Die
  BY <1>3 DEF Die, Next
<1>4. CASE \E len \in Lens : \E words \in 0..(Header + len - 1) : DieMidAppend(len, words)
  BY <1>4 DEF DieMidAppend, Next, AppendSteps
<1>5. CASE RequestStop \/ StartDrain
  BY <1>5 DEF RequestStop, StartDrain
<1>6. CASE Collect
  BY <1>6 DEF Collect, Next, AppendSteps
<1>7. CASE PeekBatch \/ DrainDone \/ PostArrives \/ PostLost \/ AnswerPermanent \/ AnswerRetry
           \/ Wake
  BY <1>7 DEF PeekBatch, DrainDone, PostArrives, PostLost, AnswerPermanent, AnswerRetry, Wake
<1>8. CASE AnswerOk
  <2>1. CommitStart(Cardinality(batch))
    BY <1>8 DEF AnswerOk
  <2>2. Cardinality(batch) \in 1..Cardinality(Pending)
    BY <2>1 DEF CommitStart
  <2> QED
    BY <2>1, <2>2 DEF Next
<1>9. CASE RunCommit
  BY <1>9 DEF RunCommit, Next, SaveSteps
<1>10. CASE EndCycle
  BY <1>10 DEF EndCycle, Next
<1> QED
  BY <1>1, <1>2, <1>3, <1>4, <1>5, <1>6, <1>7, <1>8, <1>9, <1>10 DEF ReporterNext, DrainSteps

\* Every behaviour of the reporter is, seen from the spool, a behaviour of the
\* spool: collect and drain call append, peek, commit and stats one at a time.
THEOREM UsesSpool == ReporterSpec => Spec
<1>1. ReporterInit => Init
  BY DEF ReporterInit
<1>2. [ReporterNext]_allVars => [Next]_vars
  BY SpoolStep
<1> QED
  BY <1>1, <1>2, PTL DEF ReporterSpec, Spec

\* The spool's invariant under its real caller.
THEOREM SpoolInvariance == ReporterSpec => []IInv
BY UsesSpool, Invariance, PTL

-----------------------------------------------------------------------------
(* What peek(max) returns *)

\* Of two records the older has fewer before it.
LEMMA RankGrows ==
    ASSUME NEW P \in SUBSET Nat, IsFiniteSet(P), NEW r \in P, NEW s \in P, r < s
    PROVE  Cardinality({q \in P : q < r}) < Cardinality({q \in P : q < s})
<1> DEFINE R == {q \in P : q < r}
           S == {q \in P : q < s}
<1>1. IsFiniteSet(S) /\ R \in SUBSET S /\ R # S
  <2>1. IsFiniteSet(S)
    BY FS_Subset
  <2>2. R \in SUBSET S
    <3>1. ASSUME NEW q \in R PROVE q \in P /\ q < s
      BY <3>1
    <3> QED
      BY <3>1, Zenon
  <2>3. r \in S /\ r \notin R
    OBVIOUS
  <2> QED
    BY <2>1, <2>2, <2>3
<1> HIDE DEF R, S
<1>2. Cardinality(R) <= Cardinality(S) /\ Cardinality(R) # Cardinality(S)
  BY <1>1, FS_Subset
<1>3. Cardinality(R) \in Nat /\ Cardinality(S) \in Nat
  BY <1>1, FS_Subset, FS_CardinalityType
<1>4. Cardinality(R) < Cardinality(S)
  BY <1>2, <1>3
<1> QED
  BY <1>4 DEF R, S

\* peek(max) returns at most max records.
LEMMA PeekBound ==
    ASSUME IsFiniteSet(Pending), Pending \subseteq Nat, NEW max \in Nat
    PROVE  Cardinality(Peek(max)) \in Nat /\ Cardinality(Peek(max)) <= max
<1> DEFINE rank(r) == Cardinality({q \in Pending : q < r})
           f == [r \in Peek(max) |-> rank(r) + 1]
<1>1. IsFiniteSet(Peek(max))
  BY FS_Subset, Zenon DEF Peek
<1>2. ASSUME NEW r \in Pending PROVE rank(r) \in Nat
  <2>1. {q \in Pending : q < r} \in SUBSET Pending
    OBVIOUS
  <2>2. IsFiniteSet({q \in Pending : q < r})
    BY <2>1, FS_Subset
  <2> QED
    BY <2>2, FS_CardinalityType
<1>3. ASSUME NEW r \in Peek(max) PROVE r \in Pending /\ rank(r) < max
  BY DEF Peek
<1>4. ASSUME NEW r \in Peek(max), NEW s \in Peek(max), r # s PROVE rank(r) # rank(s)
  <2>1. r \in Pending /\ s \in Pending /\ r \in Nat /\ s \in Nat
    BY <1>3, Zenon
  <2>2. rank(r) \in Nat /\ rank(s) \in Nat
    BY <1>2, <2>1
  <2>3. CASE r < s
    <3>1. rank(r) < rank(s)
      BY <2>1, <2>3, RankGrows
    <3> HIDE DEF rank
    <3> QED
      BY <2>2, <3>1
  <2>4. CASE s < r
    <3>1. rank(s) < rank(r)
      BY <2>1, <2>4, RankGrows
    <3> HIDE DEF rank
    <3> QED
      BY <2>2, <3>1
  <2> QED
    BY <1>4, <2>1, <2>3, <2>4
<1> HIDE DEF rank
<1>5. f \in Injection(Peek(max), 1..max)
  <2>1. ASSUME NEW r \in Peek(max) PROVE rank(r) + 1 \in 1..max
    <3>1. rank(r) \in Nat /\ rank(r) < max
      BY <1>2, <1>3, Zenon
    <3> QED
      BY <3>1
  <2>2. f \in [Peek(max) -> 1..max]
    BY <2>1
  <2>3. ASSUME NEW r \in Peek(max), NEW s \in Peek(max), f[r] = f[s] PROVE r = s
    <3>1. rank(r) + 1 = rank(s) + 1
      BY <2>3
    <3>2. rank(r) \in Nat /\ rank(s) \in Nat
      BY <1>2, <1>3, Zenon
    <3>3. rank(r) = rank(s)
      BY <3>1, <3>2
    <3> QED
      BY <1>4, <3>3
  <2> QED
    BY <2>2, <2>3 DEF Injection, IsInjective
<1> HIDE DEF f
<1>6. IsFiniteSet(1..max) /\ Cardinality(1..max) = max
  <2>1. /\ IsFiniteSet(1..max)
        /\ Cardinality(1..max) = IF 1 > max THEN 0 ELSE max - 1 + 1
    BY FS_Interval
  <2> QED
    BY <2>1
<1>7. Cardinality(Peek(max)) <= Cardinality(1..max)
  BY <1>1, <1>5, <1>6, FS_Injection
<1>8. Cardinality(Peek(max)) \in Nat
  BY <1>1, FS_CardinalityType
<1> QED
  BY <1>6, <1>7, <1>8

-----------------------------------------------------------------------------
(* commit follows delivery *)

\* While a request is out, the batch is what peek would return again; once it
\* has arrived, the cloud has it; and so has it everything ever acknowledged.
DeliveryInv ==
    /\ AckedDelivered
    /\ phase \in {"post", "arrived", "lost"} => batch = Peek(BatchSize)
    /\ phase = "arrived" => batch \subseteq cloud

\* The steps of the spool other than the start of a commit acknowledge nothing.
LEMMA AckedKept ==
    ASSUME Open \/ Crash \/ ReadStats \/ AppendSteps \/ CommitSteps \/ SaveSteps
    PROVE  acked' = acked
<1>1. CASE Open \/ Crash \/ ReadStats
  BY <1>1 DEF Open, Crash, ReadStats, historyVars
<1>2. CASE AppendSteps
  BY <1>2, ZenonT(30) DEF AppendSteps, AppendWrite, AppendFails, CrashMidAppend, PartialWrite,
              AppendCannotOpen, Evict, EvictOldest, WithinBounds, historyVars
<1>3. CASE CommitSteps
  BY <1>3 DEF CommitSteps, CommitFrame, PassFrame, CommitRetire, CommitMissing, CommitStop,
              CommitLeaves, historyVars
<1>4. CASE SaveSteps
  BY <1>4 DEF SaveSteps, SaveState, SaveRemove, SaveRename, SaveFails, historyVars
<1> QED
  BY <1>1, <1>2, <1>3, <1>4

\* Every step of the reporter keeps DeliveryInv.
LEMMA DeliveryKeeps ==
    ASSUME DeliveryInv, IInv, [ReporterNext]_allVars
    PROVE  DeliveryInv'
<1>1. CASE UNCHANGED vars /\ phase' = phase /\ batch' = batch /\ cloud' = cloud
  BY <1>1 DEF DeliveryInv, AckedDelivered, Peek, Pending, vars, diskVars, memoryVars, historyVars
<1>2. CASE Start \/ Die \/ Collect \/ RunCommit \/ EndCycle
           \/ \E len \in Lens : \E words \in 0..(Header + len - 1) : DieMidAppend(len, words)
  <2>1. acked' = acked
    BY <1>2, AckedKept DEF Start, Die, Collect, RunCommit, EndCycle, DieMidAppend, AppendSteps,
                           SaveSteps
  <2>2. cloud' = cloud
    BY <1>2 DEF Start, Die, Collect, RunCommit, EndCycle, DieMidAppend, Down, reporterVars
  <2>3. phase' \in {"down", "collect", "commit", "drain", "ended"}
    BY <1>2 DEF Start, Die, Collect, RunCommit, EndCycle, DieMidAppend, Down, reporterVars,
                localVars
  <2> QED
    BY <2>1, <2>2, <2>3 DEF DeliveryInv, AckedDelivered
<1>3. CASE StartDrain \/ DrainDone \/ AnswerPermanent \/ AnswerRetry \/ Wake
  <2>1. /\ UNCHANGED <<acked, cloud>>
        /\ phase' \in {"drain", "ended", "sleep"}
    BY <1>3 DEF StartDrain, DrainDone, AnswerPermanent, AnswerRetry, Wake, vars, historyVars
  <2> QED
    BY <2>1 DEF DeliveryInv, AckedDelivered
<1>4. CASE PeekBatch
  <2>1. /\ UNCHANGED <<disk, segments, readSegment, readOffset, acked, cloud>>
        /\ phase' = "post"
        /\ batch' = Peek(BatchSize)
    BY <1>4 DEF PeekBatch, vars, diskVars, memoryVars, historyVars
  <2>2. Peek(BatchSize)' = Peek(BatchSize)
    BY <2>1 DEF Peek, Pending
  <2> QED
    BY <2>1, <2>2 DEF DeliveryInv, AckedDelivered
<1>5. CASE PostArrives \/ PostLost
  <2>1. /\ UNCHANGED <<disk, segments, readSegment, readOffset, acked, batch>>
        /\ phase = "post"
        /\ \/ phase' = "arrived" /\ cloud' = cloud \cup batch
           \/ phase' = "lost" /\ cloud' = cloud
    BY <1>5 DEF PostArrives, PostLost, vars, diskVars, memoryVars, historyVars
  <2>2. Peek(BatchSize)' = Peek(BatchSize)
    BY <2>1 DEF Peek, Pending
  <2> QED
    BY <2>1, <2>2 DEF DeliveryInv, AckedDelivered
<1>6. CASE AnswerOk
  <2>1. /\ phase = "arrived"
        /\ acked' = acked \cup Peek(Cardinality(batch))
        /\ phase' = "commit"
        /\ UNCHANGED cloud
    BY <1>6 DEF AnswerOk, CommitStart
  <2>2. batch = Peek(BatchSize) /\ batch \subseteq cloud
    BY <2>1 DEF DeliveryInv
  <2>3. BatchSize \in Nat
    BY ReporterAssumption
  <2>4. nextRec \in Nat \ {0} /\ Directory(disk, nextRec)
    BY DEF IInv, TypeOK, HistoryTypeOK
  <2>5. Pending \subseteq 1..(nextRec - 1) /\ IsFiniteSet(Pending)
    BY <2>4, PeekType DEF Pending
  <2>6. Cardinality(batch) \in Nat /\ Cardinality(batch) <= BatchSize
    BY <2>2, <2>3, <2>5, PeekBound
  <2>7. ASSUME NEW r \in Pending,
               Cardinality({q \in Pending : q < r}) < Cardinality(batch)
        PROVE  Cardinality({q \in Pending : q < r}) < BatchSize
    <3>1. {q \in Pending : q < r} \in SUBSET Pending
      OBVIOUS
    <3>2. Cardinality({q \in Pending : q < r}) \in Nat
      BY <2>5, <3>1, FS_Subset, FS_CardinalityType
    <3> QED
      BY <2>3, <2>6, <2>7, <3>2
  <2>8. Peek(Cardinality(batch)) \subseteq Peek(BatchSize)
    BY <2>7 DEF Peek
  <2> QED
    BY <2>1, <2>2, <2>8 DEF DeliveryInv, AckedDelivered
<1>7. CASE UNCHANGED allVars \/ RequestStop
  BY <1>1, <1>7 DEF allVars, RequestStop, reporterVars, localVars
<1> QED
  BY <1>2, <1>3, <1>4, <1>5, <1>6, <1>7 DEF ReporterNext, DrainSteps

\* commit is asked to release only records the cloud has, for every batch size,
\* segment size and budget, and wherever the process dies.
THEOREM CommitAfterDelivery == ReporterSpec => []AckedDelivered
<1>1. ReporterInit => DeliveryInv
  BY Zenon DEF ReporterInit, Init, DeliveryInv, AckedDelivered
<1>2. DeliveryInv /\ IInv /\ [ReporterNext]_allVars => DeliveryInv'
  BY DeliveryKeeps
<1>3. DeliveryInv => AckedDelivered
  BY DEF DeliveryInv
<1> QED
  BY <1>1, <1>2, <1>3, SpoolInvariance, PTL DEF ReporterSpec

-----------------------------------------------------------------------------
(* The delivery queue *)

\* The records there are: numbered up to the bound, and known to the cloud only
\* once appended.
KnownInv ==
    /\ nextRec <= MaxRecord + 1
    /\ cloud \subseteq 1..(nextRec - 1)

\* What peek finds was accepted and not evicted.
LEMMA PendingAccepted ==
    ASSUME IInv, CInv
    PROVE  Pending \subseteq accepted \ evicted
<1> SUFFICES ASSUME NEW r \in Pending PROVE r \in accepted \ evicted
  OBVIOUS
<1>1. PICK id \in Elements(segments) : \E i : Reads(disk, readSegment, readOffset, id, i) /\ disk[id][i].rec = r
  BY PeekMember DEF Pending
<1>2. PICK i : Reads(disk, readSegment, readOffset, id, i) /\ disk[id][i].rec = r
  BY <1>1
<1>3. /\ id \in DOMAIN disk /\ i \in DOMAIN disk[id] /\ disk[id] \in Seq(Chunk)
      /\ i \in ReadableFrom(disk[id], IF id = readSegment THEN readOffset ELSE 0)
  BY <1>2 DEF Reads, IInv, Directory
<1>4. i \in 1..i
  BY <1>3
<1>5. Complete(disk[id][i])
  BY <1>3, <1>4 DEF ReadableFrom
<1> QED
  BY <1>2, <1>3, <1>5 DEF CInv, Contents

\* Only a whole write, an eviction and commit's walk change the histories the
\* queue is made of.
LEMMA HistoryKept ==
    ASSUME [ReporterNext]_allVars,
           ~\E len \in Lens : AppendWrite(len), ~Evict, ~CommitFrame
    PROVE  UNCHANGED <<accepted, released, evicted, shadowed>>
<1>1. CASE Start \/ Die \/ RequestStop \/ StartDrain \/ UNCHANGED allVars
           \/ \E len \in Lens : \E words \in 0..(Header + len - 1) : DieMidAppend(len, words)
  BY <1>1 DEF Start, Open, Die, Crash, RequestStop, StartDrain, DieMidAppend, CrashMidAppend,
     PartialWrite, allVars, vars, historyVars
<1>2. CASE Collect
  <2>1. \/ \E len \in Lens : \E words \in 0..(Header + len - 1) : AppendFails(len, words)
        \/ AppendCannotOpen \/ WithinBounds \/ SaveSteps
    BY <1>2 DEF Collect
  <2> QED
    BY <2>1 DEF AppendFails, PartialWrite, AppendCannotOpen, WithinBounds, SaveSteps, SaveState,
       SaveRemove, SaveRename, SaveFails, historyVars
<1>3. CASE PeekBatch \/ DrainDone \/ PostArrives \/ PostLost \/ AnswerPermanent \/ AnswerRetry \/ Wake
  BY <1>3 DEF PeekBatch, DrainDone, PostArrives, PostLost, AnswerPermanent, AnswerRetry, Wake,
     vars, historyVars
<1>4. CASE AnswerOk \/ EndCycle
  BY <1>4 DEF AnswerOk, CommitStart, EndCycle, ReadStats, historyVars
<1>5. CASE RunCommit
  <2>1. CommitRetire \/ CommitMissing \/ CommitStop \/ SaveSteps
    BY <1>5 DEF RunCommit, CommitSteps, SaveSteps
  <2> QED
    BY <2>1 DEF CommitRetire, CommitMissing, CommitStop, CommitLeaves, SaveSteps, SaveState,
       SaveRemove, SaveRename, SaveFails, historyVars
<1> QED
  BY <1>1, <1>2, <1>3, <1>4, <1>5 DEF ReporterNext, DrainSteps

\* The cloud hears only from a post that arrives.
LEMMA CloudKept ==
    ASSUME [ReporterNext]_allVars, ~PostArrives
    PROVE  cloud' = cloud
BY DEF ReporterNext, DrainSteps, Start, Die, Down, DieMidAppend, RequestStop, Collect, StartDrain,
   PeekBatch, DrainDone, PostLost, AnswerOk, AnswerPermanent, AnswerRetry, Wake, RunCommit, EndCycle,
   allVars, reporterVars

\* A post that arrives leaves the spool alone.
LEMMA ArriveShape ==
    ASSUME PostArrives
    PROVE  /\ phase = "post" /\ cloud' = cloud \cup batch
           /\ UNCHANGED <<nextRec, accepted, released, evicted, shadowed>>
BY DEF PostArrives, vars, boundVars, historyVars

\* The batch in a post is pending.
LEMMA BatchPending ==
    ASSUME DeliveryInv, PostArrives
    PROVE  batch \subseteq Pending
BY Zenon DEF DeliveryInv, PostArrives, Peek

\* More numbers lie below a larger one.
LEMMA UptoGrows ==
    ASSUME NEW a \in Nat, NEW b \in Nat, b >= a
    PROVE  1..(a - 1) \subseteq 1..(b - 1)
OBVIOUS

\* Records are numbered by whole writes and torn ones.
LEMMA KnownKeeps ==
    ASSUME IInv, DeliveryInv, KnownInv, [ReporterNext]_allVars
    PROVE  KnownInv'
<1>1. nextRec \in Nat \ {0} /\ MaxRecord \in Nat
  BY ConstantAssumption DEF IInv, TypeOK, HistoryTypeOK
<1>2. \/ nextRec' = nextRec
      \/ nextRec' = nextRec + 1 /\ nextRec <= MaxRecord
  <2>1. [Next]_vars
    BY SpoolStep
  <2>2. CASE UNCHANGED vars
    BY <2>2 DEF vars, boundVars
  <2>3. CASE AppendSteps
    <3>1. ASSUME NEW len \in Lens, NEW words \in 0..(Header + len - 1), PartialWrite(len, words)
          PROVE  \/ nextRec' = nextRec
                 \/ nextRec' = nextRec + 1 /\ nextRec <= MaxRecord
      BY <1>1, <3>1 DEF PartialWrite
    <3> QED
      BY <2>3, <3>1 DEF AppendSteps, AppendWrite, AppendFails, CrashMidAppend, AppendCannotOpen,
         Evict, EvictOldest, WithinBounds, boundVars
  <2>4. CASE Open \/ ReadStats \/ Crash \/ SaveSteps
    BY <2>4 DEF Open, ReadStats, Crash, SaveSteps, SaveState, SaveRemove, SaveRename, SaveFails,
       boundVars
  <2>5. CASE CommitSteps \/ \E count \in 1..Cardinality(Pending) : CommitStart(count)
    BY <2>5 DEF CommitSteps, CommitFrame, PassFrame, CommitRetire, CommitMissing, CommitStop,
       CommitLeaves, CommitStart, boundVars
  <2> QED
    BY <2>1, <2>2, <2>3, <2>4, <2>5 DEF Next
<1>3. nextRec' \in Nat /\ nextRec' >= nextRec /\ nextRec' <= MaxRecord + 1
  BY <1>1, <1>2 DEF KnownInv
<1>4. cloud' \subseteq 1..(nextRec - 1)
  <2>1. CASE PostArrives
    <3>1. batch \subseteq 1..(nextRec - 1)
      BY <1>1, <2>1, BatchPending, PeekType DEF IInv, Pending
    <3> QED
      BY <2>1, <3>1, ArriveShape, Zenon DEF KnownInv
  <2>2. CASE ~PostArrives
    BY <2>2, CloudKept, Zenon DEF KnownInv
  <2> QED
    BY <2>1, <2>2
<1>5. 1..(nextRec - 1) \subseteq 1..(nextRec' - 1)
  BY <1>1, <1>3, UptoGrows, Zenon
<1> QED
  BY <1>3, <1>4, <1>5, ZenonT(30) DEF KnownInv

\* Everything the abstract steps are about is a record of the queue.
LEMMA RecordsKnown ==
    ASSUME IInv, KnownInv
    PROVE  /\ accepted \subseteq 1..MaxRecord /\ cloud \subseteq 1..MaxRecord
           /\ nextRec \notin accepted \cup released \cup evicted \cup shadowed \cup cloud
<1>1. /\ nextRec \in Nat \ {0} /\ MaxRecord \in Nat /\ nextRec <= MaxRecord + 1
      /\ accepted \subseteq 1..(nextRec - 1) /\ released \subseteq 1..(nextRec - 1)
      /\ evicted \subseteq 1..(nextRec - 1) /\ shadowed \subseteq 1..(nextRec - 1)
      /\ cloud \subseteq 1..(nextRec - 1)
  BY ConstantAssumption DEF IInv, TypeOK, HistoryTypeOK, KnownInv
<1>2. \A r \in 1..(nextRec - 1) : r \in 1..MaxRecord /\ r # nextRec
  BY <1>1
<1> QED
  BY <1>1, <1>2

\* A whole write is an Accept, or nothing to the queue when the record lies
\* behind a torn frame.
LEMMA WriteAccepts ==
    ASSUME IInv, KnownInv, NEW len \in Lens, AppendWrite(len), cloud' = cloud
    PROVE  Abstract!Next \/ UNCHANGED Abstract!vars
<1>1. /\ nextRec <= MaxRecord
      /\ accepted' = accepted \cup {nextRec}
      /\ shadowed' = shadowed \cup (IF TornIn(FileAt(disk, Active)) THEN {nextRec} ELSE {})
      /\ UNCHANGED <<released, evicted>>
  BY DEF AppendWrite
<1>2. nextRec \notin accepted \cup released \cup evicted \cup shadowed \cup cloud
  BY RecordsKnown
<1>3. nextRec \in 1..MaxRecord
  BY <1>1, ConstantAssumption DEF IInv, TypeOK, HistoryTypeOK
<1>4. CASE TornIn(FileAt(disk, Active))
  <2>1. shadowed' = shadowed \cup {nextRec}
    BY <1>1, <1>4
  <2>2. Due' = Due
    BY <1>1, <1>2, <2>1 DEF Due
  <2>3. (cloud \ shadowed)' = cloud \ shadowed
    BY <1>2, <2>1
  <2>4. (evicted \ (released \cup shadowed))' = evicted \ (released \cup shadowed)
    BY <1>1, <1>2, <2>1
  <2> QED
    BY <2>2, <2>3, <2>4 DEF Abstract!vars
<1>5. CASE ~TornIn(FileAt(disk, Active))
  <2>1. shadowed' = shadowed
    BY <1>1, <1>5
  <2>2. Due' = Due \cup {nextRec}
    BY <1>1, <1>2, <2>1 DEF Due
  <2>3. Abstract!Accept(nextRec)
    BY <1>1, <1>2, <2>1, <2>2 DEF Abstract!Accept, Due
  <2> QED
    BY <1>3, <2>3 DEF Abstract!Next
<1> QED
  BY <1>4, <1>5

\* An eviction is a Drop of what was due in the deleted segment.
LEMMA EvictDrops ==
    ASSUME IInv, CInv, KnownInv, Evict, cloud' = cloud
    PROVE  Abstract!Next \/ UNCHANGED Abstract!vars
<1>1. UNCHANGED <<accepted, released, shadowed>>
  BY EvictShape
<1>2. evicted' = evicted \/ evicted' = evicted \cup (Pending \ Still)
  BY EvictShape
<1>3. CASE evicted' = evicted
  BY <1>1, <1>3 DEF Due, Abstract!vars
<1>4. CASE evicted' = evicted \cup (Pending \ Still)
  <2> DEFINE gone == (Pending \ Still) \ (released \cup shadowed)
  <2>1. gone \subseteq Due
    BY PendingAccepted DEF Due
  <2>2. Due' = Due \ gone
    BY <1>1, <1>4 DEF Due
  <2>3. (evicted \ (released \cup shadowed))' = (evicted \ (released \cup shadowed)) \cup gone
    BY <1>1, <1>4
  <2>4. (cloud \ shadowed)' = cloud \ shadowed
    BY <1>1
  <2>5. gone \in SUBSET (1..MaxRecord)
    BY <2>1, RecordsKnown DEF Due
  <2> HIDE DEF gone
  <2>6. Abstract!Drop(gone)
    BY <2>1, <2>2, <2>3, <2>4 DEF Abstract!Drop
  <2> QED
    BY <2>5, <2>6 DEF Abstract!Next
<1> QED
  BY <1>2, <1>3, <1>4

\* commit settles the record it passes, which the cloud has; a record passed
\* before, or behind a torn frame, is nothing to the queue.
LEMMA FrameSettles ==
    ASSUME IInv, CInv, DeliveryInv, KnownInv, CommitFrame, cloud' = cloud
    PROVE  Abstract!Next \/ UNCHANGED Abstract!vars
<1>1. UNCHANGED <<accepted, evicted, shadowed, acked>>
  BY FrameShape
<1>2. PICK k : Passes(k)
  BY FrameShape
<1> DEFINE c == disk[readSegment][k]
           new == IF Complete(c) THEN {c.rec} ELSE {}
<1>3. released' = released \cup new
  BY <1>2 DEF Passes
<1>4. new \subseteq accepted \ evicted
  BY <1>2 DEF Passes, CInv, Contents
<1>5. new \subseteq cloud \cup shadowed
  <2>1. OnlyAckedReleased'
    BY CommitFrameC DEF CInv
  <2>2. acked \subseteq cloud
    BY DEF DeliveryInv, AckedDelivered
  <2> QED
    BY <1>1, <1>3, <2>1, <2>2 DEF OnlyAckedReleased
<1> HIDE DEF new
<1> DEFINE settled == new \cap Due
<1>6. settled \subseteq Due \cap (cloud \ shadowed)
  BY <1>5 DEF Due
<1>7. Due' = Due \ settled
  BY <1>1, <1>3 DEF Due
<1>8. (evicted \ (released \cup shadowed))' = evicted \ (released \cup shadowed)
  BY <1>1, <1>3, <1>4
<1>9. (cloud \ shadowed)' = cloud \ shadowed
  BY <1>1
<1>10. settled \in SUBSET (1..MaxRecord)
  BY RecordsKnown DEF Due
<1> HIDE DEF settled
<1>11. Abstract!Settle(settled)
  BY <1>6, <1>7, <1>8, <1>9 DEF Abstract!Settle
<1> QED
  BY <1>10, <1>11 DEF Abstract!Next

\* A post that arrives delivers what is due, or what the cloud has already.
LEMMA PostDelivers ==
    ASSUME IInv, CInv, DeliveryInv, KnownInv, PostArrives
    PROVE  Abstract!Next \/ UNCHANGED Abstract!vars
<1> DEFINE sent == batch \ shadowed
<1>1. cloud' = cloud \cup batch /\ UNCHANGED <<accepted, released, evicted, shadowed>>
  BY ArriveShape
<1>2. batch \subseteq accepted \ evicted
  BY BatchPending, PendingAccepted
<1>3. released \ shadowed \subseteq cloud
  BY DEF CInv, OnlyAckedReleased, DeliveryInv, AckedDelivered
<1>4. sent \subseteq Due \cup (cloud \ shadowed)
  BY <1>2, <1>3 DEF Due
<1>5. (cloud \ shadowed)' = (cloud \ shadowed) \cup sent
  BY <1>1
<1>6. Due' = Due /\ (evicted \ (released \cup shadowed))' = evicted \ (released \cup shadowed)
  BY <1>1 DEF Due
<1>7. sent \in SUBSET (1..MaxRecord)
  BY <1>2, RecordsKnown
<1> HIDE DEF sent
<1>8. Abstract!Deliver(sent)
  BY <1>4, <1>5, <1>6 DEF Abstract!Deliver
<1> QED
  BY <1>7, <1>8 DEF Abstract!Next

\* Every step of the reporter is a step of the delivery queue or none at all.
LEMMA QueueStep ==
    ASSUME IInv, CInv, DeliveryInv, KnownInv, [ReporterNext]_allVars
    PROVE  Abstract!Next \/ UNCHANGED Abstract!vars
<1>1. CASE PostArrives
  BY <1>1, PostDelivers
<1>2. CASE ~PostArrives
  <2>1. cloud' = cloud
    BY <1>2, CloudKept
  <2>2. CASE \E len \in Lens : AppendWrite(len)
    BY <2>1, <2>2, WriteAccepts
  <2>3. CASE Evict
    BY <2>1, <2>3, EvictDrops
  <2>4. CASE CommitFrame
    BY <2>1, <2>4, FrameSettles
  <2>5. CASE ~(\E len \in Lens : AppendWrite(len)) /\ ~Evict /\ ~CommitFrame
    <3>1. UNCHANGED <<accepted, released, evicted, shadowed>>
      BY <2>5, HistoryKept
    <3> QED
      BY <2>1, <3>1 DEF Due, Abstract!vars
  <2> QED
    BY <2>2, <2>3, <2>4, <2>5
<1> QED
  BY <1>1, <1>2

\* The reporter over its spool implements the delivery queue: a record waits
\* from the append until a commit passes it, which happens only to records the
\* cloud has, or until an eviction drops it; whatever is lost on the way, and
\* however often the process dies.
THEOREM ImplementsQueue ==
    ASSUME StaleSegments \subseteq {0, 1}
    PROVE  ReporterSpec => DeliversAtLeastOnce
<1>1. ReporterInit => Abstract!Init
  BY Zenon DEF ReporterInit, Init, Abstract!Init, Due
<1>2. ReporterInit => DeliveryInv /\ KnownInv
  <2>1. ReporterInit => DeliveryInv
    BY Zenon DEF ReporterInit, Init, DeliveryInv, AckedDelivered
  <2>2. ReporterInit => KnownInv
    <3> SUFFICES ASSUME ReporterInit PROVE KnownInv
      OBVIOUS
    <3>1. nextRec = 1 /\ cloud = {} /\ MaxRecord \in Nat
      BY ConstantAssumption, Zenon DEF ReporterInit, Init
    <3>2. nextRec <= MaxRecord + 1
      BY <3>1
    <3> QED
      BY <3>1, <3>2 DEF KnownInv
  <2> QED
    BY <2>1, <2>2
<1>3. (IInv /\ CInv) /\ (DeliveryInv /\ KnownInv) /\ [ReporterNext]_allVars => (DeliveryInv /\ KnownInv)'
  <2> SUFFICES ASSUME IInv, CInv, DeliveryInv, KnownInv, [ReporterNext]_allVars
               PROVE  (DeliveryInv /\ KnownInv)'
    OBVIOUS
  <2>1. DeliveryInv'
    BY DeliveryKeeps
  <2>2. KnownInv'
    BY KnownKeeps
  <2> QED
    BY <2>1, <2>2
<1>4. (IInv /\ CInv) /\ (DeliveryInv /\ KnownInv) /\ [ReporterNext]_allVars => [Abstract!Next]_Abstract!vars
  BY QueueStep
<1>5. ReporterSpec => [](IInv /\ CInv)
  BY UsesSpool, ContentInvariance, PTL
<1> QED
  BY <1>1, <1>2, <1>3, <1>4, <1>5, PTL DEF ReporterSpec, DeliversAtLeastOnce, Abstract!Spec

=============================================================================
