------------------------ MODULE SpoolDeliveryProofs ------------------------
(***************************************************************************)
(* What the two invariants of module Spool say of the calls: the counters  *)
(* balance, a commit releases all of its batch or nothing of it, and the   *)
(* files keep to their budget.                                             *)
(***************************************************************************)
EXTENDS SpoolContentProofs

\* How long, in seconds, the provers may take for a leaf.
USE SMTT(20), ZenonT(20)

-----------------------------------------------------------------------------
(* The counters *)

\* stats_ keeps the books at every step, not only between calls, and a process
\* that has not yet been down starts from nothing.
BalanceInv ==
    /\ open =>
        /\ torn = 0 => stats.pending = Cardinality(Pending)
        /\ torn = 0 /\ crashes = 0 =>
               stats.appended = stats.committed + stats.dropped + stats.pending
        /\ crashes = 0 => Cardinality(evicted) <= stats.dropped
    /\ ~open /\ crashes = 0 =>
        /\ DOMAIN disk = {} /\ evicted = {}
        /\ stateFile.committed = 0 /\ stateFile.dropped = 0

\* A write adds the record it carries to what peek finds, and nothing else.
LEMMA WritePending ==
    ASSUME IInv, CInv, open, NEW len \in Nat, NEW words \in Nat,
           disk' = DiskAfterWrite(len, words), segments' = WithActive,
           UNCHANGED <<readSegment, readOffset>>
    PROVE  /\ Pending \subseteq Pending'
           /\ Pending' \subseteq Pending \cup {nextRec}
           /\ words = 0 => Pending' = Pending
<1> DEFINE off(id) == IF id = readSegment THEN readOffset ELSE 0
<1>1. \A id \in DOMAIN disk : id # Active => disk'[id] = disk[id]
  BY WriteShape
<1>2. /\ DOMAIN disk' = DOMAIN disk \cup {Active}
      /\ disk'[Active] = IF words = 0 THEN Old ELSE Append(Old, New(len, words))
      /\ Old \in Seq(Chunk) /\ FileOK(Old) /\ SizeOf(Old) \in Nat
      /\ words # 0 => New(len, words) \in Chunk
      /\ Extends(disk, disk')
  BY WriteShape, Zenon
<1>3. Elements(segments') = Elements(segments) \cup {Active}
  BY ActiveType DEF IInv
<1>4. /\ \A id \in DOMAIN disk : disk[id] \in Seq(Chunk)
      /\ \A id \in DOMAIN disk : id >= readSegment => id \in Elements(segments)
      /\ readOffset \in Nat
  BY DEF IInv, Directory, SegmentsListed, TypeOK, MemoryTypeOK
<1>5. \A r : r \in Pending <=>
         \E id \in Elements(segments) : \E i : Reads(disk, readSegment, readOffset, id, i) /\ disk[id][i].rec = r
  BY PeekMember DEF Pending
<1>6. \A r : r \in Pending' <=>
         \E id \in Elements(segments') : \E i : Reads(disk', readSegment, readOffset, id, i) /\ disk'[id][i].rec = r
  <2>1. Pending' = PeekAll(disk', segments', readSegment, readOffset)
    BY DEF Pending
  <2> QED
    BY <2>1, PeekMember
<1>7. ASSUME NEW r \in Pending PROVE r \in Pending'
  <2>1. PICK id \in Elements(segments) : \E i : Reads(disk, readSegment, readOffset, id, i) /\ disk[id][i].rec = r
    BY <1>5
  <2>2. PICK i : Reads(disk, readSegment, readOffset, id, i) /\ disk[id][i].rec = r
    BY <2>1
  <2>3. /\ id \in DOMAIN disk /\ id >= readSegment /\ i \in DOMAIN disk[id]
        /\ i \in ReadableFrom(disk[id], off(id))
    BY <2>2 DEF Reads
  <2>4. /\ id \in DOMAIN disk'
        /\ \A j \in DOMAIN disk[id] : j \in DOMAIN disk'[id] /\ disk'[id][j] = disk[id][j]
    BY <1>2, <2>3 DEF Extends
  <2>5. 1..i \subseteq DOMAIN disk[id]
    BY <1>4, <2>3
  <2> HIDE DEF off
  <2>6. i \in ReadableFrom(disk'[id], off(id))
    BY <2>3, <2>4, <2>5 DEF ReadableFrom
  <2>7. Reads(disk', readSegment, readOffset, id, i) /\ disk'[id][i].rec = r
    BY <2>2, <2>3, <2>4, <2>6 DEF Reads, off
  <2> QED
    BY <1>3, <1>6, <2>7
<1>8. ASSUME NEW r \in Pending' PROVE r \in Pending \/ (words # 0 /\ r = nextRec)
  <2>1. PICK id \in Elements(segments') : \E i : Reads(disk', readSegment, readOffset, id, i) /\ disk'[id][i].rec = r
    BY <1>6
  <2>2. PICK i : Reads(disk', readSegment, readOffset, id, i) /\ disk'[id][i].rec = r
    BY <2>1
  <2>3. /\ id \in DOMAIN disk' /\ id >= readSegment /\ i \in DOMAIN disk'[id]
        /\ i \in ReadableFrom(disk'[id], off(id))
    BY <2>2 DEF Reads
  <2>4. CASE id # Active
    <3>1. id \in DOMAIN disk /\ disk'[id] = disk[id] /\ id \in Elements(segments)
      BY <1>1, <1>2, <1>4, <2>3, <2>4
    <3>2. Reads(disk, readSegment, readOffset, id, i) /\ disk[id][i].rec = r
      BY <2>2, <3>1 DEF Reads
    <3> QED
      BY <1>5, <3>1, <3>2
  <2>5. ASSUME id = Active, i \in DOMAIN Old, i \in ReadableFrom(Old, off(id)), Old[i].rec = r
        PROVE  r \in Pending
    <3>1. id \in DOMAIN disk /\ Old = disk[id]
      BY <2>5 DEF Old, FileAt
    <3>2. Reads(disk, readSegment, readOffset, id, i) /\ disk[id][i].rec = r
      BY <2>3, <2>5, <3>1 DEF Reads
    <3>3. id \in Elements(segments)
      BY <1>4, <2>3, <3>1
    <3> QED
      BY <1>5, <3>2, <3>3
  <2>6. CASE id = Active /\ words = 0
    BY <1>2, <2>2, <2>3, <2>5, <2>6
  <2>7. CASE id = Active /\ words # 0
    <3> DEFINE n == Len(Old)
               file == Append(Old, New(len, words))
    <3>1. /\ disk'[id] = file
          /\ n \in Nat /\ DOMAIN Old = 1..n /\ DOMAIN file = 1..(n + 1)
          /\ file[n + 1] = New(len, words)
          /\ \A j \in DOMAIN Old : file[j] = Old[j]
      BY <1>2, <2>7, AppendShape
    <3> HIDE DEF file
    <3>2. CASE i = n + 1
      BY <2>2, <2>7, <3>1, <3>2 DEF New
    <3>3. CASE i \in DOMAIN Old
      <4>1. PICK k \in DOMAIN file : file[k].at = off(id)
        BY <2>3, <3>1 DEF ReadableFrom
      <4>2. file[i] = Old[i] /\ Old[i].at >= off(id)
        BY <2>3, <3>1, <3>3 DEF ReadableFrom
      <4>3. k # n + 1
        <5>1. Old[i].at \in Nat /\ Old[i].words \in Nat \ {0}
          BY <1>2, <3>3, ChunkType
        <5>2. Old[i].at + Old[i].words <= SizeOf(Old)
          BY <1>2, <3>3 DEF FileOK
        <5>3. New(len, words).at = SizeOf(Old)
          BY DEF New
        <5> HIDE DEF off
        <5>4. SUFFICES ASSUME off(id) = SizeOf(Old) PROVE FALSE
          BY <3>1, <4>1, <5>3
        <5> QED
          BY <1>2, <4>2, <5>1, <5>2, <5>4
      <4>4. k \in DOMAIN Old /\ Old[k].at = off(id)
        BY <3>1, <4>1, <4>3
      <4>5. 1..i \subseteq DOMAIN Old
        BY <3>1, <3>3
      <4>6. \A j \in 1..i : file[j].at >= off(id) => Complete(file[j])
        BY <2>3, <3>1 DEF ReadableFrom
      <4> HIDE DEF off
      <4>7. i \in ReadableFrom(Old, off(id))
        BY <3>1, <3>3, <4>2, <4>4, <4>5, <4>6 DEF ReadableFrom
      <4>8. Old[i].rec = r
        BY <2>2, <3>1, <4>2
      <4> QED
        BY <2>5, <2>7, <3>3, <4>7, <4>8
    <3>4. i = n + 1 \/ i \in DOMAIN Old
      BY <2>3, <3>1
    <3> QED
      BY <3>2, <3>3, <3>4
  <2> QED
    BY <2>4, <2>6, <2>7
<1> QED
  BY <1>7, <1>8

\* A segment that is listed but could not be created holds no records.
LEMMA ListPending ==
    ASSUME IInv, CInv, open, segments' = WithActive, UNCHANGED <<disk, readSegment, readOffset>>
    PROVE  Pending' = Pending
<1>1. Elements(segments') = Elements(segments) \cup {Active}
  BY ActiveType DEF IInv
<1>2. \A id \in DOMAIN disk : id >= readSegment => id \in Elements(segments)
  BY DEF IInv, SegmentsListed
<1>3. Pending' = PeekAll(disk, segments', readSegment, readOffset)
  BY DEF Pending
<1>4. \A r : r \in Pending <=>
         \E id \in Elements(segments) : \E i : Reads(disk, readSegment, readOffset, id, i) /\ disk[id][i].rec = r
  BY PeekMember DEF Pending
<1>5. \A r : r \in Pending' <=>
         \E id \in Elements(segments') : \E i : Reads(disk, readSegment, readOffset, id, i) /\ disk[id][i].rec = r
  BY <1>3, PeekMember
<1>6. \A id, i : Reads(disk, readSegment, readOffset, id, i) => id \in Elements(segments)
  BY <1>2 DEF Reads
<1> QED
  BY <1>1, <1>4, <1>5, <1>6

\* Deleting a segment before the cursor takes nothing from peek.
LEMMA EvictPending ==
    ASSUME IInv, CInv, Evict, readSegment > segments[1]
    PROVE  Pending' = Pending
<1>1. /\ disk' = Left /\ segments' = Rest
      /\ segments[1] \in Nat
      /\ UNCHANGED <<readSegment, readOffset>>
  <2>1. readSegment \in Nat /\ segments[1] \in Nat
    BY EvictShape DEF IInv, TypeOK, MemoryTypeOK
  <2> QED
    BY <2>1, EvictShape
<1>2. \A s : s \in Elements(Rest) <=> s \in Elements(segments) /\ s # segments[1]
  BY EvictShape
<1>3. readSegment \in Nat
  BY DEF IInv, TypeOK, MemoryTypeOK
<1>4. DOMAIN Left = DOMAIN disk \ {segments[1]}
  BY WithoutShape, ZenonT(30) DEF Left
<1>5. \A id \in DOMAIN Left : Left[id] = disk[id]
  BY WithoutShape, Zenon DEF Left
<1>6. \A id, i : Reads(disk, readSegment, readOffset, id, i) => id # segments[1]
  BY <1>1, <1>3 DEF Reads
<1>7. \A id, i : Reads(disk, readSegment, readOffset, id, i) <=> Reads(Left, readSegment, readOffset, id, i)
  BY <1>4, <1>5, <1>6 DEF Reads
<1>8. Pending' = PeekAll(Left, Rest, readSegment, readOffset)
  BY <1>1 DEF Pending
<1>9. \A r : r \in Pending <=>
         \E id \in Elements(segments) : \E i : Reads(disk, readSegment, readOffset, id, i) /\ disk[id][i].rec = r
  BY PeekMember DEF Pending
<1>10. \A r : r \in Pending' <=>
         \E id \in Elements(Rest) : \E i : Reads(Left, readSegment, readOffset, id, i) /\ Left[id][i].rec = r
  BY <1>8, PeekMember
<1>11. \A id, i : Reads(Left, readSegment, readOffset, id, i) => Left[id] = disk[id]
  BY <1>5 DEF Reads
<1> QED
  BY <1>2, <1>6, <1>7, <1>9, <1>10, <1>11

\* What the counters are: numbers, like the sizes of the sets they count.
LEMMA StatsNumbers ==
    ASSUME IInv
    PROVE  /\ stats \in StatsType
           /\ stats = [appended  |-> stats.appended, committed |-> stats.committed,
                       dropped   |-> stats.dropped,  pending   |-> stats.pending]
           /\ stats.appended \in Nat /\ stats.committed \in Nat
           /\ stats.dropped \in Nat /\ stats.pending \in Nat
           /\ IsFiniteSet(Pending) /\ Cardinality(Pending) \in Nat /\ Pending \subseteq 1..(nextRec - 1)
           /\ IsFiniteSet(evicted) /\ Cardinality(evicted) \in Nat
           /\ nextRec \in Nat /\ crashes \in Nat /\ torn \in Nat
<1>1. stats \in StatsType
  BY DEF IInv, TypeOK, MemoryTypeOK
<1>2. /\ stats = [appended  |-> stats.appended, committed |-> stats.committed,
                  dropped   |-> stats.dropped,  pending   |-> stats.pending]
      /\ stats.appended \in Nat /\ stats.committed \in Nat
      /\ stats.dropped \in Nat /\ stats.pending \in Nat
  BY <1>1 DEF StatsType
<1>3. nextRec \in Nat \ {0} /\ crashes \in Nat /\ torn \in Nat /\ evicted \subseteq 1..(nextRec - 1)
  BY ConstantAssumption DEF IInv, TypeOK, HistoryTypeOK
<1>4. IsFiniteSet(Pending) /\ Cardinality(Pending) \in Nat /\ Pending \subseteq 1..(nextRec - 1)
  BY <1>3, PeekType DEF IInv, Pending
<1>5. IsFiniteSet(evicted) /\ Cardinality(evicted) \in Nat
  <2>1. IsFiniteSet(1..(nextRec - 1))
    BY <1>3, FS_Interval
  <2> QED
    BY <1>3, <2>1, FS_Subset, FS_CardinalityType, Zenon
<1> QED
  BY <1>1, <1>2, <1>3, <1>4, <1>5

\* Opening an empty spool starts the counters at nothing.
LEMMA OpenBalance == ASSUME IInv, CInv, BalanceInv, Open PROVE BalanceInv'
<1>1. PICK segs \in Listings :
         LET cursor == CursorIn(segs) IN
         /\ segments' = segs
         /\ readSegment' = cursor.seg
         /\ readOffset' = cursor.off
         /\ stats' = [appended  |-> 0,
                      committed |-> stateFile.committed,
                      dropped   |-> stateFile.dropped,
                      pending   |-> Cardinality(PeekAll(disk, segs, cursor.seg, cursor.off))]
  BY DEF Open
<1>2. ~open /\ open' /\ UNCHANGED <<disk, torn, crashes, evicted>>
  BY DEF Open, diskVars, boundVars, historyVars
<1>3. Pending' = PeekAll(disk, segs, CursorIn(segs).seg, CursorIn(segs).off)
  BY <1>1, <1>2 DEF Pending
<1>4. /\ stats'.pending = Cardinality(Pending') /\ stats'.appended = 0
      /\ stats'.committed = stateFile.committed /\ stats'.dropped = stateFile.dropped
  BY <1>1, <1>3
<1>5. crashes = 0 => /\ stats'.committed = 0 /\ stats'.dropped = 0 /\ evicted = {}
                     /\ DOMAIN disk = {}
  BY <1>2, <1>4 DEF BalanceInv
<1>6. DOMAIN disk = {} => Pending' = {}
  <2>1. \A r : r \in Pending' =>
           \E id \in Elements(segs) : \E i :
               Reads(disk, CursorIn(segs).seg, CursorIn(segs).off, id, i) /\ disk[id][i].rec = r
    BY <1>3, PeekMember
  <2> QED
    BY <2>1 DEF Reads
<1>7. crashes = 0 => stats'.pending = 0 /\ Cardinality(evicted) = 0
  BY <1>4, <1>5, <1>6, FS_EmptySet, Zenon
<1> QED
  BY <1>2, <1>4, <1>5, <1>7 DEF BalanceInv

\* A process that has been down at least once.
LEMMA DownBalance ==
    ASSUME IInv, Crash \/ (\E len \in Lens, words \in Nat : CrashMidAppend(len, words))
    PROVE  BalanceInv'
<1>1. GoDown
  BY DEF Crash, CrashMidAppend
<1>2. ~open' /\ crashes' = crashes + 1 /\ crashes \in Nat
  BY <1>1, StatsNumbers DEF GoDown
<1>3. crashes' # 0
  BY <1>2
<1> QED
  BY <1>2, <1>3 DEF BalanceInv

\* Steps that leave the counters, and what they count, alone.
LEMMA SameBalance ==
    ASSUME IInv, BalanceInv, UNCHANGED <<stats, crashes, evicted, open>>, open,
           torn' = 0 => torn = 0 /\ Cardinality(Pending') = Cardinality(Pending)
    PROVE  BalanceInv'
BY DEF BalanceInv

\* DuePending of the state a step leads to.
LEMMA DuePendingNext == (IInv /\ CInv /\ open => Due \subseteq Pending)'
<1>1. IInv /\ CInv /\ open => Due \subseteq Pending
  BY DuePending
<1> QED
  BY <1>1, PTL

\* A record appended is one more appended, and one more pending.
LEMMA AppendBalance ==
    ASSUME IInv, CInv, BalanceInv, NEW len \in Lens, AppendWrite(len)
    PROVE  BalanceInv'
<1> DEFINE words == Header + len
<1>1. len \in Nat /\ words \in Nat
  BY ConstantAssumption DEF Header
<1>2. /\ open
      /\ disk' = DiskAfterWrite(len, words)
      /\ segments' = WithActive
      /\ stats' = [stats EXCEPT !.appended = @ + 1, !.pending = @ + 1]
      /\ accepted' = accepted \cup {nextRec}
      /\ shadowed' = shadowed \cup (IF TornIn(Old) THEN {nextRec} ELSE {})
      /\ UNCHANGED <<open, readSegment, readOffset, torn, crashes, released, evicted>>
  BY DEF AppendWrite, Old
<1> HIDE DEF words
<1>3. /\ Pending \subseteq Pending'
      /\ Pending' \subseteq Pending \cup {nextRec}
  BY <1>1, <1>2, WritePending
<1>4. ASSUME torn = 0 PROVE nextRec \in Pending'
  <2>1. ~TornIn(Old)
    BY <1>4 DEF CInv, Contents, TornIn, Old, FileAt
  <2>2. nextRec \notin released /\ nextRec \notin evicted /\ nextRec \notin shadowed
    BY DEF IInv, TypeOK, HistoryTypeOK
  <2>3. nextRec \in Due'
    BY <1>2, <2>1, <2>2 DEF Due
  <2>4. IInv' /\ CInv'
    BY AppendWriteKeeps, AppendWriteC
  <2>5. Due' \subseteq Pending'
    BY <1>2, <2>4, DuePendingNext
  <2> QED
    BY <2>3, <2>5
<1>5. /\ stats.appended \in Nat /\ stats.committed \in Nat
      /\ stats.dropped \in Nat /\ stats.pending \in Nat
      /\ IsFiniteSet(Pending) /\ Cardinality(Pending) \in Nat
      /\ Pending \subseteq 1..(nextRec - 1) /\ nextRec \in Nat
  BY StatsNumbers
<1>6. /\ stats'.appended = stats.appended + 1 /\ stats'.pending = stats.pending + 1
      /\ stats'.committed = stats.committed /\ stats'.dropped = stats.dropped
  <2>1. stats = [appended  |-> stats.appended, committed |-> stats.committed,
                 dropped   |-> stats.dropped,  pending   |-> stats.pending]
    BY StatsNumbers
  <2> QED
    BY <1>2, <2>1
<1>7. torn = 0 => Cardinality(Pending') = Cardinality(Pending) + 1
  <2>1. nextRec \notin Pending
    BY <1>5
  <2>2. torn = 0 => Pending' = Pending \cup {nextRec}
    BY <1>3, <1>4
  <2> QED
    BY <1>5, <2>1, <2>2, FS_AddElement
<1> QED
  BY <1>2, <1>5, <1>6, <1>7 DEF BalanceInv

\* An append that fails leaves the counters alone, and so does the segment it
\* may have listed or created.
LEMMA FailBalance ==
    ASSUME IInv, CInv, BalanceInv,
           AppendCannotOpen \/ (\E len \in Lens, words \in Nat : AppendFails(len, words))
    PROVE  BalanceInv'
<1>1. CASE AppendCannotOpen
  <2>1. /\ open /\ segments' = WithActive
        /\ UNCHANGED <<disk, open, readSegment, readOffset, stats, torn, crashes, evicted>>
    BY <1>1 DEF AppendCannotOpen, diskVars, boundVars, historyVars
  <2>2. Pending' = Pending
    BY <2>1, ListPending
  <2> QED
    BY <2>1, <2>2, SameBalance
<1>2. ASSUME NEW len \in Lens, NEW words \in Nat, AppendFails(len, words) PROVE BalanceInv'
  <2>1. /\ open /\ disk' = DiskAfterWrite(len, words) /\ segments' = WithActive
        /\ torn' = torn + (IF words > 0 THEN 1 ELSE 0)
        /\ UNCHANGED <<open, readSegment, readOffset, stats, crashes, evicted>>
    BY <1>2 DEF AppendFails, PartialWrite, historyVars
  <2>2. len \in Nat /\ torn \in Nat
    BY ConstantAssumption, StatsNumbers
  <2>3. torn' = 0 => torn = 0 /\ words = 0
    BY <2>1, <2>2
  <2>4. words = 0 => Pending' = Pending
    BY <2>1, <2>2, WritePending
  <2> QED
    BY <2>1, <2>3, <2>4, SameBalance
<1> QED
  BY <1>1, <1>2

\* An eviction's loss is counted as dropped, record for record.
LEMMA EvictBalance ==
    ASSUME IInv, CInv, BalanceInv, Evict
    PROVE  BalanceInv'
<1>1. open /\ UNCHANGED <<open, torn, crashes>> /\ segments[1] \in Nat /\ readSegment \in Nat
  BY EvictShape DEF IInv, TypeOK, MemoryTypeOK
<1>2. CASE readSegment > segments[1]
  <2>1. UNCHANGED <<stats, evicted>>
    BY <1>1, <1>2, EvictShape
  <2>2. Pending' = Pending
    BY <1>2, EvictPending
  <2> QED
    BY <1>1, <2>1, <2>2, SameBalance
<1>3. CASE readSegment <= segments[1]
  <2> DEFINE drop == Cardinality(Pending) - Cardinality(Still)
  <2>1. /\ disk' = Left /\ segments' = Rest /\ readSegment' = Rest[1] /\ readOffset' = 0
        /\ evicted' = evicted \cup (Pending \ Still)
    BY <1>1, <1>3, EvictShape
  <2>2. segments[1] >= readSegment
    BY <1>1, <1>3
  <2>3. stats' = [stats EXCEPT !.dropped = @ + (IF drop > 0 THEN drop ELSE 0),
                               !.pending = Cardinality(Still)]
    BY <1>3, <2>2, Zenon DEF Evict, EvictOldest, Left, Rest, Still, Without
  <2>4. Pending' = Still
    BY <2>1 DEF Pending, Still
  <2>5. Still \subseteq Pending
    BY <1>3, EvictedGone
  <2>6. /\ stats.appended \in Nat /\ stats.committed \in Nat
        /\ stats.dropped \in Nat /\ stats.pending \in Nat
        /\ IsFiniteSet(Pending) /\ Cardinality(Pending) \in Nat
        /\ IsFiniteSet(evicted) /\ Cardinality(evicted) \in Nat
    BY StatsNumbers
  <2>7. IsFiniteSet(Still) /\ Cardinality(Still) \in Nat /\ Cardinality(Still) <= Cardinality(Pending)
    BY <2>5, <2>6, FS_Subset, FS_CardinalityType
  <2>8. IsFiniteSet(Pending \ Still) /\ Cardinality(Pending \ Still) = drop
    <3>1. Pending \cap Still = Still
      BY <2>5
    <3> QED
      BY <2>6, <3>1, FS_Difference, Zenon
  <2>9. drop \in Nat /\ (IF drop > 0 THEN drop ELSE 0) = drop
    BY <2>6, <2>7
  <2>10. Cardinality(evicted') <= Cardinality(evicted) + drop
    <3>1. IsFiniteSet(evicted \cap (Pending \ Still)) /\ Cardinality(evicted \cap (Pending \ Still)) \in Nat
      BY <2>6, FS_Subset, FS_CardinalityType
    <3>2. Cardinality(evicted') =
             Cardinality(evicted) + drop - Cardinality(evicted \cap (Pending \ Still))
      BY <2>1, <2>6, <2>8, FS_Union
    <3> HIDE DEF drop
    <3> QED
      BY <2>6, <2>9, <3>1, <3>2
  <2>11. evicted' = evicted \cup (Pending \ Still) /\ Cardinality(evicted') \in Nat
    BY <2>1, <2>6, <2>8, FS_Union, FS_CardinalityType, Zenon
  <2>12. /\ stats'.appended = stats.appended /\ stats'.pending = Cardinality(Still)
         /\ stats'.committed = stats.committed /\ stats'.dropped = stats.dropped + drop
    <3>1. stats = [appended  |-> stats.appended, committed |-> stats.committed,
                   dropped   |-> stats.dropped,  pending   |-> stats.pending]
      BY StatsNumbers
    <3>2. stats' = [stats EXCEPT !.dropped = @ + drop, !.pending = Cardinality(Still)]
      BY <2>3, <2>9, Zenon
    <3> HIDE DEF drop
    <3> QED
      BY <3>1, <3>2
  <2>13. torn = 0 => stats.pending = Cardinality(Still) + drop
    <3>1. torn = 0 => stats.pending = Cardinality(Pending)
      BY <1>1 DEF BalanceInv
    <3> QED
      BY <2>6, <2>7, <3>1
  <2> HIDE DEF drop
  <2> QED
    BY <1>1, <2>4, <2>6, <2>7, <2>9, <2>10, <2>11, <2>12, <2>13 DEF BalanceInv
<1> QED
  BY <1>1, <1>2, <1>3

\* A record commit passes is one more committed, and one fewer pending.
LEMMA FrameBalance ==
    ASSUME IInv, CInv, BalanceInv, CommitFrame
    PROVE  BalanceInv'
<1>1. PICK k : Passes(k)
  BY FrameShape
<1> DEFINE c == disk[readSegment][k]
<1>2. /\ open /\ pc = "commit" /\ remaining \in Nat /\ remaining > 0
      /\ UNCHANGED <<open, crashes, torn, evicted>>
  BY FrameShape
<1>3. stats' = [stats EXCEPT !.committed = @ + 1, !.pending = IF @ > 0 THEN @ - 1 ELSE 0]
  BY DEF CommitFrame, PassFrame
<1>4. /\ stats.appended \in Nat /\ stats.committed \in Nat
      /\ stats.dropped \in Nat /\ stats.pending \in Nat
      /\ IsFiniteSet(Pending) /\ Cardinality(Pending) \in Nat
  BY StatsNumbers
<1>5. /\ stats'.appended = stats.appended /\ stats'.dropped = stats.dropped
      /\ stats'.committed = stats.committed + 1
      /\ stats'.pending = IF stats.pending > 0 THEN stats.pending - 1 ELSE 0
  <2>1. stats = [appended  |-> stats.appended, committed |-> stats.committed,
                 dropped   |-> stats.dropped,  pending   |-> stats.pending]
    BY StatsNumbers
  <2> QED
    BY <1>3, <2>1
<1>6. ASSUME torn = 0
      PROVE  Cardinality(Pending') = Cardinality(Pending) - 1
  <2>1. Complete(c)
    BY <1>1, <1>6 DEF Passes, CInv, Contents
  <2>2. c.rec \in Pending /\ Pending' = Pending \ {c.rec}
    BY <1>1, <2>1, FramePending
  <2> QED
    BY <1>4, <2>2, FS_RemoveElement, Zenon
<1>7. remaining <= Cardinality(Pending)
  BY <1>2 DEF CInv, CommitInv
<1>8. torn = 0 => stats.pending > 0 /\ stats.pending = Cardinality(Pending)
  BY <1>2, <1>4, <1>7 DEF BalanceInv
<1> QED
  BY <1>2, <1>4, <1>5, <1>6, <1>8 DEF BalanceInv

\* Every step keeps the books.
LEMMA NextBalance == ASSUME IInv, CInv, BalanceInv, [Next]_vars PROVE BalanceInv'
<1>1. CASE UNCHANGED vars
  <2>1. UNCHANGED <<disk, stateFile, open, segments, readSegment, readOffset, stats,
                    crashes, torn, evicted>>
    BY <1>1 DEF vars, diskVars, memoryVars, boundVars, historyVars
  <2>2. Pending' = Pending
    BY <2>1 DEF Pending
  <2> QED
    BY <2>1, <2>2 DEF BalanceInv
<1>2. CASE ReadStats
  <2>1. /\ open /\ stats' = [stats EXCEPT !.pending = Cardinality(Pending)]
        /\ UNCHANGED <<disk, open, segments, readSegment, readOffset, crashes, torn, evicted>>
    BY <1>2 DEF ReadStats, diskVars, boundVars, historyVars
  <2>2. Pending' = Pending
    BY <2>1 DEF Pending
  <2>3. /\ stats'.appended = stats.appended /\ stats'.dropped = stats.dropped
        /\ stats'.committed = stats.committed /\ stats'.pending = Cardinality(Pending)
    <3>1. stats = [appended  |-> stats.appended, committed |-> stats.committed,
                   dropped   |-> stats.dropped,  pending   |-> stats.pending]
      BY StatsNumbers
    <3> QED
      BY <2>1, <3>1
  <2> QED
    BY <2>1, <2>2, <2>3 DEF BalanceInv
<1>3. CASE WithinBounds \/ CommitStop \/ SaveSteps \/ \E count \in 1..Cardinality(Pending) : CommitStart(count)
  <2>1. UNCHANGED <<disk, open, segments, readSegment, readOffset, stats, crashes, torn, evicted>>
    BY <1>3 DEF WithinBounds, CommitStop, CommitLeaves, SaveSteps, SaveState, SaveRemove, SaveRename,
       SaveFails, CommitStart, diskVars, memoryVars, boundVars, historyVars
  <2>2. open
    <3>1. pc # "idle" \/ open
      BY <1>3 DEF WithinBounds, CommitStop, CommitLeaves, SaveSteps, SaveState, SaveRemove, SaveRename,
         SaveFails, CommitStart
    <3> QED
      BY <3>1 DEF IInv, CallsOpen
  <2>3. Pending' = Pending
    BY <2>1 DEF Pending
  <2> QED
    BY <2>1, <2>2, <2>3, SameBalance
<1>4. CASE CommitRetire \/ CommitMissing
  <2>1. PICK p : MovesTo(p)
    BY <1>4, MoveShape
  <2>2. open /\ UNCHANGED <<open, crashes, torn, evicted>>
    BY <2>1 DEF MovesTo
  <2>3. UNCHANGED stats
    BY <1>4 DEF CommitRetire, CommitMissing
  <2>4. Pending' = Pending
    BY <2>1, MovePending
  <2> QED
    BY <2>2, <2>3, <2>4, SameBalance
<1>5. CASE AppendSteps
  <2>1. ASSUME NEW len \in Lens, NEW words \in 0..(Header + len - 1) PROVE words \in Nat
    BY <2>1
  <2> QED
    BY <1>3, <1>5, <2>1, AppendBalance, FailBalance, DownBalance, EvictBalance DEF AppendSteps
<1>6. CASE Open
  BY <1>6, OpenBalance
<1>7. CASE Crash
  BY <1>7, DownBalance
<1>8. CASE CommitFrame
  BY <1>8, FrameBalance
<1> QED
  BY <1>1, <1>2, <1>3, <1>4, <1>5, <1>6, <1>7, <1>8 DEF Next, CommitSteps

\* The four counters add up, whatever calls interleave: pending is what peek
\* would count, every record of one process's life is committed, dropped or
\* pending, and no eviction goes uncounted.
THEOREM CountersBalance ==
    ASSUME StaleSegments \subseteq {0, 1}
    PROVE  Spec => []StatsBalance
<1>1. Init => BalanceInv
  <2>1. NoState.committed = 0 /\ NoState.dropped = 0
    BY DEF NoState
  <2>2. \A id : LET s == [NoState EXCEPT !.present = TRUE, !.seg = id] IN s.committed = 0 /\ s.dropped = 0
    BY Zenon DEF NoState
  <2>3. Init => stateFile.committed = 0 /\ stateFile.dropped = 0
    BY <2>1, <2>2, Zenon DEF Init
  <2> QED
    BY <2>3, Zenon DEF Init, BalanceInv
<1>2. (IInv /\ CInv) /\ BalanceInv /\ [Next]_vars => BalanceInv'
  BY NextBalance
<1>3. BalanceInv => StatsBalance
  BY DEF BalanceInv, StatsBalance
<1> QED
  BY <1>1, <1>2, <1>3, ContentInvariance, PTL DEF Spec

-----------------------------------------------------------------------------
(* commit's two ways out *)

\* A set of numbers that is not empty has a least one.
LEMMA LeastNumber ==
    ASSUME NEW T, T \subseteq Nat, T # {}
    PROVE  \E x \in T : \A y \in T : x <= y
<1>1. PICK x \in T : \A y \in T : ~(<<y, x>> \in OpToRel(<, Nat))
  BY WFMin, NatLessThanWellFounded, Zenon
<1>2. \A y \in T : ~(y < x)
  BY <1>1, Zenon DEF OpToRel
<1> QED
  BY <1>2

\* Where commit leaves its loop with something still to release.
LEMMA LeavesShort ==
    ASSUME IInv, CInv, torn = 0, pc = "commit", remaining # 0, HeadersAtCursor = {}
    PROVE  /\ UpperBound(readSegment) # {}
           /\ readSegment \in DOMAIN disk => readOffset > 0
<1>1. /\ open /\ remaining \in Nat /\ readSegment \in Nat /\ readOffset \in Nat
      /\ segments \in Seq(Nat \ {0}) /\ Ascending(segments)
      /\ Directory(disk, nextRec) /\ Layout(disk) /\ Contents
      /\ remaining <= Cardinality(Pending)
  BY DEF IInv, CallsOpen, TypeOK, MemoryTypeOK, SegmentsListed, CInv, CommitInv
<1>2. Pending # {}
  BY <1>1, FS_EmptySet
<1>3. PICK r : r \in Pending
  BY <1>2
<1>4. PICK id \in Elements(segments) : \E i : Reads(disk, readSegment, readOffset, id, i) /\ disk[id][i].rec = r
  BY <1>3, PeekMember DEF Pending
<1>5. id # readSegment
  BY <1>4, NoHeaderNoRecord
<1>6. id \in DOMAIN disk /\ id \in Nat /\ id > readSegment
  BY <1>1, <1>4, <1>5 DEF Reads, Directory
<1>7. UpperBound(readSegment) # {}
  <2> DEFINE T == {q \in DOMAIN segments : segments[q] > readSegment}
  <2>1. T \subseteq Nat /\ T # {}
    BY <1>1, <1>4, <1>6 DEF Elements
  <2>2. PICK p \in T : \A q \in T : p <= q
    BY <2>1, LeastNumber, Zenon
  <2>3. ASSUME NEW q \in 1..(p - 1) PROVE segments[q] <= readSegment
    <3>1. q \in DOMAIN segments /\ ~(p <= q)
      BY <1>1, <2>2, <2>3
    <3>2. ~(segments[q] > readSegment)
      BY <2>2, <3>1
    <3>3. segments[q] \in Nat
      BY <1>1, <3>1
    <3> QED
      BY <1>1, <3>2, <3>3
  <2> QED
    BY <2>2, <2>3 DEF UpperBound
<1>8. ASSUME readSegment \in DOMAIN disk, readOffset = 0 PROVE FALSE
  <2> DEFINE file == disk[readSegment]
  <2>1. readSegment < id
    BY <1>1, <1>6
  <2>2. file # <<>> /\ FileOK(file) /\ file \in Seq(Chunk)
    BY <1>1, <1>6, <1>8, <2>1 DEF Layout, Directory
  <2>3. 1 \in DOMAIN file
    BY <2>2
  <2>4. file[1].at = 0 /\ file[1].at + file[1].words <= SizeOf(file)
    BY <2>2, <2>3 DEF FileOK
  <2>5. Complete(file[1])
    BY <1>1, <1>8, <2>3 DEF Contents
  <2>6. file[1].words \in Nat /\ file[1].len \in Nat /\ SizeOf(file) \in Nat
    BY <2>2, <2>3, ChunkType, SizeType
  <2>7. readOffset + Header <= SizeOf(file)
    BY <1>8, <2>4, <2>5, <2>6 DEF Complete, Header
  <2>8. FileAt(disk, readSegment) = file
    BY <1>8 DEF FileAt
  <2> QED
    BY <1>8, <2>3, <2>4, <2>7, <2>8 DEF HeadersAtCursor
<1> QED
  BY <1>1, <1>7, <1>8

\* commit releases all it was told to, or none, in a spool without torn frames.
THEOREM ReleasesAllOrNone ==
    ASSUME StaleSegments \subseteq {0, 1}
    PROVE  Spec => AllOrNothing
<1> DEFINE P == torn = 0 /\ pc = "commit" /\ pc' = "save" =>
                    remaining = 0 \/ (~advanced /\ readOffset > 0)
<1>1. ASSUME IInv, CInv, Next PROVE P
  <2> SUFFICES ASSUME torn = 0, pc = "commit", pc' = "save", remaining # 0
               PROVE  ~advanced /\ readOffset > 0
    BY Zenon
  <2>1. CommitStop
    BY <1>1, Zenon DEF Next, Open, ReadStats, Crash, GoDown, AppendSteps, AppendWrite, AppendFails,
       PartialWrite, AppendCannotOpen, CrashMidAppend, Evict, EvictOldest, WithinBounds, CommitStart,
       CommitSteps, CommitFrame, PassFrame, CommitRetire, CommitMissing, SaveSteps, SaveState,
       SaveRemove, SaveRename, SaveFails, callVars
  <2>2. \/ NoSegmentLeft
        \/ readSegment \in DOMAIN disk /\ HeadersAtCursor = {} /\ ~advanced
    BY <2>1 DEF CommitStop, CommitLeaves
  <2> QED
    BY <1>1, <2>2, LeavesShort DEF NoSegmentLeft
<1>2. (IInv /\ CInv) /\ [Next]_vars => [P]_vars
  BY <1>1
<1>3. AllOrNothing <=> [][P]_vars
  BY DEF AllOrNothing
<1> HIDE DEF P
<1> QED
  BY <1>2, <1>3, ContentInvariance, PTL DEF Spec

-----------------------------------------------------------------------------
(* Sums *)

\* Among subsets of a finite set there is one that no other is one smaller than.
LEMMA SmallestSet ==
    ASSUME NEW S, IsFiniteSet(S), NEW B, B \subseteq SUBSET S, B # {}
    PROVE  \E s \in B : IsFiniteSet(s) /\ \A x \in s : s \ {x} \notin B
<1> DEFINE T == {Cardinality(s) : s \in B}
<1>1. \A s \in SUBSET S : IsFiniteSet(s)
  BY FS_Subset, Zenon
<1>2. T \subseteq Nat /\ T # {}
  BY <1>1, FS_CardinalityType, Zenon
<1>3. PICK n \in T : \A m \in T : n <= m
  <2> HIDE DEF T
  <2> QED
    BY <1>2, LeastNumber, Zenon
<1>4. PICK s \in B : n = Cardinality(s)
  OBVIOUS
<1>5. ASSUME NEW x \in s, s \ {x} \in B PROVE FALSE
  <2>1. Cardinality(s \ {x}) = Cardinality(s) - 1 /\ Cardinality(s) \in Nat
    BY <1>1, FS_RemoveElement, FS_CardinalityType, Zenon
  <2>2. n <= Cardinality(s \ {x})
    BY <1>3, <1>5, Zenon
  <2> QED
    BY <1>4, <2>1, <2>2
<1> QED
  BY <1>1, <1>4, <1>5, Zenon

\* The element that a fold takes next.
Pick(s) == CHOOSE x \in s : TRUE

\* It is one of the set.
LEMMA PickIn == ASSUME NEW s, s # {} PROVE Pick(s) \in s
BY Zenon DEF Pick

\* One step of the sum of f over s, from the sums g over smaller sets.
SumStep(g, f, s) == IF s = {} THEN 0 ELSE f[Pick(s)] + g[s \ {Pick(s)}]

\* g gives the sum of f over each subset of S.
IsTotal(g, f, S) == g = [s \in SUBSET S |-> SumStep(g, f, s)]

\* Every function has its sums.
LEMMA TotalExists ==
    ASSUME NEW S, IsFiniteSet(S), NEW f
    PROVE  \E g : IsTotal(g, f, S)
<1> DEFINE N == Cardinality(S)
           small(m) == {s \in SUBSET S : Cardinality(s) <= m}
           Upto(g, m) == g = [s \in small(m) |-> SumStep(g, f, s)]
           T == {m \in 0..N : ~\E g : Upto(g, m)}
<1>1. N \in Nat
  BY FS_CardinalityType, Zenon
<1>2. \A s \in SUBSET S : IsFiniteSet(s) /\ Cardinality(s) \in Nat /\ Cardinality(s) <= N
  BY FS_Subset, FS_CardinalityType, Zenon
<1>3. ASSUME NEW s \in SUBSET S, s # {}
      PROVE  s \ {Pick(s)} \in SUBSET S /\ Cardinality(s \ {Pick(s)}) = Cardinality(s) - 1
  BY <1>2, <1>3, PickIn, FS_RemoveElement, Zenon
<1>4. ASSUME T # {} PROVE FALSE
  <2>1. PICK m \in T : \A k \in T : m <= k
    <3>1. T \subseteq Nat
      OBVIOUS
    <3> HIDE DEF T
    <3> QED
      BY <1>4, <3>1, LeastNumber, Zenon
  <2>2. m \in 0..N /\ ~\E g : Upto(g, m)
    BY Zenon
  <2> HIDE DEF T
  <2>3. m # 0
    <3>1. ASSUME NEW s \in small(0) PROVE s = {}
      <4>1. s \in SUBSET S /\ Cardinality(s) <= 0
        OBVIOUS
      <4>2. IsFiniteSet(s) /\ Cardinality(s) \in Nat
        BY <1>2, <4>1, Zenon
      <4>3. Cardinality(s) = 0
        BY <4>1, <4>2
      <4> QED
        BY <4>2, <4>3, FS_EmptySet, Zenon
    <3> DEFINE z == [s \in small(0) |-> 0]
    <3>2. z = [s \in small(0) |-> SumStep(z, f, s)]
      BY <3>1, Zenon DEF SumStep
    <3> QED
      BY <2>2, <3>2, Zenon
  <2>4. m - 1 \in 0..N /\ ~(m <= m - 1) /\ m - 1 \in Nat
    BY <1>1, <2>2, <2>3
  <2>5. PICK g : Upto(g, m - 1)
    <3>1. m - 1 \notin T
      BY <2>1, <2>4, Zenon
    <3> QED
      BY <2>4, <3>1, Zenon DEF T
  <2> DEFINE h == [s \in small(m) |-> SumStep(g, f, s)]
  <2>6. ASSUME NEW s \in small(m - 1) PROVE g[s] = h[s]
    <3>1. s \in small(m)
      BY <1>2, <2>2, <2>4
    <3>2. g[s] = SumStep(g, f, s)
      BY <2>5, Zenon
    <3> QED
      BY <3>1, <3>2, Zenon
  <2>7. ASSUME NEW s \in small(m) PROVE SumStep(g, f, s) = SumStep(h, f, s)
    <3>1. ASSUME s # {} PROVE s \ {Pick(s)} \in small(m - 1)
      BY <1>2, <1>3, <2>2, <3>1
    <3> HIDE DEF h, small
    <3> QED
      BY <2>6, <3>1, Zenon DEF SumStep
  <2>8. Upto(h, m)
    <3> DEFINE e == [s \in small(m) |-> SumStep(h, f, s)]
    <3>1. h = e
      BY <2>7, Zenon
    <3> QED
      BY <3>1, Zenon
  <2> QED
    BY <2>2, <2>8, Zenon
<1>5. PICK g : Upto(g, N)
  <2>1. N \in 0..N
    BY <1>1
  <2> QED
    BY <1>4, <2>1, Zenon
<1>6. small(N) = SUBSET S
  BY <1>2, Zenon
<1> HIDE DEF small
<1> QED
  BY <1>5, <1>6, Zenon DEF IsTotal

\* Sums of natural numbers are natural numbers, and any element may be taken
\* out of a sum.
LEMMA TotalAdds ==
    ASSUME NEW S, IsFiniteSet(S), NEW f \in [S -> Nat], NEW g, IsTotal(g, f, S)
    PROVE  /\ g[{}] = 0
           /\ \A s \in SUBSET S : g[s] \in Nat
           /\ \A s \in SUBSET S : \A x \in s : g[s] = f[x] + g[s \ {x}]
<1>1. \A s \in SUBSET S : g[s] = SumStep(g, f, s)
  BY Zenon DEF IsTotal
<1>2. g[{}] = 0
  BY <1>1, Zenon DEF SumStep
<1>3. ASSUME NEW s \in SUBSET S, s # {}
      PROVE  /\ Pick(s) \in s /\ s \ {Pick(s)} \in SUBSET S /\ f[Pick(s)] \in Nat
             /\ g[s] = f[Pick(s)] + g[s \ {Pick(s)}]
  BY <1>1, <1>3, PickIn, Zenon DEF SumStep
<1>4. \A s \in SUBSET S : g[s] \in Nat
  <2> DEFINE B == {s \in SUBSET S : g[s] \notin Nat}
  <2>1. ASSUME B # {} PROVE FALSE
    <3>1. PICK s \in B : \A x \in s : s \ {x} \notin B
      <4>1. B \subseteq SUBSET S
        OBVIOUS
      <4> HIDE DEF B
      <4> QED
        BY <2>1, <4>1, SmallestSet, Zenon
    <3>2. s # {}
      BY <1>2
    <3>3. g[s \ {Pick(s)}] \in Nat
      BY <1>3, <3>1, <3>2, ZenonT(30)
    <3>4. g[s] \in Nat
      BY <1>3, <3>2, <3>3
    <3> QED
      BY <3>4
  <2> QED
    BY <2>1, Zenon
<1>5. \A s \in SUBSET S : \A x \in s : g[s] = f[x] + g[s \ {x}]
  <2> DEFINE B == {s \in SUBSET S : \E x \in s : g[s] # f[x] + g[s \ {x}]}
  <2>1. ASSUME B # {} PROVE FALSE
    <3>1. PICK s \in B : \A x \in s : s \ {x} \notin B
      <4>1. B \subseteq SUBSET S
        OBVIOUS
      <4> HIDE DEF B
      <4> QED
        BY <2>1, <4>1, SmallestSet, Zenon
    <3>2. s \in SUBSET S
      OBVIOUS
    <3>3. PICK x \in s : g[s] # f[x] + g[s \ {x}]
      BY Zenon
    <3> DEFINE y == Pick(s)
               r == s \ {x, y}
    <3>4. y \in s /\ y # x /\ g[s] = f[y] + g[s \ {y}]
      BY <1>3, <3>2, <3>3, Zenon
    <3> HIDE DEF y
    <3>5. /\ s \ {x} \in SUBSET S /\ s \ {y} \in SUBSET S /\ r \in SUBSET S
          /\ (s \ {x}) \ {y} = r /\ (s \ {y}) \ {x} = r
      BY <3>2, Zenon
    <3>6. g[s \ {y}] = f[x] + g[(s \ {y}) \ {x}]
      BY <3>1, <3>4, <3>5, Zenon
    <3>7. g[s \ {x}] = f[y] + g[(s \ {x}) \ {y}]
      BY <3>1, <3>4, <3>5, ZenonT(30)
    <3>8. f[x] \in Nat /\ f[y] \in Nat /\ g[r] \in Nat
      BY <1>4, <3>2, <3>4, <3>5
    <3> HIDE DEF r
    <3>9. g[s \ {y}] = f[x] + g[r] /\ g[s \ {x}] = f[y] + g[r]
      BY <3>5, <3>6, <3>7, Zenon
    <3>10. g[s] = f[y] + (f[x] + g[r]) /\ g[s] # f[x] + (f[y] + g[r])
      BY <3>3, <3>4, <3>9, ZenonT(30)
    <3>11. \A i, j, k \in Nat : i + (j + k) = j + (i + k)
      OBVIOUS
    <3> QED
      BY <3>8, <3>10, <3>11, Zenon
  <2> QED
    BY <2>1, Zenon
<1> QED
  BY <1>2, <1>4, <1>5, Zenon

\* The sums of two functions over a set on which they agree are the same.
LEMMA TotalAgrees ==
    ASSUME NEW S1, NEW S2, NEW f1, NEW f2, NEW g1, NEW g2,
           IsTotal(g1, f1, S1), IsTotal(g2, f2, S2),
           NEW S, IsFiniteSet(S), S \subseteq S1, S \subseteq S2, \A x \in S : f1[x] = f2[x]
    PROVE  g1[S] = g2[S]
<1> DEFINE B == {s \in SUBSET S : g1[s] # g2[s]}
<1>1. ASSUME NEW s \in SUBSET S
      PROVE  g1[s] = SumStep(g1, f1, s) /\ g2[s] = SumStep(g2, f2, s)
  <2>1. s \in SUBSET S1 /\ s \in SUBSET S2
    OBVIOUS
  <2> QED
    BY <2>1, Zenon DEF IsTotal
<1>2. ASSUME B # {} PROVE FALSE
  <2>1. PICK s \in B : \A x \in s : s \ {x} \notin B
    <3>1. B \subseteq SUBSET S
      OBVIOUS
    <3> HIDE DEF B
    <3> QED
      BY <1>2, <3>1, SmallestSet, Zenon
  <2>2. s \in SUBSET S /\ g1[s] # g2[s]
    OBVIOUS
  <2>3. CASE s = {}
    BY <1>1, <2>2, <2>3, Zenon DEF SumStep
  <2>4. CASE s # {}
    <3>1. Pick(s) \in s /\ s \ {Pick(s)} \in SUBSET S
      BY <2>2, <2>4, PickIn, Zenon
    <3>2. g1[s \ {Pick(s)}] = g2[s \ {Pick(s)}]
      BY <2>1, <3>1, Zenon
    <3>3. f1[Pick(s)] = f2[Pick(s)]
      BY <2>2, <3>1, Zenon
    <3> QED
      BY <1>1, <2>2, <2>4, <3>2, <3>3, ZenonT(30) DEF SumStep
  <2> QED
    BY <2>3, <2>4, Zenon
<1>3. S \in SUBSET S
  OBVIOUS
<1> QED
  BY <1>2, <1>3, Zenon

-----------------------------------------------------------------------------
(* The words in the files *)

\* The sizes of segments S in directory d, the sum of them, and the sum that
\* DiskBudget is about.
Sizes(d, S) == [id \in S |-> SizeOf(FileAt(d, id))]

WordsIn(d, S) == (CHOOSE g : IsTotal(g, Sizes(d, S), S))[S]

DiskWords == MapThenSumSet(LAMBDA id : SizeOf(disk[id]), DOMAIN disk)

\* Its sums.
LEMMA WordsTotal ==
    ASSUME NEW d, NEW S, IsFiniteSet(S)
    PROVE  \E g : IsTotal(g, Sizes(d, S), S) /\ WordsIn(d, S) = g[S]
<1>1. \E g : IsTotal(g, Sizes(d, S), S)
  BY TotalExists, Zenon
<1> QED
  BY <1>1, Zenon DEF WordsIn

\* There is one such sum.
LEMMA WordsUnique ==
    ASSUME NEW d, NEW S, IsFiniteSet(S), NEW g, IsTotal(g, Sizes(d, S), S)
    PROVE  WordsIn(d, S) = g[S]
<1> DEFINE f == Sizes(d, S)
<1>1. PICK h : IsTotal(h, f, S) /\ WordsIn(d, S) = h[S]
  BY WordsTotal
<1>2. S \subseteq S /\ \A x \in S : f[x] = f[x]
  OBVIOUS
<1>3. IsTotal(g, f, S)
  OBVIOUS
<1> HIDE DEF f
<1>4. g[S] = h[S]
  BY <1>1, <1>2, <1>3, TotalAgrees
<1> QED
  BY <1>1, <1>4, Zenon

\* What enforce_bounds adds up.
LEMMA TotalWordsIs ==
    ASSUME NEW d, NEW segs, IsFiniteSet(Elements(segs))
    PROVE  TotalWords(d, segs) = WordsIn(d, Elements(segs))
<1> DEFINE S == Elements(segs)
           Eq(g) == g = [s \in SUBSET S |->
                           IF s = {} THEN 0
                           ELSE SizeOf(FileAt(d, CHOOSE x \in s : TRUE))
                                  + g[s \ {CHOOSE x \in s : TRUE}]]
<1>1. ASSUME NEW g PROVE Eq(g) <=> IsTotal(g, Sizes(d, S), S)
  <2>1. ASSUME NEW s \in SUBSET S
        PROVE  SumStep(g, Sizes(d, S), s)
                 = IF s = {} THEN 0
                   ELSE SizeOf(FileAt(d, CHOOSE x \in s : TRUE)) + g[s \ {CHOOSE x \in s : TRUE}]
    <3>1. CASE s = {}
      BY <3>1, Zenon DEF SumStep
    <3>2. CASE s # {}
      <4>1. Pick(s) \in S
        BY <3>2, PickIn, Zenon
      <4>2. Sizes(d, S)[Pick(s)] = SizeOf(FileAt(d, Pick(s)))
        BY <4>1, Zenon DEF Sizes
      <4> QED
        BY <3>2, <4>2, Zenon DEF SumStep, Pick
    <3> QED
      BY <3>1, <3>2, Zenon
  <2> QED
    BY <2>1, Zenon DEF IsTotal
<1>2. TotalWords(d, segs) = (CHOOSE g : Eq(g))[S]
  BY Zenon DEF TotalWords, MapThenSumSet, MapThenFoldSet
<1>3. PICK g : g = CHOOSE h : Eq(h)
  OBVIOUS
<1>4. Eq(g)
  <2>1. \E h : IsTotal(h, Sizes(d, S), S)
    BY TotalExists, Zenon
  <2> HIDE DEF Eq, S
  <2> QED
    BY <1>1, <1>3, <2>1, Zenon
<1>5. IsTotal(g, Sizes(d, S), S) /\ TotalWords(d, segs) = g[S]
  <2> HIDE DEF Eq
  <2> QED
    BY <1>1, <1>2, <1>3, <1>4, Zenon
<1> HIDE DEF Eq
<1> QED
  BY <1>5, WordsUnique, Zenon

\* The words of all the files.
LEMMA DiskWordsIs ==
    ASSUME IsFiniteSet(DOMAIN disk)
    PROVE  DiskWords = WordsIn(disk, DOMAIN disk)
<1> DEFINE S == DOMAIN disk
           Eq(g) == g = [s \in SUBSET S |->
                           IF s = {} THEN 0
                           ELSE SizeOf(disk[CHOOSE x \in s : TRUE])
                                  + g[s \ {CHOOSE x \in s : TRUE}]]
<1>1. ASSUME NEW g PROVE Eq(g) <=> IsTotal(g, Sizes(disk, S), S)
  <2>1. ASSUME NEW s \in SUBSET S
        PROVE  SumStep(g, Sizes(disk, S), s)
                 = IF s = {} THEN 0
                   ELSE SizeOf(disk[CHOOSE x \in s : TRUE]) + g[s \ {CHOOSE x \in s : TRUE}]
    <3>1. CASE s = {}
      BY <3>1, Zenon DEF SumStep
    <3>2. CASE s # {}
      <4>1. Pick(s) \in S
        BY <3>2, PickIn, Zenon
      <4>2. Sizes(disk, S)[Pick(s)] = SizeOf(disk[Pick(s)])
        BY <4>1, Zenon DEF Sizes, FileAt
      <4> QED
        BY <3>2, <4>2, Zenon DEF SumStep, Pick
    <3> QED
      BY <3>1, <3>2, Zenon
  <2> QED
    BY <2>1, Zenon DEF IsTotal
<1>2. DiskWords = (CHOOSE g : Eq(g))[S]
  BY Zenon DEF DiskWords, MapThenSumSet, MapThenFoldSet
<1>3. PICK g : g = CHOOSE h : Eq(h)
  BY Zenon
<1>4. Eq(g)
  <2>1. \E h : IsTotal(h, Sizes(disk, S), S)
    BY TotalExists, Zenon
  <2> HIDE DEF Eq, S
  <2> QED
    BY <1>1, <1>3, <2>1, Zenon
<1>5. IsTotal(g, Sizes(disk, S), S) /\ DiskWords = g[S]
  <2> HIDE DEF Eq
  <2> QED
    BY <1>1, <1>2, <1>3, <1>4, Zenon
<1> HIDE DEF Eq
<1> QED
  BY <1>5, WordsUnique, Zenon

\* The sum is a number, and a file may be taken out of it.
LEMMA WordsAdd ==
    ASSUME NEW d, NEW S, IsFiniteSet(S), \A id \in S : SizeOf(FileAt(d, id)) \in Nat
    PROVE  /\ WordsIn(d, S) \in Nat
           /\ S = {} => WordsIn(d, S) = 0
           /\ \A x \in S : WordsIn(d, S) = SizeOf(FileAt(d, x)) + WordsIn(d, S \ {x})
<1> DEFINE f == Sizes(d, S)
<1>1. PICK g : IsTotal(g, f, S) /\ WordsIn(d, S) = g[S]
  BY WordsTotal
<1>2. f \in [S -> Nat] /\ S \in SUBSET S
  BY DEF Sizes
<1>3. /\ g[{}] = 0
      /\ g[S] \in Nat
      /\ \A x \in S : g[S] = f[x] + g[S \ {x}]
  <2> HIDE DEF f
  <2> QED
    BY <1>1, <1>2, TotalAdds
<1>4. ASSUME NEW x \in S PROVE g[S \ {x}] = WordsIn(d, S \ {x})
  <2> DEFINE R == S \ {x}
             e == Sizes(d, R)
  <2>1. IsFiniteSet(R) /\ R \subseteq S /\ R \subseteq R
    BY FS_Subset, ZenonT(30)
  <2>2. PICK h : IsTotal(h, e, R) /\ WordsIn(d, R) = h[R]
    BY <2>1, WordsTotal
  <2>3. \A y \in R : f[y] = e[y]
    BY DEF Sizes
  <2> HIDE DEF R, e, f
  <2>4. g[R] = h[R]
    BY <1>1, <2>1, <2>2, <2>3, TotalAgrees
  <2> QED
    BY <2>2, <2>4, Zenon DEF R
<1>5. \A x \in S : f[x] = SizeOf(FileAt(d, x))
  BY Zenon DEF Sizes
<1> QED
  BY <1>1, <1>3, <1>4, <1>5, ZenonT(30)

\* It depends on the sizes alone.
LEMMA WordsSame ==
    ASSUME NEW d, NEW e, NEW S, IsFiniteSet(S),
           \A id \in S : SizeOf(FileAt(d, id)) = SizeOf(FileAt(e, id))
    PROVE  WordsIn(d, S) = WordsIn(e, S)
<1>1. Sizes(d, S) = Sizes(e, S)
  BY Zenon DEF Sizes
<1> QED
  BY <1>1, Zenon DEF WordsIn

\* Some of the files have no more words than all of them.
LEMMA WordsSubset ==
    ASSUME NEW d, NEW S, IsFiniteSet(S), \A id \in S : SizeOf(FileAt(d, id)) \in Nat,
           NEW s \in SUBSET S
    PROVE  WordsIn(d, s) <= WordsIn(d, S)
<1> DEFINE B == {t \in SUBSET S : s \subseteq t /\ ~(WordsIn(d, s) <= WordsIn(d, t))}
<1>1. ASSUME NEW t \in SUBSET S
      PROVE  /\ WordsIn(d, t) \in Nat
             /\ \A x \in t : WordsIn(d, t) = SizeOf(FileAt(d, x)) + WordsIn(d, t \ {x})
  <2>1. IsFiniteSet(t) /\ \A id \in t : SizeOf(FileAt(d, id)) \in Nat
    BY FS_Subset, Zenon
  <2> QED
    BY <2>1, WordsAdd, Zenon
<1>2. ASSUME B # {} PROVE FALSE
  <2>1. PICK t \in B : \A x \in t : t \ {x} \notin B
    <3>1. B \subseteq SUBSET S
      OBVIOUS
    <3> HIDE DEF B
    <3> QED
      BY <1>2, <3>1, SmallestSet, Zenon
  <2>2. t \in SUBSET S /\ s \subseteq t /\ ~(WordsIn(d, s) <= WordsIn(d, t))
    OBVIOUS
  <2>3. t # s
    BY <1>1, <2>2
  <2>4. PICK x \in t : x \notin s
    BY <2>2, <2>3
  <2>5. t \ {x} \in SUBSET S /\ s \subseteq t \ {x}
    BY <2>2, <2>4, Zenon
  <2>6. WordsIn(d, s) <= WordsIn(d, t \ {x})
    BY <2>1, <2>4, <2>5, Zenon
  <2>7. /\ WordsIn(d, t) = SizeOf(FileAt(d, x)) + WordsIn(d, t \ {x})
        /\ WordsIn(d, t) \in Nat /\ WordsIn(d, s) \in Nat
        /\ WordsIn(d, t \ {x}) \in Nat /\ SizeOf(FileAt(d, x)) \in Nat
    BY <1>1, <2>2, <2>4, <2>5, ZenonT(30)
  <2> QED
    BY <2>2, <2>6, <2>7
<1>3. S \in SUBSET S /\ s \subseteq S
  OBVIOUS
<1> QED
  BY <1>2, <1>3, Zenon

-----------------------------------------------------------------------------
(* The budget *)

\* A finite set of numbers has a greatest one.
LEMMA GreatestNumber ==
    ASSUME NEW S, S # {}, IsFiniteSet(S), S \subseteq Nat
    PROVE  Max(S) \in S /\ \A y \in S : y <= Max(S)
<1> DEFINE B == {t \in SUBSET S : t # {} /\ ~\E x \in t : \A y \in t : x >= y}
<1>1. ASSUME B # {} PROVE FALSE
  <2>1. PICK t \in B : \A x \in t : t \ {x} \notin B
    <3>1. B \subseteq SUBSET S
      OBVIOUS
    <3> HIDE DEF B
    <3> QED
      BY <1>1, <3>1, SmallestSet, Zenon
  <2>2. t \in SUBSET S /\ t # {} /\ ~\E x \in t : \A y \in t : x >= y
    OBVIOUS
  <2>3. PICK x \in t : TRUE
    BY <2>2, Zenon
  <2>4. CASE t \ {x} = {}
    <3>1. x \in Nat /\ \A y \in t : y = x
      BY <2>2, <2>3, <2>4
    <3> QED
      BY <2>2, <3>1
  <2>5. CASE t \ {x} # {}
    <3>1. t \ {x} \in SUBSET S
      BY <2>2
    <3>2. PICK z \in t \ {x} : \A y \in t \ {x} : z >= y
      BY <2>1, <2>3, <2>5, <3>1, ZenonT(30)
    <3>3. x \in Nat /\ z \in Nat /\ z \in t /\ \A y \in t : y \in Nat /\ (y = x \/ z >= y)
      BY <2>2, <2>3, <3>2
    <3>4. CASE x >= z
      <4>1. \A y \in t : x >= y
        BY <3>3, <3>4
      <4> QED
        BY <2>2, <2>3, <4>1, Zenon
    <3>5. CASE ~(x >= z)
      <4>1. \A y \in t : z >= y
        BY <3>3, <3>5
      <4> QED
        BY <2>2, <3>3, <4>1, ZenonT(30)
    <3> QED
      BY <3>4, <3>5
  <2> QED
    BY <2>4, <2>5
<1>2. S \in SUBSET S
  OBVIOUS
<1>3. \E x \in S : \A y \in S : x >= y
  BY <1>1, <1>2, Zenon
<1>4. Max(S) \in S /\ \A y \in S : Max(S) >= y
  BY <1>3, Zenon DEF Max
<1> QED
  BY <1>4

\* What a segment may hold, and what the directory may.
Largest == SegmentWords - 1 + LargestFrame
Bound == Max({MaxWords, Largest})

\* They are numbers, and a frame has no more than its share.
LEMMA BoundType ==
    /\ Largest \in Nat /\ Bound \in Nat /\ MaxWords <= Bound /\ Largest <= Bound
    /\ \A len \in Lens : len \in Nat /\ SegmentWords - 1 + Header + len <= Largest
<1>1. Max(Lens) \in Nat /\ \A len \in Lens : len \in Nat /\ len <= Max(Lens)
  BY GreatestNumber, LengthAssumption, ConstantAssumption, ZenonT(30)
<1>2. Largest \in Nat /\ \A len \in Lens : SegmentWords - 1 + Header + len <= Largest
  BY <1>1, ConstantAssumption DEF Largest, LargestFrame, Header
<1> HIDE DEF Largest
<1> DEFINE S == {MaxWords, Largest}
<1>3. S \subseteq Nat /\ S # {} /\ MaxWords \in S /\ Largest \in S
  BY <1>2, ConstantAssumption
<1>4. IsFiniteSet(S)
  <2>1. IsFiniteSet({MaxWords}) /\ S = {MaxWords} \cup {Largest}
    BY FS_Singleton, Zenon
  <2> HIDE DEF S
  <2> QED
    BY <2>1, FS_AddElement, Zenon
<1> HIDE DEF S
<1>5. Max(S) \in S /\ \A y \in S : y <= Max(S)
  BY <1>3, <1>4, GreatestNumber, ZenonT(30)
<1> QED
  BY <1>1, <1>2, <1>3, <1>5 DEF Bound, S

\* While the spool is open its list has every file, no file is larger than
\* one frame makes it, and between the calls of a process whose writes all
\* succeeded the files are within the bound.
BudgetInv ==
    /\ open => DOMAIN disk \subseteq Elements(segments)
    /\ crashes = 0 /\ ~open => DOMAIN disk = {}
    /\ \A id \in DOMAIN disk : SizeOf(disk[id]) <= Largest
    /\ torn = 0 /\ crashes = 0 /\ open /\ pc # "bounds" => WordsIn(disk, DOMAIN disk) <= Bound

\* The sizes of the files are numbers.
LEMMA SizesType ==
    ASSUME NEW d, NEW n, Directory(d, n)
    PROVE  IsFiniteSet(DOMAIN d) /\ \A id : SizeOf(FileAt(d, id)) \in Nat
BY FileType, SizeType DEF Directory

\* A full segment is not written to.
LEMMA ActiveShort ==
    ASSUME IInv, BudgetInv, open
    PROVE  SizeOf(FileAt(disk, Active)) <= SegmentWords - 1
<1> DEFINE n == Len(segments)
           back == IF segments = <<>> THEN 1 ELSE segments[n]
<1>1. /\ segments \in Seq(Nat \ {0}) /\ Ascending(segments)
      /\ DOMAIN disk \subseteq Elements(segments)
  BY DEF IInv, TypeOK, MemoryTypeOK, SegmentsListed, BudgetInv
<1>2. \A id : SizeOf(FileAt(disk, id)) \in Nat
  BY SizesType DEF IInv
<1>3. SegmentWords \in Nat \ {0}
  BY ConstantAssumption
<1>4. CASE ~(SizeOf(FileAt(disk, back)) >= SegmentWords)
  <2>1. Active = back
    BY <1>4 DEF Active
  <2> HIDE DEF back
  <2> QED
    BY <1>2, <1>3, <1>4, <2>1
<1>5. CASE SizeOf(FileAt(disk, back)) >= SegmentWords
  <2>1. Active = back + 1
    BY <1>5 DEF Active
  <2>2. SizeOf(FileAt(disk, back)) # 0
    <3> HIDE DEF back
    <3> QED
      BY <1>2, <1>3, <1>5
  <2>3. back \in DOMAIN disk
    BY <2>2 DEF FileAt, SizeOf
  <2>4. segments # <<>>
    BY <1>1, <2>3 DEF Elements
  <2>5. n \in DOMAIN segments /\ n \in Nat /\ DOMAIN segments = 1..n /\ back = segments[n]
    BY <1>1, <2>4
  <2>6. \A i \in DOMAIN segments : segments[i] \in Nat /\ segments[i] # back + 1
    <3>1. \A i \in DOMAIN segments : segments[i] \in Nat /\ (i < n => segments[i] < segments[n])
      BY <1>1, <2>5 DEF Ascending
    <3>2. \A i \in DOMAIN segments : i < n \/ i = n
      BY <2>5
    <3> QED
      BY <2>5, <3>1, <3>2
  <2>7. back + 1 \notin DOMAIN disk
    BY <1>1, <2>6 DEF Elements
  <2> HIDE DEF back
  <2>8. SizeOf(FileAt(disk, Active)) = 0
    BY <2>1, <2>7 DEF FileAt, SizeOf
  <2> QED
    BY <1>3, <2>8
<1> QED
  BY <1>4, <1>5

\* What an append leaves in the active file.
LEMMA WriteSizes ==
    ASSUME IInv, BudgetInv, open, NEW len \in Lens, NEW words \in 0..(Header + len),
           disk' = DiskAfterWrite(len, words)
    PROVE  /\ DOMAIN disk' = DOMAIN disk \cup {Active}
           /\ \A id \in DOMAIN disk' : SizeOf(disk'[id]) <= Largest
           /\ words = 0 => \A id : SizeOf(FileAt(disk', id)) = SizeOf(FileAt(disk, id))
<1> DEFINE old == FileAt(disk, Active)
           new == [rec |-> nextRec, at |-> SizeOf(old), len |-> len, words |-> words]
<1>1. disk' = [id \in DOMAIN disk \cup {Active} |->
                 IF id # Active THEN disk[id] ELSE IF words = 0 THEN old ELSE Append(old, new)]
  BY Zenon DEF DiskAfterWrite
<1>2. /\ old \in Seq(Chunk) /\ SizeOf(old) \in Nat /\ nextRec \in Nat \ {0}
      /\ SizeOf(old) <= SegmentWords - 1
  BY ActiveShort, FileType, SizeType DEF IInv, TypeOK, DiskTypeOK, HistoryTypeOK
<1>3. /\ len \in Nat /\ words \in Nat /\ words <= Header + len
      /\ SegmentWords \in Nat /\ Largest \in Nat /\ SegmentWords - 1 + Header + len <= Largest
  BY BoundType, ConstantAssumption DEF Header
<1>4. DOMAIN disk' = DOMAIN disk \cup {Active}
  BY <1>1, Zenon
<1>5. SizeOf(disk'[Active]) <= Largest
  <2>1. CASE words = 0
    <3>1. disk'[Active] = old
      BY <1>1, <2>1, Zenon
    <3> HIDE DEF old
    <3> QED
      BY <1>2, <1>3, <3>1 DEF Header
  <2>2. CASE words # 0
    <3>1. disk'[Active] = Append(old, new)
      BY <1>1, <2>2, ZenonT(30)
    <3>2. new \in Chunk /\ new.at = SizeOf(old) /\ new.words = words
      BY <1>2, <1>3, <2>2 DEF Chunk
    <3> HIDE DEF old, new
    <3>3. SizeOf(Append(old, new)) = new.at + new.words
      BY <1>2, <3>2, AppendShape, Zenon
    <3>4. SizeOf(disk'[Active]) = SizeOf(old) + words
      BY <3>1, <3>2, <3>3, ZenonT(30)
    <3> QED
      BY <1>2, <1>3, <3>4 DEF Header
  <2> QED
    BY <2>1, <2>2
<1>6. \A id \in DOMAIN disk : id # Active => disk'[id] = disk[id]
  BY <1>1, Zenon
<1>7. ASSUME words = 0 PROVE \A id : FileAt(disk', id) = FileAt(disk, id)
  <2>1. disk'[Active] = old
    BY <1>1, <1>7, Zenon
  <2> QED
    BY <1>4, <1>6, <2>1, Zenon DEF FileAt
<1> HIDE DEF old, new
<1>8. \A id \in DOMAIN disk' : SizeOf(disk'[id]) <= Largest
  BY <1>4, <1>5, <1>6, ZenonT(30) DEF BudgetInv
<1> QED
  BY <1>4, <1>7, <1>8, Zenon

\* append writes; enforce_bounds comes next.
LEMMA AppendWriteB ==
    ASSUME IInv, BudgetInv, NEW len \in Lens, AppendWrite(len)
    PROVE  BudgetInv'
<1>1. /\ open /\ disk' = DiskAfterWrite(len, Header + len) /\ segments' = WithActive
      /\ pc' = "bounds" /\ open' = open
  BY DEF AppendWrite
<1>2. Header + len \in 0..(Header + len)
  BY ConstantAssumption DEF Header
<1>3. /\ DOMAIN disk' = DOMAIN disk \cup {Active}
      /\ \A id \in DOMAIN disk' : SizeOf(disk'[id]) <= Largest
  BY <1>1, <1>2, WriteSizes, Zenon
<1>4. Elements(segments') = Elements(segments) \cup {Active}
  BY <1>1, ActiveType DEF IInv
<1>5. DOMAIN disk \subseteq Elements(segments)
  BY <1>1 DEF BudgetInv
<1>6. pc' = "bounds" /\ open'
  BY <1>1
<1> QED
  BY <1>3, <1>4, <1>5, <1>6 DEF BudgetInv

\* Part of a frame is written, or nothing of it: the latter adds no words.
LEMMA AppendFailsB ==
    ASSUME IInv, IInv', BudgetInv, NEW len \in Lens, NEW words \in 0..(Header + len - 1),
           AppendFails(len, words)
    PROVE  BudgetInv'
<1>1. /\ open /\ pc = "idle" /\ disk' = DiskAfterWrite(len, words) /\ segments' = WithActive
      /\ torn' = torn + (IF words > 0 THEN 1 ELSE 0)
      /\ UNCHANGED <<open, pc, crashes>>
  BY DEF AppendFails, PartialWrite, callVars
<1>2. words \in 0..(Header + len) /\ words \in Nat
  BY ConstantAssumption DEF Header
<1>3. /\ DOMAIN disk' = DOMAIN disk \cup {Active}
      /\ \A id \in DOMAIN disk' : SizeOf(disk'[id]) <= Largest
      /\ words = 0 => \A id : SizeOf(FileAt(disk', id)) = SizeOf(FileAt(disk, id))
  BY <1>1, <1>2, WriteSizes, ZenonT(30)
<1>4. Elements(segments') = Elements(segments) \cup {Active}
  BY <1>1, ActiveType DEF IInv
<1>5. DOMAIN disk \subseteq Elements(segments)
  BY <1>1 DEF BudgetInv
<1>6. DOMAIN disk' \subseteq Elements(segments')
  BY <1>3, <1>4, <1>5, Zenon
<1>7. ASSUME torn' = 0, crashes' = 0 PROVE WordsIn(disk', DOMAIN disk') <= Bound
  <2>1. words = 0 /\ torn = 0 /\ crashes = 0
    <3>1. torn \in Nat
      BY DEF IInv, TypeOK, HistoryTypeOK
    <3> QED
      BY <1>1, <1>2, <1>7, <3>1
  <2>2. WordsIn(disk, DOMAIN disk) <= Bound
    BY <1>1, <2>1 DEF BudgetInv
  <2>3. IsFiniteSet(DOMAIN disk) /\ \A id : SizeOf(FileAt(disk, id)) \in Nat
    BY SizesType DEF IInv
  <2>4. IsFiniteSet(DOMAIN disk') /\ \A id : SizeOf(FileAt(disk', id)) \in Nat
    BY SizesType DEF IInv
  <2>5. WordsIn(disk, DOMAIN disk) = WordsIn(disk', DOMAIN disk)
    BY <1>3, <2>1, <2>3, WordsSame
  <2>6. WordsIn(disk', DOMAIN disk') = WordsIn(disk', DOMAIN disk)
    <3>1. CASE Active \in DOMAIN disk
      <4>1. DOMAIN disk' = DOMAIN disk
        BY <1>3, <3>1, ZenonT(30)
      <4> QED
        BY <4>1
    <3>2. CASE Active \notin DOMAIN disk
      <4>1. DOMAIN disk' \ {Active} = DOMAIN disk /\ Active \in DOMAIN disk'
        BY <1>3, <3>2, Zenon
      <4>2. SizeOf(FileAt(disk', Active)) = 0
        <5>1. SizeOf(FileAt(disk, Active)) = 0
          BY <3>2, ZenonT(30) DEF FileAt, SizeOf
        <5> QED
          BY <1>3, <2>1, <5>1, ZenonT(30)
      <4>3. WordsIn(disk', DOMAIN disk')
              = SizeOf(FileAt(disk', Active)) + WordsIn(disk', DOMAIN disk' \ {Active})
        BY <2>4, <4>1, WordsAdd
      <4>4. WordsIn(disk', DOMAIN disk) \in Nat
        BY <2>3, <2>4, WordsAdd
      <4> QED
        BY <4>1, <4>2, <4>3, <4>4
    <3> QED
      BY <3>1, <3>2
  <2> QED
    BY <2>2, <2>5, <2>6, ZenonT(30)
<1> QED
  BY <1>1, <1>3, <1>6, <1>7, ZenonT(30) DEF BudgetInv

\* The process goes down.
LEMMA DownB ==
    ASSUME IInv, BudgetInv, open, GoDown,
           \/ disk' = disk
           \/ \E len \in Lens : \E words \in 0..(Header + len - 1) :
                 disk' = DiskAfterWrite(len, words)
    PROVE  BudgetInv'
<1>1. ~open' /\ crashes' # 0
  <2>1. crashes \in Nat /\ crashes' = crashes + 1 /\ open' = FALSE
    BY DEF IInv, TypeOK, HistoryTypeOK, GoDown
  <2> QED
    BY <2>1
<1>2. \A id \in DOMAIN disk' : SizeOf(disk'[id]) <= Largest
  <2>1. CASE disk' = disk
    BY <2>1 DEF BudgetInv
  <2>2. CASE \E len \in Lens : \E words \in 0..(Header + len - 1) :
                disk' = DiskAfterWrite(len, words)
    <3>0. PICK len \in Lens :
            \E words \in 0..(Header + len - 1) : disk' = DiskAfterWrite(len, words)
      BY <2>2
    <3>1. PICK words \in 0..(Header + len - 1) : disk' = DiskAfterWrite(len, words)
      BY <3>0
    <3>2. words \in 0..(Header + len)
      BY ConstantAssumption DEF Header
    <3> QED
      BY <3>1, <3>2, WriteSizes, ZenonT(30)
  <2> QED
    BY <2>1, <2>2
<1> QED
  BY <1>1, <1>2, Zenon DEF BudgetInv

\* A file goes: enforce_bounds deletes the oldest, commit one that is read.
LEMMA RemoveB ==
    ASSUME IInv, BudgetInv, open, open', NEW x,
           disk' = [id \in DOMAIN disk \ {x} |-> disk[id]],
           Elements(segments) \ {x} \subseteq Elements(segments'),
           UNCHANGED <<pc, torn, crashes>>
    PROVE  BudgetInv'
<1>1. /\ DOMAIN disk' = DOMAIN disk \ {x}
      /\ \A id \in DOMAIN disk' : disk'[id] = disk[id] /\ FileAt(disk', id) = FileAt(disk, id)
  BY Zenon DEF FileAt
<1>2. /\ DOMAIN disk' \subseteq Elements(segments')
      /\ \A id \in DOMAIN disk' : SizeOf(disk'[id]) <= Largest
  BY <1>1, ZenonT(30) DEF BudgetInv
<1>3. ASSUME torn = 0, crashes = 0, pc # "bounds" PROVE WordsIn(disk', DOMAIN disk') <= Bound
  <2>1. WordsIn(disk, DOMAIN disk) <= Bound
    BY <1>3, Zenon DEF BudgetInv
  <2>2. IsFiniteSet(DOMAIN disk) /\ \A id : SizeOf(FileAt(disk, id)) \in Nat
    BY SizesType DEF IInv
  <2>3. IsFiniteSet(DOMAIN disk') /\ DOMAIN disk' \in SUBSET DOMAIN disk
    BY <1>1, <2>2, FS_Subset
  <2>4. WordsIn(disk', DOMAIN disk') = WordsIn(disk, DOMAIN disk')
    BY <1>1, <2>3, WordsSame
  <2>5. WordsIn(disk, DOMAIN disk') <= WordsIn(disk, DOMAIN disk)
    BY <2>2, <2>3, WordsSubset
  <2>6. /\ WordsIn(disk, DOMAIN disk) \in Nat /\ WordsIn(disk, DOMAIN disk') \in Nat
        /\ Bound \in Nat
    BY <2>2, <2>3, WordsAdd, BoundType
  <2> QED
    BY <2>1, <2>4, <2>5, <2>6
<1> QED
  BY <1>2, <1>3, Zenon DEF BudgetInv

\* enforce_bounds ends: the files are within max_bytes or there is one.
LEMMA WithinBoundsB ==
    ASSUME IInv, BudgetInv, WithinBounds
    PROVE  BudgetInv'
<1>1. /\ pc = "bounds" /\ ~(TotalWords(disk, segments) > MaxWords /\ Len(segments) > 1)
      /\ UNCHANGED <<disk, segments, open, torn, crashes>>
  BY DEF WithinBounds, OverBudget, diskVars, memoryVars, boundVars
<1>2. /\ open /\ segments \in Seq(Nat \ {0}) /\ DOMAIN disk \subseteq Elements(segments)
  BY <1>1 DEF IInv, CallsOpen, TypeOK, MemoryTypeOK, BudgetInv
<1>3. IsFiniteSet(DOMAIN disk) /\ \A id : SizeOf(FileAt(disk, id)) \in Nat
  BY SizesType DEF IInv
<1>4. Largest \in Nat /\ Bound \in Nat /\ MaxWords <= Bound /\ Largest <= Bound /\ MaxWords \in Nat
  BY BoundType, ConstantAssumption
<1>5. WordsIn(disk, DOMAIN disk) \in Nat
  BY <1>3, WordsAdd
<1>6. CASE ~(TotalWords(disk, segments) > MaxWords)
  <2>1. IsFiniteSet(Elements(segments))
    <3>1. IsFiniteSet(DOMAIN segments)
      BY <1>2, FS_Interval
    <3>2. segments \in [DOMAIN segments -> Elements(segments)]
      BY <1>2 DEF Elements
    <3>3. segments \in Surjection(DOMAIN segments, Elements(segments))
      BY <3>2 DEF Surjection, Elements
    <3> QED
      BY <3>1, <3>3, FS_Surjection
  <2>2. TotalWords(disk, segments) = WordsIn(disk, Elements(segments))
    BY <2>1, TotalWordsIs
  <2>3. WordsIn(disk, DOMAIN disk) <= WordsIn(disk, Elements(segments))
    BY <1>2, <1>3, <2>1, WordsSubset
  <2>4. WordsIn(disk, Elements(segments)) \in Nat
    BY <1>3, <2>1, WordsAdd
  <2>5. WordsIn(disk, DOMAIN disk) <= Bound
    BY <1>4, <1>5, <1>6, <2>2, <2>3, <2>4
  <2> QED
    BY <1>1, <2>5, Zenon DEF BudgetInv
<1>7. CASE ~(Len(segments) > 1)
  <2>1. WordsIn(disk, DOMAIN disk) <= Bound
    <3>1. CASE DOMAIN disk = {}
      <4>1. WordsIn(disk, DOMAIN disk) = 0
        BY <1>3, <3>1, WordsAdd
      <4> QED
        BY <1>4, <4>1
    <3>2. CASE DOMAIN disk # {}
      <4>1. PICK x \in DOMAIN disk : TRUE
        BY <3>2
      <4>2. \A y \in Elements(segments) : y = segments[1]
        BY <1>2, <1>7 DEF Elements
      <4>3. DOMAIN disk \ {x} = {}
        BY <1>2, <4>1, <4>2
      <4>4. WordsIn(disk, DOMAIN disk) = SizeOf(FileAt(disk, x)) + WordsIn(disk, DOMAIN disk \ {x})
        BY <1>3, <4>1, WordsAdd
      <4>5. WordsIn(disk, DOMAIN disk \ {x}) = 0
        <5>1. IsFiniteSet({})
          BY FS_EmptySet
        <5> QED
          BY <1>3, <4>3, <5>1, WordsAdd
      <4>6. SizeOf(FileAt(disk, x)) <= Largest
        BY <4>1, Zenon DEF BudgetInv, FileAt
      <4> QED
        BY <1>3, <1>4, <4>4, <4>5, <4>6
    <3> QED
      BY <3>1, <3>2, Zenon
  <2> QED
    BY <1>1, <2>1, Zenon DEF BudgetInv
<1> QED
  BY <1>1, <1>6, <1>7

\* The files stay, and the list only grows.
LEMMA SameFilesB ==
    ASSUME BudgetInv, disk' = disk, UNCHANGED <<open, crashes, torn>>,
           Elements(segments) \subseteq Elements(segments'),
           pc = "bounds" => pc' = "bounds"
    PROVE  BudgetInv'
BY Zenon DEF BudgetInv

\* A spool no process died in is opened empty.
LEMMA OpenB == ASSUME IInv, BudgetInv, Open PROVE BudgetInv'
<1>1. /\ ~open /\ open' /\ UNCHANGED <<disk, pc, crashes, torn>>
      /\ \E segs \in Listings : segments' = segs
  BY DEF Open, diskVars, callVars, boundVars
<1>2. Elements(segments') = DOMAIN disk
  BY <1>1 DEF Listings
<1>3. ASSUME crashes = 0 PROVE WordsIn(disk, DOMAIN disk) <= Bound
  <2>1. DOMAIN disk = {}
    BY <1>1, <1>3, ZenonT(30) DEF BudgetInv
  <2>2. IsFiniteSet(DOMAIN disk) /\ \A id : SizeOf(FileAt(disk, id)) \in Nat
    BY SizesType DEF IInv
  <2>3. WordsIn(disk, DOMAIN disk) = 0
    BY <2>1, <2>2, WordsAdd
  <2> QED
    BY <2>3, BoundType
<1> QED
  BY <1>1, <1>2, <1>3, Zenon DEF BudgetInv

\* enforce_bounds deletes the oldest file.
LEMMA EvictB == ASSUME IInv, BudgetInv, Evict PROVE BudgetInv'
<1>1. /\ pc = "bounds" /\ Len(segments) > 1 /\ segments' = Tail(segments)
      /\ disk' = [id \in DOMAIN disk \ {segments[1]} |-> disk[id]]
      /\ UNCHANGED <<open, pc, crashes, torn>>
  BY DEF Evict, EvictOldest, OverBudget, callVars, boundVars
<1>2. open /\ segments \in Seq(Nat \ {0})
  BY <1>1 DEF IInv, CallsOpen, TypeOK, MemoryTypeOK
<1>3. Elements(segments) \ {segments[1]} \subseteq Elements(segments')
  <2>1. ASSUME NEW i \in DOMAIN segments, segments[i] # segments[1]
        PROVE  segments[i] \in Elements(segments')
    <3>1. i \in 1..Len(segments) /\ i # 1 /\ Len(segments) \in Nat
      BY <1>2, <2>1
    <3>2. i - 1 \in DOMAIN segments' /\ segments'[i - 1] = segments[i]
      BY <1>1, <1>2, <3>1
    <3> QED
      BY <3>2, Zenon DEF Elements
  <2> QED
    BY <2>1, Zenon DEF Elements
<1> QED
  BY <1>1, <1>2, <1>3, RemoveB, Zenon

\* commit deletes a segment it has read, which an open file does not stop.
LEMMA CommitRetireB ==
    ASSUME RemovesOpenFile, IInv, BudgetInv, CommitRetire
    PROVE  BudgetInv'
<1>1. /\ pc = "commit" /\ UNCHANGED <<open, pc, crashes, torn>>
      /\ disk' = [id \in DOMAIN disk \ {readSegment} |-> disk[id]]
  BY DEF CommitRetire, boundVars
<1>2. PICK p \in UpperBound(readSegment) : segments' = Erase(p, readSegment)
  BY Zenon DEF CommitRetire
<1>3. open /\ TypeOK /\ Ascending(segments)
  BY <1>1 DEF IInv, CallsOpen, SegmentsListed
<1>4. Elements(segments) \ {readSegment} \subseteq Elements(segments')
  BY <1>2, <1>3, EraseType
<1> QED
  BY <1>1, <1>3, <1>4, RemoveB

\* Every step keeps the files within the bound.
LEMMA NextB ==
    ASSUME RemovesOpenFile, IInv, IInv', BudgetInv, [Next]_vars
    PROVE  BudgetInv'
<1>1. CASE \/ UNCHANGED vars
           \/ ReadStats
           \/ SaveSteps
           \/ \E count \in 1..Cardinality(Pending) : CommitStart(count)
           \/ CommitFrame \/ CommitMissing \/ CommitStop
  <2>1. /\ UNCHANGED <<disk, open, crashes, torn, segments>>
        /\ pc = "bounds" => pc' = "bounds"
    BY <1>1, Zenon DEF vars, diskVars, memoryVars, callVars, boundVars, ReadStats, SaveSteps,
         SaveState, SaveRemove, SaveRename, SaveFails, CommitStart, CommitFrame, PassFrame,
         CommitMissing, CommitStop, CommitLeaves
  <2> QED
    BY <2>1, SameFilesB
<1>2. CASE Open
  BY <1>2, OpenB
<1>3. CASE Crash
  <2>1. open /\ GoDown /\ disk' = disk
    BY <1>3 DEF Crash, diskVars
  <2> QED
    BY <2>1, DownB
<1>4. CASE AppendSteps
  <2>1. ASSUME NEW len \in Lens, AppendWrite(len) PROVE BudgetInv'
    BY <2>1, AppendWriteB
  <2>2. ASSUME NEW len \in Lens, NEW words \in 0..(Header + len - 1), AppendFails(len, words)
        PROVE  BudgetInv'
    BY <2>2, AppendFailsB
  <2>3. ASSUME NEW len \in Lens, NEW words \in 0..(Header + len - 1), CrashMidAppend(len, words)
        PROVE  BudgetInv'
    <3>1. open /\ GoDown /\ disk' = DiskAfterWrite(len, words)
      BY <2>3, Zenon DEF CrashMidAppend, PartialWrite
    <3> QED
      BY <3>1, DownB, Zenon
  <2>4. CASE AppendCannotOpen
    <3>1. /\ UNCHANGED <<disk, open, crashes, torn, pc>> /\ segments' = WithActive
      BY <2>4 DEF AppendCannotOpen, diskVars, callVars, boundVars
    <3>2. Elements(segments') = Elements(segments) \cup {Active}
      BY <2>4, <3>1, ActiveType DEF IInv, AppendCannotOpen
    <3> QED
      BY <3>1, <3>2, SameFilesB
  <2>5. CASE Evict
    BY <2>5, EvictB
  <2>6. CASE WithinBounds
    BY <2>6, WithinBoundsB
  <2> QED
    BY <1>4, <2>1, <2>2, <2>3, <2>4, <2>5, <2>6, Zenon DEF AppendSteps
<1>5. CASE CommitRetire
  BY <1>5, CommitRetireB
<1> QED
  BY <1>1, <1>2, <1>3, <1>4, <1>5, Zenon DEF Next, CommitSteps

\* Where an open file can be deleted, the files of one process stay within
\* max_bytes once append and commit have returned, or within one segment.
THEOREM WithinBudget == ASSUME RemovesOpenFile PROVE Spec => []DiskBudget
<1>1. Init => BudgetInv
  BY Zenon DEF Init, BudgetInv
<1>2. IInv /\ IInv' /\ BudgetInv /\ [Next]_vars => BudgetInv'
  BY NextB
<1>3. IInv /\ BudgetInv => DiskBudget
  <2> SUFFICES ASSUME IInv, BudgetInv, torn = 0, crashes = 0, open, pc = "idle"
               PROVE  DiskWords <= Bound
    BY DEF DiskBudget, DiskWords, Bound, Largest
  <2>1. IsFiniteSet(DOMAIN disk)
    BY SizesType DEF IInv
  <2> QED
    BY <2>1, DiskWordsIs DEF BudgetInv
<1> QED
  BY <1>1, <1>2, <1>3, Invariance, PTL DEF Spec

=============================================================================
