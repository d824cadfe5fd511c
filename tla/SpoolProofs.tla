---------------------------- MODULE SpoolProofs ----------------------------
(***************************************************************************)
(* Proofs about module Spool, for every value of its constants: types, the *)
(* list of segments, the two cursors.  One lemma per action shows that it  *)
(* keeps the inductive invariant IInv.  The second half begins with what   *)
(* the files hold: CInv says where the records lie and which of them the   *)
(* two cursors still reach, and the actions that write, open and save keep *)
(* it.  SpoolContentProofs has the others.                                 *)
(***************************************************************************)
EXTENDS Spool, FiniteSetTheorems, TLAPS

\* How long, in seconds, the provers may take for a leaf.
USE SMTT(20), ZenonT(20)

\* A call is in progress only in an open spool.
CallsOpen == pc # "idle" => open

\* A finite directory of segment files whose chunks carry records below n.
Directory(d, n) ==
    /\ d = [id \in DOMAIN d |-> d[id]]
    /\ DOMAIN d \subseteq Nat \ {0}
    /\ IsFiniteSet(DOMAIN d)
    /\ \A id \in DOMAIN d : d[id] \in Seq(Chunk)
    /\ \A id \in DOMAIN d : \A i \in DOMAIN d[id] : d[id][i].rec < n

\* The inductive invariant.
IInv ==
    /\ TypeOK
    /\ CallsOpen
    /\ Directory(disk, nextRec)
    /\ SegmentsListed
    /\ StateNeverAhead

-----------------------------------------------------------------------------

\* A segment's file, there or not, is a sequence of chunks.
LEMMA FileType ==
    ASSUME NEW d, \A id \in DOMAIN d : d[id] \in Seq(Chunk), NEW id
    PROVE  FileAt(d, id) \in Seq(Chunk)
BY DEF FileAt

\* file_size is a number of words.
LEMMA SizeType ==
    ASSUME NEW file \in Seq(Chunk)
    PROVE  SizeOf(file) \in Nat
<1>1. CASE file = <<>>
  BY <1>1 DEF SizeOf
<1>2. CASE file # <<>>
  <2>1. Len(file) \in DOMAIN file
    BY <1>2
  <2>2. file[Len(file)] \in Chunk
    BY <2>1
  <2>3. /\ file[Len(file)].at \in Nat
        /\ file[Len(file)].words \in Nat
    BY <2>2 DEF Chunk
  <2> QED
    BY <1>2, <2>3 DEF SizeOf
<1> QED
  BY <1>1, <1>2

\* peek finds only records that were presented to append, so it finds finitely
\* many.
LEMMA PeekType ==
    ASSUME NEW d, NEW n \in Nat \ {0}, NEW segs, NEW seg, NEW off,
           Directory(d, n)
    PROVE  /\ PeekAll(d, segs, seg, off) \subseteq 1..(n - 1)
           /\ IsFiniteSet(PeekAll(d, segs, seg, off))
           /\ Cardinality(PeekAll(d, segs, seg, off)) \in Nat
<1>1. ASSUME NEW id, NEW i \in DOMAIN FileAt(d, id)
      PROVE  FileAt(d, id)[i].rec \in 1..(n - 1)
  <2>1. id \in DOMAIN d /\ FileAt(d, id) = d[id]
    BY <1>1 DEF FileAt
  <2>2. d[id] \in Seq(Chunk) /\ i \in DOMAIN d[id]
    BY <1>1, <2>1 DEF Directory
  <2>3. d[id][i] \in Chunk
    BY <2>2
  <2>4. d[id][i].rec \in Nat \ {0} /\ d[id][i].rec < n
    BY <2>1, <2>2, <2>3 DEF Chunk, Directory
  <2> QED
    BY <2>1, <2>4
<1>2. PeekAll(d, segs, seg, off) \subseteq 1..(n - 1)
  BY <1>1 DEF PeekAll, ReadableFrom
<1>3. IsFiniteSet(1..(n - 1))
  BY FS_Interval
<1> QED
  BY <1>2, <1>3, FS_Subset, FS_CardinalityType

\* Reaching the active segment keeps the list ascending and loses nothing.
LEMMA ActiveType ==
    ASSUME TypeOK
    PROVE  /\ Active \in Nat \ {0}
           /\ WithActive \in Seq(Nat \ {0})
           /\ Elements(WithActive) = Elements(segments) \cup {Active}
           /\ Ascending(segments) => Ascending(WithActive)
<1> DEFINE back == IF segments = <<>> THEN 1 ELSE segments[Len(segments)]
<1>1. back \in Nat \ {0}
  BY DEF TypeOK, MemoryTypeOK
<1>2. Active \in Nat \ {0} /\ (Active = back \/ Active = back + 1)
  BY <1>1 DEF Active
<1>3. CASE Active \in Elements(segments)
  BY <1>2, <1>3 DEF WithActive, TypeOK, MemoryTypeOK, Elements
<1>4. CASE Active \notin Elements(segments)
  <2>1. WithActive = Append(segments, Active)
    BY <1>4 DEF WithActive
  <2>a. segments \in Seq(Nat \ {0})
    BY DEF TypeOK, MemoryTypeOK
  <2>2. WithActive \in Seq(Nat \ {0})
    BY <1>2, <2>1, <2>a
  <2>b. DOMAIN segments = 1..Len(segments) /\ Len(segments) \in Nat
    BY <2>a
  <2>c. DOMAIN WithActive = 1..(Len(segments) + 1)
    BY <2>1, <2>2, <2>a
  <2>d. \A i \in DOMAIN segments : WithActive[i] = segments[i]
    BY <2>1, <2>a
  <2>3. WithActive[Len(segments) + 1] = Active
    BY <2>1, <2>a
  <2>4. Elements(WithActive) = Elements(segments) \cup {Active}
    BY <2>3, <2>b, <2>c, <2>d DEF Elements
  <2>5. ASSUME Ascending(segments), NEW i \in DOMAIN segments
        PROVE  segments[i] < Active
    <3>1. segments # <<>> /\ Len(segments) \in DOMAIN segments
      BY <2>a, <2>b
    <3>2. back = segments[Len(segments)] /\ back \in Elements(segments)
      BY <3>1 DEF Elements
    <3>3. Active = back + 1
      BY <1>2, <1>4, <3>2
    <3>4. segments[i] \in Nat /\ (i = Len(segments) \/ segments[i] < back)
      BY <2>a, <2>b, <2>5, <3>1, <3>2 DEF Ascending
    <3> QED
      BY <1>1, <3>2, <3>3, <3>4
  <2>6. Ascending(segments) => Ascending(WithActive)
    BY <2>3, <2>5, <2>b, <2>c, <2>d DEF Ascending
  <2> QED
    BY <1>2, <2>2, <2>4, <2>6
<1> QED
  BY <1>3, <1>4

\* Writing (part of) a frame leaves a directory of chunk sequences, one record
\* longer at most.
LEMMA WriteType ==
    ASSUME TypeOK, Directory(disk, nextRec), NEW len \in Nat, NEW words \in Nat
    PROVE  LET d == DiskAfterWrite(len, words) IN
           /\ DOMAIN d = DOMAIN disk \cup {Active}
           /\ Directory(d, nextRec + 1)
           /\ words = 0 => Directory(d, nextRec)
<1> DEFINE d   == DiskAfterWrite(len, words)
           old == FileAt(disk, Active)
           new == [rec |-> nextRec, at |-> SizeOf(old), len |-> len, words |-> words]
<1>1. /\ d = [id \in DOMAIN disk \cup {Active} |->
                 IF id # Active THEN disk[id]
                 ELSE IF words = 0 THEN old ELSE Append(old, new)]
      /\ DOMAIN d = DOMAIN disk \cup {Active}
  BY DEF DiskAfterWrite
<1>2. Active \in Nat \ {0}
  BY ActiveType
<1>3. old \in Seq(Chunk) /\ SizeOf(old) \in Nat
  BY FileType, SizeType DEF TypeOK, DiskTypeOK
<1>4. DOMAIN d \subseteq Nat \ {0}
  BY <1>1, <1>2 DEF TypeOK, DiskTypeOK
<1>5. IsFiniteSet(DOMAIN d)
  <2>1. IsFiniteSet(DOMAIN disk \cup {Active})
    BY FS_AddElement, Zenon DEF Directory
  <2> QED
    BY <1>1, <2>1
<1>6. words # 0 => new \in Chunk
  BY <1>3 DEF Chunk, TypeOK, HistoryTypeOK
<1>7. /\ nextRec \in Nat \ {0}
      /\ \A id \in DOMAIN disk : disk[id] \in Seq(Chunk)
  BY DEF TypeOK, DiskTypeOK, HistoryTypeOK
<1>8. words # 0 => Append(old, new) \in Seq(Chunk)
  BY <1>3, <1>6
<1>9. ASSUME NEW id \in DOMAIN d
      PROVE  d[id] \in Seq(Chunk)
  BY <1>1, <1>3, <1>7, <1>8
<1>10. \A i \in DOMAIN old : old[i].rec < nextRec
  BY DEF FileAt, Directory
<1>11. \A i \in DOMAIN old : old[i].rec \in Nat /\ old[i].rec < nextRec + 1
  <2> TAKE i \in DOMAIN old
  <2>1. old[i] \in Chunk
    BY <1>3
  <2> QED
    BY <2>1, <1>7, <1>10 DEF Chunk
<1>12. \A id \in DOMAIN disk : \A i \in DOMAIN disk[id] : disk[id][i].rec < nextRec + 1
  <2> TAKE id \in DOMAIN disk
  <2> TAKE i \in DOMAIN disk[id]
  <2>1. disk[id][i] \in Chunk
    BY <1>7
  <2> QED
    BY <2>1, <1>7 DEF Chunk, Directory
<1>13. ASSUME words # 0, NEW i \in DOMAIN Append(old, new)
       PROVE  Append(old, new)[i].rec < nextRec + 1
  <2>1. CASE i = Len(old) + 1
    <3>1. Append(old, new)[i] = new
      BY <1>3, <2>1
    <3> QED
      BY <3>1, <1>7
  <2>2. CASE i # Len(old) + 1
    <3>1. i \in DOMAIN old /\ Append(old, new)[i] = old[i]
      BY <1>3, <1>13, <2>2
    <3> QED
      BY <3>1, <1>11
  <2> QED
    BY <2>1, <2>2
<1>14. ASSUME NEW id \in DOMAIN d
       PROVE  \A i \in DOMAIN d[id] : d[id][i].rec < nextRec + 1
  <2>1. CASE id # Active
    BY <1>1, <1>12, <2>1
  <2>2. CASE id = Active /\ words = 0
    BY <1>1, <1>11, <2>2
  <2>3. CASE id = Active /\ words # 0
    <3>1. d[id] = Append(old, new)
      BY <1>1, <2>3
    <3> QED
      BY <1>13, <2>3, <3>1
  <2> QED
    BY <2>1, <2>2, <2>3
<1>15. ASSUME words = 0, NEW id \in DOMAIN d
       PROVE  \A i \in DOMAIN d[id] : d[id][i].rec < nextRec
  <2>1. CASE id # Active
    BY <1>1, <2>1 DEF Directory
  <2>2. CASE id = Active
    BY <1>1, <1>10, <1>15, <2>2
  <2> QED
    BY <2>1, <2>2
<1>16. d = [id \in DOMAIN d |-> d[id]]
  BY <1>1
<1>17. Directory(d, nextRec + 1)
  BY <1>4, <1>5, <1>9, <1>14, <1>16 DEF Directory
<1>18. words = 0 => Directory(d, nextRec)
  BY <1>4, <1>5, <1>9, <1>15, <1>16 DEF Directory
<1> QED
  BY <1>1, <1>17, <1>18

\* Taking the read segment out of the list keeps the others, in order.
LEMMA EraseType ==
    ASSUME TypeOK, Ascending(segments), NEW p \in UpperBound(readSegment)
    PROVE  /\ segments[p] \in Nat \ {0} /\ segments[p] > readSegment
           /\ segments[p] \in Elements(segments)
           /\ Erase(p, readSegment) \in Seq(Nat \ {0})
           /\ Ascending(Erase(p, readSegment))
           /\ Elements(segments) \ {readSegment} \subseteq Elements(Erase(p, readSegment))
<1> DEFINE n == Len(segments)
           e == Erase(p, readSegment)
<1>1. /\ segments \in Seq(Nat \ {0}) /\ n \in Nat
      /\ DOMAIN segments = 1..n /\ p \in 1..n
      /\ segments[p] > readSegment
  <2>1. segments \in Seq(Nat \ {0})
    BY DEF TypeOK, MemoryTypeOK
  <2>2. n \in Nat /\ DOMAIN segments = 1..n
    BY <2>1
  <2>3. p \in DOMAIN segments /\ segments[p] > readSegment
    BY DEF UpperBound
  <2> QED
    BY <2>1, <2>2, <2>3
<1>2. \A i \in 1..n : segments[i] \in Nat \ {0}
  BY <1>1
<1>3. CASE ~(p > 1 /\ segments[p - 1] = readSegment)
  <2>1. e = segments
    BY <1>3 DEF Erase
  <2> QED
    BY <1>1, <1>2, <2>1 DEF Elements
<1>4. CASE p > 1 /\ segments[p - 1] = readSegment
  <2> DEFINE f(i) == IF i < p - 1 THEN i ELSE i + 1
  <2>1. e = [i \in 1..(n - 1) |-> segments[f(i)]]
    BY <1>4 DEF Erase
  <2>2. \A i \in 1..(n - 1) : f(i) \in 1..n
    BY <1>1
  <2>3. \A i, j \in 1..(n - 1) : i < j => f(i) < f(j)
    BY <1>1
  <2>4. DOMAIN e = 1..(n - 1) /\ n - 1 \in Nat
    BY <1>1, <1>4, <2>1
  <2>5. \A i \in 1..(n - 1) : e[i] = segments[f(i)]
    BY <2>1
  <2> HIDE DEF f
  <2>6. e \in [1..(n - 1) -> Nat \ {0}]
    BY <1>2, <2>1, <2>2
  <2>7. e \in Seq(Nat \ {0})
    BY <2>4, <2>6
  <2>8. Ascending(e)
    BY <1>1, <2>2, <2>3, <2>4, <2>5, Zenon DEF Ascending
  <2>9. ASSUME NEW i \in 1..n, i # p - 1
        PROVE  segments[i] \in Elements(e)
    <3>1. \E j \in 1..(n - 1) : f(j) = i
      <4>1. CASE i < p - 1
        <5>1. i \in 1..(n - 1) /\ f(i) = i
          BY <1>1, <4>1 DEF f
        <5> QED
          BY <5>1
      <4>2. CASE i > p - 1
        <5>1. i - 1 \in 1..(n - 1) /\ f(i - 1) = i
          BY <1>1, <1>4, <4>2 DEF f
        <5> QED
          BY <5>1
      <4> QED
        BY <1>1, <2>9, <4>1, <4>2
    <3> QED
      BY <2>4, <2>5, <3>1 DEF Elements
  <2>10. Elements(segments) \ {readSegment} \subseteq Elements(e)
    <3>1. \A x \in Elements(segments) \ {readSegment} :
             \E i \in 1..n : i # p - 1 /\ x = segments[i]
      BY <1>1, <1>4 DEF Elements
    <3> QED
      BY <2>9, <3>1
  <2> QED
    BY <1>1, <1>2, <2>7, <2>8, <2>10, Zenon DEF Elements
<1> QED
  BY <1>3, <1>4

-----------------------------------------------------------------------------
(* The inductive invariant *)

\* An empty directory, with or without a state file, satisfies the invariant.
LEMMA InitIInv == Init => IInv
<1> SUFFICES ASSUME Init PROVE IInv
  OBVIOUS
<1>1. DOMAIN disk = {} /\ segments = <<>>
  BY Zenon DEF Init
<1>2. stateFile \in StateType
  <2>1. NoState \in StateType
    BY DEF NoState, StateType
  <2>2. ASSUME NEW id \in StaleSegments
        PROVE  [NoState EXCEPT !.present = TRUE, !.seg = id] \in StateType
    BY ConstantAssumption, Zenon DEF NoState, StateType
  <2> QED
    BY <2>1, <2>2, Zenon DEF Init
<1>3. DiskTypeOK
  BY <1>1, <1>2, Zenon DEF Init, DiskTypeOK
<1>4. NewStats \in StatsType
  BY DEF NewStats, StatsType
<1>5. <<>> \in Seq(Nat \ {0})
  OBVIOUS
<1>6. MemoryTypeOK
  BY <1>4, <1>5, Zenon DEF Init, MemoryTypeOK
<1>7. 0 \in 0..MaxCrash /\ 0 \in 0..MaxTorn
  BY ConstantAssumption
<1>8. HistoryTypeOK
  <2>1. \A S : {} \subseteq S
    OBVIOUS
  <2>2. nextRec = 1
    BY Zenon DEF Init
  <2>3. nextRec \in Nat \ {0}
    BY <2>2
  <2> QED
    BY <1>7, <2>1, <2>3, Zenon DEF Init, HistoryTypeOK
<1>9. IsFiniteSet(DOMAIN disk)
  BY <1>1, FS_EmptySet
<1>10. Directory(disk, nextRec)
  BY <1>1, <1>3, <1>9 DEF Directory, DiskTypeOK
<1> QED
  BY <1>1, <1>3, <1>6, <1>8, <1>10, Zenon
     DEF Init, IInv, TypeOK, CallsOpen, SegmentsListed, StateNeverAhead

\* open lists every file and starts at or after the saved cursor.
LEMMA OpenKeeps == ASSUME IInv, Open PROVE IInv'
<1> PICK segs \in Listings :
       LET cursor == CursorIn(segs) IN
       /\ segments' = segs
       /\ readSegment' = cursor.seg
       /\ readOffset' = cursor.off
       /\ stats' = [appended  |-> 0,
                    committed |-> stateFile.committed,
                    dropped   |-> stateFile.dropped,
                    pending   |-> Cardinality(PeekAll(disk, segs, cursor.seg, cursor.off))]
  BY DEF Open
<1> DEFINE cursor == CursorIn(segs)
           n == Cardinality(DOMAIN disk)
<1>1. UNCHANGED <<disk, stateFile, pc, remaining, advanced, nextRec, crashes, torn,
                  accepted, acked, released, evicted, shadowed>> /\ open'
  BY DEF Open, diskVars, callVars, boundVars, historyVars
<1>2. n \in Nat
  BY FS_CardinalityType DEF IInv, Directory
<1>3. segs \in [1..n -> DOMAIN disk] /\ Ascending(segs) /\ Elements(segs) = DOMAIN disk
  BY DEF Listings
<1>4. segs \in Seq(Nat \ {0})
  <2>1. segs \in [1..n -> Nat \ {0}]
    BY <1>3 DEF IInv, TypeOK, DiskTypeOK
  <2> QED
    BY <1>2, <2>1
<1>5. stateFile \in StateType
  BY DEF IInv, TypeOK, DiskTypeOK
<1>6. cursor.seg \in Nat /\ cursor.off \in Nat
  <2>1. (IF segs = <<>> THEN 1 ELSE segs[1]) \in Nat
    BY <1>4
  <2> QED
    BY <1>5, <2>1 DEF CursorIn, StateType
<1>7. Cardinality(PeekAll(disk, segs, cursor.seg, cursor.off)) \in Nat
  <2>1. nextRec \in Nat \ {0} /\ Directory(disk, nextRec)
    BY DEF IInv, TypeOK, HistoryTypeOK
  <2> QED
    BY <2>1, PeekType
<1>8. stats' \in StatsType
  BY <1>5, <1>7 DEF StatsType, StateType
<1>9. MemoryTypeOK'
  BY <1>1, <1>4, <1>6, <1>8 DEF IInv, TypeOK, MemoryTypeOK
<1>10. DiskTypeOK' /\ HistoryTypeOK'
  BY <1>1 DEF IInv, TypeOK, DiskTypeOK, HistoryTypeOK
<1>11. SegmentsListed'
  BY <1>1, <1>3 DEF SegmentsListed
<1>12. stateFile.present => CursorLeq(stateFile.seg, stateFile.off, cursor.seg, cursor.off)
  <2>1. segs = <<>> \/ segs[1] \in Nat
    BY <1>4
  <2> QED
    BY <1>5, <2>1 DEF CursorIn, CursorLeq, StateType
<1>13. StateNeverAhead'
  BY <1>1, <1>12 DEF StateNeverAhead
<1> QED
  BY <1>1, <1>9, <1>10, <1>11, <1>13 DEF IInv, TypeOK, CallsOpen

\* stats() changes nothing but the count of pending records.
LEMMA ReadStatsKeeps == ASSUME IInv, ReadStats PROVE IInv'
<1>1. /\ stats' = [stats EXCEPT !.pending = Cardinality(Pending)]
      /\ UNCHANGED <<disk, stateFile, open, segments, readSegment, readOffset, pc, remaining,
                     advanced, nextRec, crashes, torn, accepted, acked, released, evicted,
                     shadowed>>
  BY DEF ReadStats, diskVars, callVars, boundVars, historyVars
<1>2. Cardinality(Pending) \in Nat
  BY PeekType DEF Pending, IInv, TypeOK, HistoryTypeOK
<1>3. stats \in StatsType
  BY DEF IInv, TypeOK, MemoryTypeOK
<1>4. stats' \in StatsType
  BY <1>1, <1>2, <1>3, Zenon DEF StatsType
<1>5. MemoryTypeOK'
  BY <1>1, <1>4 DEF IInv, TypeOK, MemoryTypeOK
<1>6. DiskTypeOK' /\ HistoryTypeOK'
  BY <1>1 DEF IInv, TypeOK, DiskTypeOK, HistoryTypeOK
<1> QED
  BY <1>1, <1>5, <1>6 DEF IInv, TypeOK, CallsOpen, SegmentsListed, StateNeverAhead

\* Going down forgets the memory, and with it everything said about it.
LEMMA DownKeeps ==
    ASSUME IInv, GoDown, DiskTypeOK', HistoryTypeOK', Directory(disk, nextRec)'
    PROVE  IInv'
<1>1. NewStats \in StatsType
  BY DEF NewStats, StatsType
<1>2. <<>> \in Seq(Nat \ {0})
  OBVIOUS
<1>3. MemoryTypeOK'
  BY <1>1, <1>2, Zenon DEF GoDown, MemoryTypeOK
<1> QED
  BY <1>3 DEF IInv, GoDown, TypeOK, CallsOpen, SegmentsListed, StateNeverAhead

\* A process that dies between two writes leaves the disk as it was.
LEMMA CrashKeeps == ASSUME IInv, Crash PROVE IInv'
<1>1. /\ GoDown
      /\ UNCHANGED <<disk, stateFile, nextRec, torn, accepted, acked, released, evicted, shadowed>>
  BY DEF Crash, diskVars, historyVars
<1>2. DiskTypeOK' /\ Directory(disk, nextRec)'
  BY <1>1 DEF IInv, TypeOK, DiskTypeOK
<1>3. HistoryTypeOK'
  BY <1>1, ConstantAssumption DEF IInv, TypeOK, HistoryTypeOK, GoDown
<1> QED
  BY <1>1, <1>2, <1>3, DownKeeps

\* append writes a whole frame and lists the segment it went to.
LEMMA AppendWriteKeeps ==
    ASSUME IInv, NEW len \in Lens, AppendWrite(len) PROVE IInv'
<1> DEFINE words == Header + len
<1>1. len \in Nat /\ words \in Nat
  BY ConstantAssumption DEF Header
<1>2. /\ disk' = DiskAfterWrite(len, words)
      /\ segments' = WithActive
      /\ stats' = [stats EXCEPT !.appended = @ + 1, !.pending = @ + 1]
      /\ nextRec' = nextRec + 1
      /\ accepted' = accepted \cup {nextRec}
      /\ shadowed' \subseteq shadowed \cup {nextRec}
      /\ pc' = "bounds"
      /\ open
      /\ UNCHANGED <<stateFile, open, readSegment, readOffset, remaining, advanced,
                     crashes, torn, acked, released, evicted>>
  BY DEF AppendWrite
<1> HIDE DEF words
<1>3. TypeOK /\ Directory(disk, nextRec)
  BY DEF IInv
<1>4. /\ DOMAIN disk' = DOMAIN disk \cup {Active}
      /\ Directory(disk', nextRec + 1)
  BY <1>1, <1>2, <1>3, WriteType
<1>5. /\ Active \in Nat \ {0}
      /\ WithActive \in Seq(Nat \ {0})
      /\ Elements(WithActive) = Elements(segments) \cup {Active}
      /\ Ascending(segments) => Ascending(WithActive)
  BY <1>3, ActiveType
<1>6. stats' \in StatsType
  <2>1. stats \in StatsType
    BY <1>3 DEF TypeOK, MemoryTypeOK
  <2>2. stats.appended + 1 \in Nat /\ stats.pending + 1 \in Nat
    BY <2>1 DEF StatsType
  <2> QED
    BY <1>2, <2>1, <2>2, Zenon DEF StatsType
<1>7. MemoryTypeOK'
  BY <1>2, <1>3, <1>5, <1>6 DEF TypeOK, MemoryTypeOK
<1>8. DiskTypeOK'
  BY <1>2, <1>3, <1>4 DEF TypeOK, DiskTypeOK, Directory
<1>9. HistoryTypeOK'
  BY <1>2, <1>3 DEF TypeOK, HistoryTypeOK
<1>10. SegmentsListed'
  BY <1>2, <1>4, <1>5 DEF SegmentsListed, IInv
<1> QED
  BY <1>2, <1>4, <1>7, <1>8, <1>9, <1>10
     DEF IInv, TypeOK, CallsOpen, StateNeverAhead

\* What a partial write leaves on disk and in the history.
LEMMA PartialWriteKeeps ==
    ASSUME IInv, NEW len \in Lens, NEW words \in Nat, PartialWrite(len, words),
           crashes' \in 0..MaxCrash
    PROVE  /\ DiskTypeOK' /\ HistoryTypeOK' /\ Directory(disk, nextRec)'
           /\ DOMAIN disk' = DOMAIN disk \cup {Active}
<1>1. len \in Nat
  BY ConstantAssumption
<1>2. TypeOK /\ Directory(disk, nextRec)
  BY DEF IInv
<1>3. disk' = DiskAfterWrite(len, words)
  BY DEF PartialWrite
<1>4. /\ torn' = torn + (IF words > 0 THEN 1 ELSE 0)
      /\ nextRec' = nextRec + (IF words > 0 THEN 1 ELSE 0)
      /\ words > 0 => torn < MaxTorn
      /\ UNCHANGED <<stateFile, accepted, acked, released, evicted, shadowed>>
  BY DEF PartialWrite, historyVars
<1>5. /\ DOMAIN disk' = DOMAIN disk \cup {Active}
      /\ Directory(disk', nextRec + 1)
  BY <1>1, <1>2, <1>3, WriteType, Zenon
<1>6. words = 0 => Directory(disk', nextRec)
  BY <1>1, <1>2, <1>3, WriteType
<1>7. DiskTypeOK'
  BY <1>2, <1>4, <1>5 DEF TypeOK, DiskTypeOK, Directory
<1>8. nextRec' = IF words = 0 THEN nextRec ELSE nextRec + 1
  BY <1>2, <1>4 DEF TypeOK, HistoryTypeOK
<1>9. Directory(disk, nextRec)'
  BY <1>5, <1>8, <1>6
<1>10. HistoryTypeOK'
  BY <1>2, <1>4, <1>8, ConstantAssumption DEF TypeOK, HistoryTypeOK
<1> QED
  BY <1>5, <1>7, <1>9, <1>10

\* append fails half way; the segment is listed all the same.
LEMMA AppendFailsKeeps ==
    ASSUME IInv, NEW len \in Lens, NEW words \in Nat, AppendFails(len, words) PROVE IInv'
<1>1. /\ PartialWrite(len, words)
      /\ segments' = WithActive
      /\ UNCHANGED <<open, readSegment, readOffset, stats, pc, remaining, advanced, crashes>>
  BY DEF AppendFails, callVars
<1>2. TypeOK
  BY DEF IInv
<1>3. crashes' \in 0..MaxCrash
  BY <1>1, <1>2 DEF TypeOK, HistoryTypeOK
<1>4. /\ DiskTypeOK' /\ HistoryTypeOK' /\ Directory(disk, nextRec)'
      /\ DOMAIN disk' = DOMAIN disk \cup {Active}
  BY <1>1, <1>3, PartialWriteKeeps
<1>5. /\ WithActive \in Seq(Nat \ {0})
      /\ Elements(WithActive) = Elements(segments) \cup {Active}
      /\ Ascending(segments) => Ascending(WithActive)
  BY <1>2, ActiveType
<1>6. MemoryTypeOK'
  BY <1>1, <1>2, <1>5 DEF TypeOK, MemoryTypeOK
<1>7. SegmentsListed'
  BY <1>1, <1>4, <1>5 DEF SegmentsListed, IInv
<1>8. UNCHANGED stateFile
  BY <1>1 DEF PartialWrite
<1> QED
  BY <1>1, <1>4, <1>6, <1>7, <1>8 DEF IInv, TypeOK, CallsOpen, StateNeverAhead

\* The process dies with part of a frame written.
LEMMA CrashMidAppendKeeps ==
    ASSUME IInv, NEW len \in Lens, NEW words \in Nat, CrashMidAppend(len, words) PROVE IInv'
<1>1. PartialWrite(len, words) /\ GoDown
  BY DEF CrashMidAppend
<1>2. crashes' \in 0..MaxCrash
  BY <1>1, ConstantAssumption DEF GoDown, IInv, TypeOK, HistoryTypeOK
<1>3. DiskTypeOK' /\ HistoryTypeOK' /\ Directory(disk, nextRec)'
  BY <1>1, <1>2, PartialWriteKeeps
<1> QED
  BY <1>1, <1>3, DownKeeps

\* append lists a segment it then cannot open.
LEMMA CannotOpenKeeps == ASSUME IInv, AppendCannotOpen PROVE IInv'
<1>1. /\ segments' = WithActive
      /\ UNCHANGED <<disk, stateFile, open, readSegment, readOffset, stats, pc, remaining,
                     advanced, nextRec, crashes, torn, accepted, acked, released, evicted,
                     shadowed>>
  BY DEF AppendCannotOpen, diskVars, callVars, boundVars, historyVars
<1>2. /\ WithActive \in Seq(Nat \ {0})
      /\ Elements(WithActive) = Elements(segments) \cup {Active}
      /\ Ascending(segments) => Ascending(WithActive)
  BY ActiveType DEF IInv
<1>3. MemoryTypeOK'
  BY <1>1, <1>2 DEF IInv, TypeOK, MemoryTypeOK
<1>4. DiskTypeOK' /\ HistoryTypeOK'
  BY <1>1 DEF IInv, TypeOK, DiskTypeOK, HistoryTypeOK
<1>5. SegmentsListed'
  BY <1>1, <1>2 DEF SegmentsListed, IInv
<1> QED
  BY <1>1, <1>3, <1>4, <1>5 DEF IInv, TypeOK, CallsOpen, StateNeverAhead

\* Taking one file away leaves a directory.
LEMMA RemoveType ==
    ASSUME NEW d, NEW n, Directory(d, n), NEW x
    PROVE  Directory([id \in DOMAIN d \ {x} |-> d[id]], n)
<1> DEFINE left == [id \in DOMAIN d \ {x} |-> d[id]]
<1>1. DOMAIN left = DOMAIN d \ {x}
  OBVIOUS
<1>2. IsFiniteSet(DOMAIN d \ {x})
  BY FS_RemoveElement DEF Directory
<1>3. \A id \in DOMAIN left : id \in DOMAIN d /\ left[id] = d[id]
  OBVIOUS
<1> HIDE DEF left
<1>4. left = [id \in DOMAIN left |-> left[id]]
  BY DEF left
<1> QED
  BY <1>1, <1>2, <1>3, <1>4 DEF Directory, left

\* enforce_bounds deletes the oldest segment; the cursor, if it was there, moves
\* to the start of the next.
LEMMA EvictKeeps == ASSUME IInv, Evict PROVE IInv'
<1> DEFINE victim == segments[1]
           rest   == Tail(segments)
           left   == [id \in DOMAIN disk \ {victim} |-> disk[id]]
           lost   == IF segments[1] >= readSegment THEN Pending ELSE {}
           still  == PeekAll(left, rest, rest[1], 0)
           drop   == Cardinality(lost) - Cardinality(still)
           more   == IF drop > 0 THEN drop ELSE 0
<1>1. /\ pc = "bounds"
      /\ Len(segments) > 1
      /\ disk' = left
      /\ segments' = rest
      /\ UNCHANGED <<stateFile, open, pc, remaining, advanced, nextRec, crashes, torn,
                     accepted, acked, released, shadowed>>
  BY DEF Evict, EvictOldest, OverBudget, callVars, boundVars
<1>2. \/ /\ readSegment <= victim
         /\ readSegment' = rest[1]
         /\ readOffset' = 0
         /\ stats' = [stats EXCEPT !.dropped = @ + more, !.pending = Cardinality(still)]
         /\ evicted' = evicted \cup (Pending \ still)
      \/ /\ ~(readSegment <= victim)
         /\ UNCHANGED <<readSegment, readOffset, stats, evicted>>
  BY Zenon DEF Evict, EvictOldest
<1>3. /\ segments \in Seq(Nat \ {0})
      /\ nextRec \in Nat \ {0}
      /\ Directory(disk, nextRec)
      /\ readSegment \in Nat
      /\ stats \in StatsType
      /\ evicted \subseteq 1..(nextRec - 1)
  BY DEF IInv, TypeOK, MemoryTypeOK, HistoryTypeOK
<1>4. /\ rest \in Seq(Nat \ {0})
      /\ Len(rest) = Len(segments) - 1
      /\ \A i \in DOMAIN rest : i + 1 \in DOMAIN segments /\ rest[i] = segments[i + 1]
  BY <1>1, <1>3
<1>5. victim \in Nat /\ rest[1] \in Nat \ {0} /\ rest[1] = segments[2]
  BY <1>1, <1>3, <1>4
<1>6. open /\ open' /\ Ascending(segments)
  BY <1>1 DEF IInv, CallsOpen, SegmentsListed
<1>7. victim < rest[1]
  BY <1>1, <1>3, <1>5, <1>6 DEF Ascending
<1>8. Directory(left, nextRec)
  BY <1>3, RemoveType, Zenon
<1> HIDE DEF left, rest, victim
<1>9. Cardinality(still) \in Nat
  BY <1>3, <1>8, PeekType
<1>10. Pending \subseteq 1..(nextRec - 1) /\ Cardinality(lost) \in Nat
  <2>1. /\ Pending \subseteq 1..(nextRec - 1)
        /\ Cardinality(Pending) \in Nat
    BY <1>3, PeekType DEF Pending
  <2>2. Cardinality({}) = 0
    BY FS_EmptySet
  <2> QED
    BY <2>1, <2>2
<1> HIDE DEF lost, still
<1>11. more \in Nat
  BY <1>9, <1>10
<1> HIDE DEF more
<1>12. stats' \in StatsType
  <2>1. stats.dropped + more \in Nat
    BY <1>3, <1>11 DEF StatsType
  <2> QED
    BY <1>2, <1>3, <1>9, <2>1, Zenon DEF StatsType
<1>13. evicted' \subseteq 1..(nextRec - 1)
  BY <1>2, <1>3, <1>10
<1>14. MemoryTypeOK'
  BY <1>1, <1>2, <1>4, <1>5, <1>12 DEF IInv, TypeOK, MemoryTypeOK
<1>15. DiskTypeOK' /\ Directory(disk, nextRec)'
  BY <1>1, <1>8, Zenon DEF IInv, TypeOK, DiskTypeOK, Directory
<1>16. HistoryTypeOK'
  BY <1>1, <1>13 DEF IInv, TypeOK, HistoryTypeOK
<1>17. SegmentsListed'
  <2>1. Ascending(rest)
    BY <1>3, <1>4, <1>6 DEF Ascending
  <2>2. ASSUME NEW id \in DOMAIN disk', id >= readSegment'
        PROVE  id \in Elements(rest)
    <3>1. id \in DOMAIN disk /\ id # victim /\ id \in Nat
      BY <1>1, <1>3, <2>2 DEF left, Directory
    <3>2. id >= readSegment
      BY <1>2, <1>3, <1>5, <1>7, <2>2, <3>1
    <3>3. PICK i \in DOMAIN segments : segments[i] = id
      BY <1>6, <3>1, <3>2 DEF IInv, SegmentsListed, Elements
    <3>4. i # 1
      BY <3>1, <3>3 DEF victim
    <3>5. i - 1 \in DOMAIN rest /\ rest[i - 1] = id
      BY <1>1, <1>3, <1>4, <3>3, <3>4
    <3> QED
      BY <3>5 DEF Elements
  <2> QED
    BY <1>1, <2>1, <2>2 DEF SegmentsListed
<1>18. StateNeverAhead'
  BY <1>1, <1>2, <1>3, <1>5, <1>6, <1>7 DEF IInv, TypeOK, DiskTypeOK, StateType, StateNeverAhead, CursorLeq
<1> QED
  BY <1>1, <1>6, <1>14, <1>15, <1>16, <1>17, <1>18 DEF IInv, TypeOK, CallsOpen

\* A step that leaves the directory, the list and the read cursor alone keeps
\* the invariant if what it does to the call, the state file and the
\* acknowledgements is well typed and the saved cursor does not overtake.
LEMMA CallStepKeeps ==
    ASSUME IInv,
           UNCHANGED <<disk, open, segments, readSegment, readOffset, stats,
                       nextRec, crashes, torn, accepted, released, evicted, shadowed>>,
           open,
           pc' \in {"idle", "save", "rename", "commit"},
           remaining' \in Nat, advanced' \in BOOLEAN,
           acked' \subseteq 1..(nextRec - 1),
           stateFile' \in StateType,
           StateNeverAhead'
    PROVE  IInv'
<1>1. MemoryTypeOK'
  BY DEF IInv, TypeOK, MemoryTypeOK
<1>2. DiskTypeOK' /\ Directory(disk, nextRec)'
  BY DEF IInv, TypeOK, DiskTypeOK
<1>3. HistoryTypeOK'
  BY DEF IInv, TypeOK, HistoryTypeOK
<1>4. SegmentsListed'
  BY DEF IInv, SegmentsListed
<1> QED
  BY <1>1, <1>2, <1>3, <1>4 DEF IInv, TypeOK, CallsOpen

\* What save_state writes has the type of the file and is not ahead.
LEMMA MemoryStateType ==
    ASSUME IInv
    PROVE  /\ MemoryState \in StateType
           /\ NoState \in StateType
           /\ CursorLeq(MemoryState.seg, MemoryState.off, readSegment, readOffset)
<1>1. readSegment \in Nat /\ readOffset \in Nat /\ stats \in StatsType
  BY DEF IInv, TypeOK, MemoryTypeOK
<1>2. stats.committed \in Nat /\ stats.dropped \in Nat
  BY <1>1 DEF StatsType
<1> QED
  BY <1>1, <1>2 DEF MemoryState, NoState, StateType, CursorLeq

\* The end of enforce_bounds and the ways through save_state.
LEMMA SaveKeeps ==
    ASSUME IInv, WithinBounds \/ SaveSteps PROVE IInv'
<1>1. /\ UNCHANGED <<disk, open, segments, readSegment, readOffset, stats, remaining, advanced,
                     nextRec, crashes, torn, accepted, acked, released, evicted, shadowed>>
      /\ pc' \in {"idle", "save", "rename", "commit"}
      /\ pc # "idle"
      /\ stateFile' \in {stateFile, MemoryState, NoState}
  <2>1. CASE WithinBounds
    BY <2>1 DEF WithinBounds, diskVars, memoryVars, boundVars, historyVars
  <2>2. CASE SaveState
    BY <2>2, Zenon DEF SaveState, memoryVars, boundVars, historyVars
  <2>3. CASE SaveRemove
    BY <2>3 DEF SaveRemove, memoryVars, boundVars, historyVars
  <2>4. CASE SaveRename
    BY <2>4 DEF SaveRename, memoryVars, boundVars, historyVars
  <2>5. CASE SaveFails
    BY <2>5 DEF SaveFails, diskVars, memoryVars, boundVars, historyVars
  <2> QED
    BY <2>1, <2>2, <2>3, <2>4, <2>5, Zenon DEF SaveSteps
<1>2. /\ MemoryState \in StateType
      /\ NoState \in StateType
      /\ CursorLeq(MemoryState.seg, MemoryState.off, readSegment, readOffset)
  BY MemoryStateType
<1>3. stateFile' \in StateType
  BY <1>1, <1>2 DEF IInv, TypeOK, DiskTypeOK
<1>4. StateNeverAhead'
  BY <1>1, <1>2 DEF IInv, StateNeverAhead, NoState
<1>5. open /\ remaining' \in Nat /\ advanced' \in BOOLEAN /\ acked' \subseteq 1..(nextRec - 1)
  BY <1>1 DEF IInv, CallsOpen, TypeOK, MemoryTypeOK, HistoryTypeOK
<1> QED
  BY <1>1, <1>3, <1>4, <1>5, CallStepKeeps

\* commit is entered, or its loop left.
LEMMA CommitEndsKeep ==
    ASSUME IInv, CommitStop \/ \E count \in 1..Cardinality(Pending) : CommitStart(count) PROVE IInv'
<1>1. /\ UNCHANGED <<disk, stateFile, open, segments, readSegment, readOffset, stats,
                     nextRec, crashes, torn, accepted, released, evicted, shadowed>>
      /\ open
      /\ pc' \in {"idle", "save", "rename", "commit"}
      /\ remaining' \in Nat
      /\ advanced' \in BOOLEAN
      /\ acked' \subseteq acked \cup Pending
  <2>1. CASE CommitStop
    BY <2>1, Zenon DEF CommitStop, CommitLeaves, diskVars, memoryVars, boundVars, historyVars, IInv, CallsOpen
  <2>2. CASE \E count \in 1..Cardinality(Pending) : CommitStart(count)
    <3>1. PICK count \in 1..Cardinality(Pending) : CommitStart(count)
      BY <2>2
    <3>2. count \in Nat
      BY <3>1 DEF CommitStart
    <3> QED
      BY <3>1, <3>2, Zenon DEF CommitStart, Peek, diskVars, memoryVars, boundVars
  <2> QED
    BY <2>1, <2>2, Zenon
<1>2. Pending \subseteq 1..(nextRec - 1)
  BY PeekType DEF Pending, IInv, TypeOK, HistoryTypeOK
<1>3. acked' \subseteq 1..(nextRec - 1)
  BY <1>1, <1>2 DEF IInv, TypeOK, HistoryTypeOK
<1>4. stateFile' \in StateType /\ StateNeverAhead'
  BY <1>1, Zenon DEF IInv, TypeOK, DiskTypeOK, StateNeverAhead
<1> QED
  BY <1>1, <1>3, <1>4, CallStepKeeps

\* commit passes a frame: the offset grows by the frame's length.
LEMMA CommitFrameKeeps == ASSUME IInv, CommitFrame PROVE IInv'
<1>1. PICK i \in HeadersAtCursor :
         LET c   == disk[readSegment][i]
             len == IF c.words = 1 THEN MagicAsLength ELSE c.len
         IN  /\ readOffset' = readOffset + Header + len
             /\ released' = released \cup (IF Complete(c) THEN {c.rec} ELSE {})
  BY DEF CommitFrame, PassFrame
<1> DEFINE c   == disk[readSegment][i]
           len == IF c.words = 1 THEN MagicAsLength ELSE c.len
<1>2. /\ pc = "commit" /\ remaining > 0
      /\ stats' = [stats EXCEPT !.committed = @ + 1, !.pending = IF @ > 0 THEN @ - 1 ELSE 0]
      /\ remaining' = remaining - 1
      /\ advanced' = TRUE
      /\ UNCHANGED <<disk, stateFile, open, segments, readSegment, pc, nextRec, crashes, torn,
                     accepted, acked, evicted, shadowed>>
  BY DEF CommitFrame, PassFrame, diskVars, boundVars
<1>3. readSegment \in DOMAIN disk /\ i \in DOMAIN disk[readSegment]
  BY DEF HeadersAtCursor, FileAt
<1>4. c \in Chunk
  BY <1>3 DEF IInv, Directory
<1>5. c.rec \in Nat \ {0} /\ c.rec < nextRec /\ c.len \in Nat
  BY <1>3, <1>4 DEF IInv, Directory, Chunk
<1>6. len \in Nat
  BY <1>5, SMTT(20) DEF MagicAsLength
<1>7. nextRec \in Nat /\ readOffset \in Nat /\ stats \in StatsType /\ remaining \in Nat
  BY DEF IInv, TypeOK, MemoryTypeOK, HistoryTypeOK
<1>8. released' \subseteq 1..(nextRec - 1)
  <2>1. c.rec \in 1..(nextRec - 1)
    BY <1>5, <1>7
  <2>2. released \subseteq 1..(nextRec - 1)
    BY DEF IInv, TypeOK, HistoryTypeOK
  <2> HIDE DEF c
  <2> QED
    BY <1>1, <2>1, <2>2, Zenon DEF c
<1>9. readOffset' = readOffset + Header + len
  BY <1>1, Zenon
<1> HIDE DEF c, len
<1>10. readOffset' \in Nat /\ readOffset <= readOffset'
  BY <1>6, <1>7, <1>9 DEF Header
<1>11. stats' \in StatsType
  <2>1. stats.committed + 1 \in Nat
    BY <1>7 DEF StatsType
  <2>2. (IF stats.pending > 0 THEN stats.pending - 1 ELSE 0) \in Nat
    BY <1>7 DEF StatsType
  <2> QED
    BY <1>2, <1>7, <2>1, <2>2, Zenon DEF StatsType
<1>12. MemoryTypeOK'
  BY <1>2, <1>7, <1>10, <1>11 DEF IInv, TypeOK, MemoryTypeOK
<1>13. DiskTypeOK' /\ Directory(disk, nextRec)'
  BY <1>2 DEF IInv, TypeOK, DiskTypeOK
<1>14. HistoryTypeOK'
  BY <1>2, <1>8 DEF IInv, TypeOK, HistoryTypeOK
<1>15. SegmentsListed'
  BY <1>2 DEF IInv, SegmentsListed
<1>16. StateNeverAhead'
  BY <1>2, <1>7, <1>10
     DEF IInv, TypeOK, DiskTypeOK, MemoryTypeOK, StateType, StateNeverAhead, CursorLeq
<1> QED
  BY <1>2, <1>12, <1>13, <1>14, <1>15, <1>16 DEF IInv, TypeOK, CallsOpen

\* commit goes on to the next segment, with or without deleting the one it has
\* used up: what stays listed covers every file from the new cursor on.
LEMMA CommitNextKeeps == ASSUME IInv, CommitRetire \/ CommitMissing PROVE IInv'
<1>1. pc = "commit" /\ open /\ TypeOK /\ Ascending(segments)
  BY DEF CommitRetire, CommitMissing, IInv, CallsOpen, SegmentsListed
<1>2. PICK p \in UpperBound(readSegment) :
         /\ readSegment' = segments[p]
         /\ segments' \in {segments, Erase(p, readSegment)}
  BY DEF CommitRetire, CommitMissing
<1>3. /\ readOffset' = 0
      /\ disk' \in {disk, [id \in DOMAIN disk \ {readSegment} |-> disk[id]]}
      /\ advanced' \in BOOLEAN
      /\ UNCHANGED <<stateFile, open, stats, pc, remaining, nextRec, crashes, torn,
                     accepted, acked, released, evicted, shadowed>>
  BY <1>1, Zenon DEF CommitRetire, CommitMissing, diskVars, callVars, boundVars, historyVars,
              TypeOK, MemoryTypeOK
<1>4. /\ segments[p] \in Nat \ {0} /\ segments[p] > readSegment
      /\ Erase(p, readSegment) \in Seq(Nat \ {0})
      /\ Ascending(Erase(p, readSegment))
      /\ Elements(segments) \ {readSegment} \subseteq Elements(Erase(p, readSegment))
  BY <1>1, EraseType
<1>5. Directory(disk, nextRec)'
  BY <1>3, RemoveType DEF IInv
<1>6. /\ segments' \in Seq(Nat \ {0})
      /\ Ascending(segments')
      /\ Elements(segments) \ {readSegment} \subseteq Elements(segments')
  BY <1>1, <1>2, <1>4 DEF TypeOK, MemoryTypeOK
<1>7. MemoryTypeOK'
  BY <1>1, <1>2, <1>3, <1>4, <1>6, Zenon DEF TypeOK, MemoryTypeOK
<1>8. DiskTypeOK'
  BY <1>1, <1>3, <1>5, Zenon DEF TypeOK, DiskTypeOK, Directory
<1>9. HistoryTypeOK'
  BY <1>1, <1>3 DEF TypeOK, HistoryTypeOK
<1>10. SegmentsListed'
  <2>1. ASSUME NEW id \in DOMAIN disk', id >= readSegment' PROVE id \in Elements(segments')
    <3>1. id \in DOMAIN disk /\ id \in Nat
      BY <1>3 DEF IInv, Directory
    <3>2. readSegment \in Nat
      BY <1>1 DEF TypeOK, MemoryTypeOK
    <3>3. id > readSegment
      BY <1>2, <1>4, <2>1, <3>1, <3>2
    <3>4. id \in Elements(segments)
      BY <1>1, <3>1, <3>2, <3>3 DEF IInv, SegmentsListed
    <3> QED
      BY <1>6, <3>2, <3>3, <3>4
  <2> QED
    BY <1>6, <2>1 DEF SegmentsListed
<1>11. StateNeverAhead'
  BY <1>1, <1>2, <1>3, <1>4
     DEF IInv, TypeOK, DiskTypeOK, MemoryTypeOK, StateType, StateNeverAhead, CursorLeq
<1> QED
  BY <1>1, <1>3, <1>5, <1>7, <1>8, <1>9, <1>10, <1>11 DEF IInv, TypeOK, CallsOpen

\* Every step keeps the invariant.
LEMMA NextKeeps == ASSUME IInv, [Next]_vars PROVE IInv'
<1>1. CASE UNCHANGED vars
  BY <1>1, Zenon DEF vars, diskVars, memoryVars, callVars, boundVars, historyVars, IInv, TypeOK,
     DiskTypeOK, MemoryTypeOK, HistoryTypeOK, CallsOpen, SegmentsListed, StateNeverAhead
<1>2. CASE Open
  BY <1>2, OpenKeeps
<1>3. CASE ReadStats
  BY <1>3, ReadStatsKeeps
<1>4. CASE Crash
  BY <1>4, CrashKeeps
<1>5. CASE AppendSteps
  <2>1. ASSUME NEW len \in Lens, NEW words \in 0..(Header + len - 1) PROVE words \in Nat
    BY <2>1
  <2> QED
    BY <1>5, <2>1, AppendWriteKeeps, AppendFailsKeeps, CrashMidAppendKeeps, CannotOpenKeeps,
       EvictKeeps, SaveKeeps DEF AppendSteps
<1>6. CASE \E count \in 1..Cardinality(Pending) : CommitStart(count)
  BY <1>6, CommitEndsKeep
<1>7. CASE CommitSteps
  BY <1>7, CommitFrameKeeps, CommitNextKeeps, CommitEndsKeep DEF CommitSteps
<1>8. CASE SaveSteps
  BY <1>8, SaveKeeps
<1> QED
  BY <1>1, <1>2, <1>4, <1>5, <1>6, <1>7, <1>8, <1>3 DEF Next

\* The inductive invariant holds throughout.
THEOREM Invariance == Spec => []IInv
BY InitIInv, NextKeeps, PTL DEF Spec

\* Every variable keeps its type through all of append, eviction, commit,
\* save_state, crashes and restarts.
THEOREM TypeCorrect == Spec => []TypeOK
<1>1. IInv => TypeOK
  BY DEF IInv
<1> QED
  BY <1>1, Invariance, PTL

\* segments_ stays ascending and lists every segment file from the cursor on,
\* whichever deletions succeed and wherever the process dies.
THEOREM Listed == Spec => []SegmentsListed
<1>1. IInv => SegmentsListed
  BY DEF IInv
<1> QED
  BY <1>1, Invariance, PTL

\* The cursor on disk never overtakes the one in memory: a restart may send
\* again, it does not skip.
THEOREM NeverAhead == Spec => []StateNeverAhead
<1>1. IInv => StateNeverAhead
  BY DEF IInv
<1> QED
  BY <1>1, Invariance, PTL

\* A step of a living process moves the read cursor forward or not at all.
LEMMA StepForward ==
    ASSUME IInv, [Next]_vars, open, open'
    PROVE  CursorLeq(readSegment, readOffset, readSegment', readOffset')
<1>1. readSegment \in Nat /\ readOffset \in Nat /\ TypeOK /\ Ascending(segments)
  BY DEF IInv, TypeOK, MemoryTypeOK, SegmentsListed
<1>2. CASE UNCHANGED <<readSegment, readOffset>>
  BY <1>1, <1>2 DEF CursorLeq
<1>3. CASE Evict
  <2>1. /\ Len(segments) > 1
        /\ segments \in Seq(Nat \ {0})
        /\ \/ UNCHANGED <<readSegment, readOffset>>
           \/ readSegment <= segments[1] /\ readSegment' = Tail(segments)[1]
    BY <1>1, <1>3 DEF Evict, EvictOldest, OverBudget, TypeOK, MemoryTypeOK
  <2>2. Tail(segments)[1] = segments[2]
    BY <2>1
  <2>3. segments[1] \in Nat /\ segments[2] \in Nat /\ segments[1] < segments[2]
    BY <1>1, <2>1 DEF Ascending
  <2> QED
    BY <1>1, <2>1, <2>2, <2>3 DEF CursorLeq
<1>4. CASE CommitFrame
  <2>1. PICK i \in HeadersAtCursor :
           LET c == disk[readSegment][i]
           IN  readOffset' = readOffset + Header + (IF c.words = 1 THEN MagicAsLength ELSE c.len)
    BY <1>4 DEF CommitFrame, PassFrame
  <2>2. readSegment \in DOMAIN disk /\ i \in DOMAIN disk[readSegment]
    BY DEF HeadersAtCursor, FileAt
  <2>3. disk[readSegment][i] \in Chunk
    BY <2>2 DEF IInv, Directory
  <2>4. (IF disk[readSegment][i].words = 1 THEN MagicAsLength
         ELSE disk[readSegment][i].len) \in Nat
    BY <2>3, SMTT(20) DEF Chunk, MagicAsLength
  <2>5. readOffset <= readOffset'
    BY <1>1, <2>1, <2>4 DEF Header
  <2>6. readSegment' = readSegment
    BY <1>4 DEF CommitFrame, PassFrame
  <2> QED
    BY <2>5, <2>6 DEF CursorLeq
<1>5. CASE CommitRetire \/ CommitMissing
  <2>1. PICK p \in UpperBound(readSegment) : readSegment' = segments[p]
    BY <1>5 DEF CommitRetire, CommitMissing
  <2>2. segments[p] > readSegment /\ segments[p] \in Nat
    BY <1>1, EraseType
  <2> QED
    BY <1>1, <2>1, <2>2 DEF CursorLeq
<1>6. UNCHANGED <<readSegment, readOffset>> \/ Evict \/ CommitFrame \/ CommitRetire \/ CommitMissing
  <2>1. ASSUME UNCHANGED vars PROVE UNCHANGED <<readSegment, readOffset>>
    BY <2>1 DEF vars, memoryVars
  <2>2. ~Open /\ ~Crash /\ \A len, words : ~CrashMidAppend(len, words)
    BY Zenon DEF Open, Crash, CrashMidAppend, GoDown
  <2>3. ASSUME NEW len, AppendWrite(len) PROVE UNCHANGED <<readSegment, readOffset>>
    BY <2>3 DEF AppendWrite
  <2>4. ASSUME NEW len, NEW words, AppendFails(len, words)
        PROVE  UNCHANGED <<readSegment, readOffset>>
    BY <2>4 DEF AppendFails
  <2>5. ASSUME AppendCannotOpen \/ WithinBounds PROVE UNCHANGED <<readSegment, readOffset>>
    BY <2>5 DEF AppendCannotOpen, WithinBounds, memoryVars
  <2>6. ASSUME SaveSteps PROVE UNCHANGED <<readSegment, readOffset>>
    BY <2>6, Zenon DEF SaveSteps, SaveState, SaveRemove, SaveRename, SaveFails, memoryVars
  <2>7. ASSUME NEW count, CommitStart(count) PROVE UNCHANGED <<readSegment, readOffset>>
    BY <2>7 DEF CommitStart, memoryVars
  <2>8. ASSUME ReadStats PROVE UNCHANGED <<readSegment, readOffset>>
    BY <2>8 DEF ReadStats
  <2>9. ASSUME CommitStop PROVE UNCHANGED <<readSegment, readOffset>>
    BY <2>9 DEF CommitStop, CommitLeaves, memoryVars
  <2> QED
    BY <2>1, <2>2, <2>3, <2>4, <2>5, <2>6, <2>7, <2>8, <2>9 DEF Next, AppendSteps, CommitSteps
<1> QED
  BY <1>2, <1>3, <1>4, <1>5, <1>6

\* While a process lives its read cursor never moves back: a record that commit
\* has passed, or whose segment was evicted, is not read again by it.
THEOREM Forward == Spec => CursorForward
<1>1. IInv /\ [Next]_vars =>
         [open /\ open' => CursorLeq(readSegment, readOffset, readSegment', readOffset')]_vars
  BY StepForward
<1> QED
  BY <1>1, Invariance, PTL DEF Spec, CursorForward

-----------------------------------------------------------------------------
(* What the files hold: the definitions *)

\* Chunks lie one behind the other from word 0, in the order of their records.
FileOK(file) ==
    /\ \A i \in DOMAIN file :
         /\ file[i].words <= Header + file[i].len
         /\ file[i].at + file[i].words <= SizeOf(file)
         /\ \/ file[i].at + file[i].words = SizeOf(file)
            \/ \E k \in DOMAIN file : file[k].at = file[i].at + file[i].words
    /\ \A i, j \in DOMAIN file :
         i < j => /\ file[i].at + file[i].words <= file[j].at
                  /\ file[i].rec < file[j].rec
    /\ file # <<>> => file[1].at = 0

\* A later segment holds later records, and is begun only once the earlier one
\* has something in it.
Layout(d) ==
    /\ \A id \in DOMAIN d : FileOK(d[id])
    /\ \A a, b \in DOMAIN d : a < b =>
         /\ d[a] # <<>>
         /\ \A i \in DOMAIN d[a], j \in DOMAIN d[b] : d[a][i].rec < d[b][j].rec

\* What append said of the chunks: a complete one was accepted, and counts as
\* shadowed where a torn one lies before it.
Contents ==
    \A id \in DOMAIN disk : \A i \in DOMAIN disk[id] :
        /\ Complete(disk[id][i]) => disk[id][i].rec \in accepted \ evicted
        /\ torn = 0 => Complete(disk[id][i])
        /\ \A j \in DOMAIN disk[id] :
             j < i /\ Complete(disk[id][i]) /\ ~Complete(disk[id][j]) =>
                 disk[id][i].rec \in shadowed

\* The files reach up to segment seg, or there are none yet.
Top(d, seg) ==
    (\E id \in DOMAIN d : id >= seg) \/ (DOMAIN d = {} /\ seg <= 1)

\* In the last segment, off is where a chunk starts or the next one will.
Fits(d, seg, off) ==
    \/ \E id \in DOMAIN d : id > seg
    \/ off = SizeOf(FileAt(d, seg))
    \/ \E k \in DOMAIN FileAt(d, seg) : FileAt(d, seg)[k].at = off

\* Record r lies at or behind the cursor (seg, off), with nothing torn before it.
Reached(d, seg, off, r) ==
    \E id \in DOMAIN d : \E i \in DOMAIN d[id] :
        /\ d[id][i].rec = r
        /\ \A j \in 1..i : Complete(d[id][j])
        /\ id >= seg
        /\ id = seg => d[id][i].at >= off /\ \E k \in DOMAIN d[id] : d[id][k].at = off

\* Nothing due lies before the cursor (seg, off), and nothing will be written
\* before it.
Holds(d, seg, off) ==
    /\ Top(d, seg)
    /\ Fits(d, seg, off)
    /\ \A r \in Due : Reached(d, seg, off, r)

\* So it is with the start of the directory, the cursor in memory, and the one
\* in the state file.
Cursors ==
    /\ \A r \in Due : Reached(disk, 0, 0, r)
    /\ open => Holds(disk, readSegment, readOffset)
    /\ stateFile.present => Holds(disk, stateFile.seg, stateFile.off)

\* Segments that are listed: append's own is on disk when bounds are enforced,
\* and only the last one can be without content.
ListInv ==
    open => /\ DOMAIN disk = {} => Elements(segments) \subseteq {1}
            /\ \A id \in DOMAIN disk : \A s \in Elements(segments) : id < s => disk[id] # <<>>
            /\ pc = "bounds" => segments # <<>> /\ segments[Len(segments)] \in DOMAIN disk

\* The rest of what commit was asked for is still there to be passed, and was
\* acknowledged.
CommitInv ==
    pc = "commit" => /\ remaining <= Cardinality(Pending)
                     /\ Peek(remaining) \subseteq acked \cup shadowed

\* The inductive invariant.
CInv ==
    /\ Layout(disk)
    /\ Contents
    /\ Cursors
    /\ ListInv
    /\ CommitInv
    /\ OnlyAckedReleased

-----------------------------------------------------------------------------
(* Chunks and files *)

\* The fields of a chunk.
LEMMA ChunkType ==
    ASSUME NEW file \in Seq(Chunk), NEW i \in DOMAIN file
    PROVE  /\ file[i].rec \in Nat \ {0}
           /\ file[i].at \in Nat
           /\ file[i].len \in Nat
           /\ file[i].words \in Nat \ {0}
<1>1. file[i] \in Chunk
  OBVIOUS
<1> QED
  BY <1>1 DEF Chunk

\* The first chunk of a file starts at word 0.
LEMMA FirstChunk ==
    ASSUME NEW file \in Seq(Chunk), FileOK(file), NEW i \in DOMAIN file
    PROVE  file[i].at >= 0 /\ 1 \in DOMAIN file /\ file[1].at = 0
<1>1. 1 \in DOMAIN file /\ file # <<>>
  OBVIOUS
<1>2. file[i].at \in Nat
  BY ChunkType, Zenon
<1> QED
  BY <1>1, <1>2 DEF FileOK

\* A file one chunk longer.
LEMMA AppendShape ==
    ASSUME NEW old \in Seq(Chunk), NEW c \in Chunk
    PROVE  /\ Append(old, c) \in Seq(Chunk)
           /\ Append(old, c) # <<>>
           /\ Len(old) \in Nat
           /\ DOMAIN old = 1..Len(old)
           /\ DOMAIN Append(old, c) = 1..(Len(old) + 1)
           /\ Append(old, c)[Len(old) + 1] = c
           /\ \A i \in DOMAIN old : Append(old, c)[i] = old[i]
           /\ SizeOf(Append(old, c)) = c.at + c.words
<1>1. Append(old, c) \in Seq(Chunk) /\ Len(Append(old, c)) = Len(old) + 1
  OBVIOUS
<1>2. Append(old, c)[Len(old) + 1] = c
  OBVIOUS
<1>3. Append(old, c) # <<>>
  <2>1. Len(Append(old, c)) # 0
    BY <1>1
  <2>2. Len(<<>>) = 0
    OBVIOUS
  <2> QED
    BY <2>1, <2>2, Zenon
<1>4. SizeOf(Append(old, c)) = c.at + c.words
  BY <1>1, <1>2, <1>3 DEF SizeOf
<1> QED
  BY <1>1, <1>2, <1>3, <1>4

\* A chunk written at the end of a file leaves it well laid out.
LEMMA AppendOK ==
    ASSUME NEW old \in Seq(Chunk), FileOK(old), NEW c \in Chunk,
           c.at = SizeOf(old), c.words <= Header + c.len,
           \A i \in DOMAIN old : old[i].rec < c.rec
    PROVE  FileOK(Append(old, c))
<1> DEFINE file == Append(old, c)
           n == Len(old)
<1>1. /\ n \in Nat
      /\ DOMAIN old = 1..n
      /\ DOMAIN file = 1..(n + 1)
      /\ file[n + 1] = c
      /\ \A i \in DOMAIN old : file[i] = old[i]
      /\ SizeOf(file) = c.at + c.words
  BY AppendShape
<1>2. c.at \in Nat /\ c.words \in Nat \ {0} /\ c.len \in Nat /\ c.rec \in Nat
  BY DEF Chunk
<1>3. \A i \in DOMAIN old : old[i].at \in Nat /\ old[i].words \in Nat /\ old[i].rec \in Nat
  BY ChunkType
<1> HIDE DEF file, n
<1>4. ASSUME NEW i \in DOMAIN file
      PROVE  /\ file[i].words <= Header + file[i].len
             /\ file[i].at + file[i].words <= SizeOf(file)
             /\ \/ file[i].at + file[i].words = SizeOf(file)
                \/ \E k \in DOMAIN file : file[k].at = file[i].at + file[i].words
  <2>1. CASE i = n + 1
    BY <1>1, <1>2, <2>1
  <2>2. CASE i # n + 1
    <3>1. i \in DOMAIN old /\ file[i] = old[i] /\ n + 1 \in DOMAIN file
      BY <1>1, <1>4, <2>2
    <3>2. /\ old[i].words <= Header + old[i].len
          /\ old[i].at + old[i].words <= c.at
          /\ \/ old[i].at + old[i].words = c.at
             \/ \E k \in DOMAIN old : old[k].at = old[i].at + old[i].words
      BY <3>1 DEF FileOK
    <3>3. \A k \in DOMAIN old : k \in DOMAIN file /\ file[k] = old[k]
      BY <1>1
    <3>4. old[i].at + old[i].words <= SizeOf(file)
      BY <1>1, <1>2, <1>3, <3>1, <3>2
    <3>5. \E k \in DOMAIN file : file[k].at = old[i].at + old[i].words
      BY <1>1, <3>1, <3>2, <3>3, Zenon
    <3> QED
      BY <3>1, <3>2, <3>4, <3>5, Zenon
  <2> QED
    BY <2>1, <2>2, ZenonT(30)
<1>5. ASSUME NEW i \in DOMAIN file, NEW j \in DOMAIN file, i < j
      PROVE  file[i].at + file[i].words <= file[j].at /\ file[i].rec < file[j].rec
  <2>1. i \in DOMAIN old /\ file[i] = old[i]
    BY <1>1, <1>5
  <2>2. CASE j = n + 1
    <3>1. old[i].at + old[i].words <= c.at /\ old[i].rec < c.rec
      BY <2>1 DEF FileOK
    <3> QED
      BY <1>1, <2>1, <2>2, <3>1
  <2>3. CASE j # n + 1
    <3>1. j \in DOMAIN old /\ file[j] = old[j]
      BY <1>1, <2>3
    <3> QED
      BY <1>5, <2>1, <3>1 DEF FileOK
  <2> QED
    BY <2>2, <2>3
<1>6. file[1].at = 0
  <2>1. CASE n = 0
    <3>1. old = <<>>
      BY <2>1 DEF n
    <3> QED
      BY <1>1, <2>1, <3>1 DEF SizeOf
  <2>2. CASE n # 0
    <3>1. old # <<>> /\ 1 \in DOMAIN old
      BY <1>1, <2>2 DEF n
    <3> QED
      BY <1>1, <3>1 DEF FileOK
  <2> QED
    BY <2>1, <2>2
<1> QED
  BY <1>4, <1>5, <1>6, Zenon DEF FileOK, file

-----------------------------------------------------------------------------
(* What peek finds *)

\* Chunk i of segment id is read from the cursor (seg, off).
Reads(d, seg, off, id, i) ==
    /\ id \in DOMAIN d /\ id >= seg
    /\ i \in DOMAIN d[id]
    /\ i \in ReadableFrom(d[id], IF id = seg THEN off ELSE 0)

\* peek returns the records of the chunks it reads in the listed segments.
LEMMA PeekMember ==
    ASSUME NEW d, NEW segs, NEW seg, NEW off, NEW r
    PROVE  r \in PeekAll(d, segs, seg, off) <=>
               \E id \in Elements(segs) : \E i : Reads(d, seg, off, id, i) /\ d[id][i].rec = r
<1>1. ASSUME r \in PeekAll(d, segs, seg, off)
      PROVE  \E id \in Elements(segs) : \E i : Reads(d, seg, off, id, i) /\ d[id][i].rec = r
  <2>1. PICK id \in Elements(segs) :
           /\ id >= seg
           /\ \E i \in ReadableFrom(FileAt(d, id), IF id = seg THEN off ELSE 0) :
                  r = FileAt(d, id)[i].rec
    BY <1>1 DEF PeekAll
  <2>2. PICK i \in ReadableFrom(FileAt(d, id), IF id = seg THEN off ELSE 0) :
           r = FileAt(d, id)[i].rec
    BY <2>1
  <2>3. i \in DOMAIN FileAt(d, id)
    BY <2>2 DEF ReadableFrom
  <2>4. id \in DOMAIN d /\ FileAt(d, id) = d[id]
    BY <2>3 DEF FileAt
  <2> QED
    BY <2>1, <2>2, <2>3, <2>4 DEF Reads
<1>2. ASSUME NEW id \in Elements(segs), NEW i, Reads(d, seg, off, id, i), d[id][i].rec = r
      PROVE  r \in PeekAll(d, segs, seg, off)
  <2>1. FileAt(d, id) = d[id] /\ id >= seg
    BY <1>2 DEF FileAt, Reads
  <2>2. i \in ReadableFrom(FileAt(d, id), IF id = seg THEN off ELSE 0)
    BY <1>2, <2>1, Zenon DEF Reads
  <2> QED
    BY <1>2, <2>1, <2>2 DEF PeekAll
<1> QED
  BY <1>1, <1>2

\* A due record is found by peek, if the list is complete from the cursor on.
LEMMA ReachedFound ==
    ASSUME NEW d, NEW segs, NEW seg \in Nat, NEW off \in Nat, NEW r, NEW n, Directory(d, n),
           \A id \in DOMAIN d : id >= seg => id \in Elements(segs),
           Layout(d), Reached(d, seg, off, r)
    PROVE  r \in PeekAll(d, segs, seg, off)
<1>1. PICK id, i :
         /\ id \in DOMAIN d /\ i \in DOMAIN d[id]
         /\ d[id][i].rec = r
         /\ \A j \in 1..i : Complete(d[id][j])
         /\ id >= seg
         /\ id = seg => d[id][i].at >= off /\ \E k \in DOMAIN d[id] : d[id][k].at = off
  BY DEF Reached
<1>2. d[id] \in Seq(Chunk) /\ FileOK(d[id])
  BY <1>1 DEF Directory, Layout
<1>3. d[id][i].at >= 0 /\ 1 \in DOMAIN d[id] /\ d[id][1].at = 0
  BY <1>1, <1>2, FirstChunk, Zenon
<1>5. i \in ReadableFrom(d[id], IF id = seg THEN off ELSE 0)
  <2> DEFINE from == IF id = seg THEN off ELSE 0
  <2>1. d[id][i].at >= from /\ \E k \in DOMAIN d[id] : d[id][k].at = from
    BY <1>1, <1>3, Zenon
  <2> HIDE DEF from
  <2>2. i \in ReadableFrom(d[id], from)
    BY <1>1, <2>1, Zenon DEF ReadableFrom
  <2> QED
    BY <2>2, Zenon DEF from
<1>6. id \in Elements(segs) /\ Reads(d, seg, off, id, i)
  BY <1>1, <1>5, Zenon DEF Reads
<1>7. d[id][i].rec \in PeekAll(d, segs, seg, off)
  BY <1>6, PeekMember, Zenon
<1> QED
  BY <1>1, <1>7, ZenonT(30)

\* Writing to a file moves nothing that is in it.
Extends(d, e) ==
    \A id \in DOMAIN d :
        /\ id \in DOMAIN e
        /\ \A i \in DOMAIN d[id] : i \in DOMAIN e[id] /\ e[id][i] = d[id][i]

\* What is reached stays reached when files are extended.
LEMMA ExtendsReached ==
    ASSUME NEW d, NEW n, Directory(d, n), NEW e, Extends(d, e), NEW seg, NEW off, NEW r,
           Reached(d, seg, off, r)
    PROVE  Reached(e, seg, off, r)
<1>1. PICK id, i :
         /\ id \in DOMAIN d /\ i \in DOMAIN d[id]
         /\ d[id][i].rec = r
         /\ \A j \in 1..i : Complete(d[id][j])
         /\ id >= seg
         /\ id = seg => d[id][i].at >= off /\ \E k \in DOMAIN d[id] : d[id][k].at = off
  BY DEF Reached
<1>2. d[id] \in Seq(Chunk)
  BY <1>1 DEF Directory
<1>3. \A j \in 1..i : j \in DOMAIN d[id]
  BY <1>1, <1>2
<1>4. id \in DOMAIN e /\ \A j \in DOMAIN d[id] : j \in DOMAIN e[id] /\ e[id][j] = d[id][j]
  BY <1>1 DEF Extends
<1>5. \A j \in 1..i : Complete(e[id][j])
  BY <1>1, <1>3, <1>4
<1> QED
  BY <1>1, <1>4, <1>5, ZenonT(30) DEF Reached

\* A record in a segment behind seg is reached from any offset in seg.
LEMMA ReachedEarlier ==
    ASSUME NEW d, NEW n, Directory(d, n), NEW seg \in Nat, NEW off, NEW r, Reached(d, seg, off, r),
           NEW seg2 \in Nat, seg2 < seg, NEW off2
    PROVE  Reached(d, seg2, off2, r)
<1>1. DOMAIN d \subseteq Nat
  BY DEF Directory
<1>2. PICK id, i :
         /\ id \in DOMAIN d /\ i \in DOMAIN d[id]
         /\ d[id][i].rec = r
         /\ \A j \in 1..i : Complete(d[id][j])
         /\ id >= seg
  BY DEF Reached
<1>3. id >= seg2 /\ id # seg2
  BY <1>1, <1>2
<1> QED
  BY <1>2, <1>3 DEF Reached

\* Removing a file before the cursor loses nothing behind it.
LEMMA RemoveReached ==
    ASSUME NEW d, NEW n, Directory(d, n), NEW seg \in Nat, NEW off, NEW r, Reached(d, seg, off, r),
           NEW x \in Nat, x < seg
    PROVE  Reached([id \in DOMAIN d \ {x} |-> d[id]], seg, off, r)
<1> DEFINE e == [id \in DOMAIN d \ {x} |-> d[id]]
<1>1. DOMAIN d \subseteq Nat
  BY DEF Directory
<1>2. PICK id, i :
         /\ id \in DOMAIN d /\ i \in DOMAIN d[id]
         /\ d[id][i].rec = r
         /\ \A j \in 1..i : Complete(d[id][j])
         /\ id >= seg
         /\ id = seg => d[id][i].at >= off /\ \E k \in DOMAIN d[id] : d[id][k].at = off
  BY DEF Reached
<1>3. id \in DOMAIN e /\ e[id] = d[id]
  <2>1. id \in DOMAIN d /\ id >= seg
    BY <1>2, Zenon
  <2> QED
    BY <1>1, <2>1
<1> HIDE DEF e
<1>4. Reached(e, seg, off, r)
  BY <1>2, <1>3, Zenon DEF Reached
<1> QED
  BY <1>4 DEF e

\* What is reached from any cursor is reached from the start.
LEMMA ReachedStart ==
    ASSUME NEW d, NEW n, Directory(d, n), NEW seg, NEW off, NEW r, Reached(d, seg, off, r)
    PROVE  Reached(d, 0, 0, r)
<1>1. PICK id, i :
         /\ id \in DOMAIN d /\ i \in DOMAIN d[id]
         /\ d[id][i].rec = r
         /\ \A j \in 1..i : Complete(d[id][j])
  BY DEF Reached
<1>2. id \in Nat \ {0}
  BY <1>1 DEF Directory
<1>3. id >= 0 /\ id # 0
  BY <1>2
<1> QED
  BY <1>1, <1>3, Zenon DEF Reached

-----------------------------------------------------------------------------
(* Writing a frame *)

\* An append goes to the end of the directory, and never before the cursor.
LEMMA ActiveAbove ==
    ASSUME IInv, CInv, open
    PROVE  /\ Active \in Nat \ {0}
           /\ \A id \in DOMAIN disk : id <= Active
           /\ readSegment <= Active
           /\ \A id \in DOMAIN disk : id < Active => disk[id] # <<>>
           /\ DOMAIN disk = {} => Active = 1
<1> DEFINE back == IF segments = <<>> THEN 1 ELSE segments[Len(segments)]
<1>1. /\ segments \in Seq(Nat \ {0}) /\ readSegment \in Nat
      /\ DOMAIN disk \subseteq Nat \ {0}
      /\ Ascending(segments)
      /\ \A id \in DOMAIN disk : id >= readSegment => id \in Elements(segments)
      /\ \A id \in DOMAIN disk : disk[id] \in Seq(Chunk)
  BY DEF IInv, TypeOK, MemoryTypeOK, DiskTypeOK, SegmentsListed
<1>2. /\ Top(disk, readSegment)
      /\ DOMAIN disk = {} => Elements(segments) \subseteq {1}
      /\ \A id \in DOMAIN disk : \A s \in Elements(segments) : id < s => disk[id] # <<>>
  BY DEF CInv, Cursors, Holds, ListInv
<1>3. Active = IF SizeOf(FileAt(disk, back)) >= SegmentWords THEN back + 1 ELSE back
  BY DEF Active
<1>4. Len(segments) \in Nat /\ DOMAIN segments = 1..Len(segments)
  BY <1>1
<1>5. back \in Nat \ {0}
  BY <1>1, <1>4
<1>6. segments # <<>> => back \in Elements(segments) /\ \A s \in Elements(segments) : s <= back
  <2> SUFFICES ASSUME segments # <<>>
               PROVE  back \in Elements(segments) /\ \A s \in Elements(segments) : s <= back
    OBVIOUS
  <2>1. Len(segments) \in DOMAIN segments /\ back = segments[Len(segments)]
    BY <1>1, <1>4
  <2>2. \A i \in DOMAIN segments : segments[i] <= back
    BY <1>1, <1>4, <1>5, <2>1 DEF Ascending
  <2> QED
    BY <2>1, <2>2 DEF Elements
<1>7. Elements(segments) # {} => segments # <<>>
  BY DEF Elements
<1>8. SegmentWords \in Nat \ {0}
  BY ConstantAssumption
<1>9. CASE DOMAIN disk = {}
  <2>1. back = 1
    BY <1>2, <1>6, <1>9
  <2>2. SizeOf(FileAt(disk, back)) = 0
    BY <1>9 DEF FileAt, SizeOf
  <2>3. Active = 1
    BY <1>3, <1>8, <2>1, <2>2
  <2>4. readSegment <= 1
    BY <1>2, <1>9 DEF Top
  <2> QED
    BY <1>9, <2>3, <2>4
<1>10. CASE DOMAIN disk # {}
  <2>1. PICK top \in DOMAIN disk : top >= readSegment
    BY <1>2, <1>10 DEF Top
  <2>2. top \in Elements(segments) /\ segments # <<>>
    BY <1>1, <1>7, <2>1
  <2>3. readSegment <= back
    BY <1>1, <1>5, <1>6, <2>1, <2>2
  <2>4. \A id \in DOMAIN disk : id <= back
    BY <1>1, <1>5, <1>6, <2>2, <2>3
  <2>5. SizeOf(FileAt(disk, back)) >= SegmentWords => back \in DOMAIN disk /\ disk[back] # <<>>
    BY <1>8 DEF FileAt, SizeOf
  <2>6. \A id \in DOMAIN disk : id < back => disk[id] # <<>>
    BY <1>2, <1>6, <2>2
  <2> HIDE DEF back
  <2>7. \A id \in DOMAIN disk : id < Active => disk[id] # <<>>
    <3> SUFFICES ASSUME NEW id \in DOMAIN disk, id < Active PROVE disk[id] # <<>>
      OBVIOUS
    <3>1. CASE id < back
      BY <2>6, <3>1
    <3>2. CASE id = back
      BY <1>3, <1>5, <2>5, <3>2
    <3> QED
      BY <1>1, <1>5, <2>4, <3>1, <3>2
  <2>8. Active \in Nat \ {0} /\ Active >= back
    BY <1>3, <1>5
  <2>9. \A id \in DOMAIN disk : id <= Active
    BY <1>1, <1>5, <2>4, <2>8
  <2>10. readSegment <= Active
    BY <1>1, <1>5, <2>3, <2>8
  <2> QED
    BY <1>10, <2>7, <2>8, <2>9, <2>10
<1> QED
  BY <1>9, <1>10

\* The file an append goes to, and the chunk it adds.
Old == FileAt(disk, Active)

New(len, words) == [rec |-> nextRec, at |-> SizeOf(Old), len |-> len, words |-> words]

\* The files after (part of) a frame was written.
LEMMA WriteShape ==
    ASSUME IInv, CInv, NEW len \in Nat, NEW words \in Nat,
           NEW d, d = DiskAfterWrite(len, words)
    PROVE  /\ DOMAIN d = DOMAIN disk \cup {Active}
           /\ \A id \in DOMAIN disk : id # Active => d[id] = disk[id]
           /\ d[Active] = IF words = 0 THEN Old ELSE Append(Old, New(len, words))
           /\ Old \in Seq(Chunk) /\ FileOK(Old) /\ SizeOf(Old) \in Nat
           /\ words # 0 => New(len, words) \in Chunk
           /\ \A i \in DOMAIN Old : Old[i].rec < nextRec
           /\ Extends(disk, d)
<1>1. d = [id \in DOMAIN disk \cup {Active} |->
              IF id # Active THEN disk[id]
              ELSE IF words = 0 THEN Old ELSE Append(Old, New(len, words))]
  BY DEF DiskAfterWrite, Old, New
<1>2. Old \in Seq(Chunk) /\ SizeOf(Old) \in Nat
  BY FileType, SizeType DEF Old, IInv, TypeOK, DiskTypeOK
<1>3. FileOK(Old)
  <2>1. FileOK(<<>>)
    BY DEF FileOK
  <2> QED
    BY <2>1 DEF Old, FileAt, CInv, Layout
<1>4. words # 0 => New(len, words) \in Chunk
  BY <1>2 DEF New, Chunk, IInv, TypeOK, HistoryTypeOK
<1>5. \A i \in DOMAIN Old : Old[i].rec < nextRec
  BY DEF Old, FileAt, IInv, Directory
<1>6. Extends(disk, d)
  <2> SUFFICES ASSUME NEW id \in DOMAIN disk
               PROVE  /\ id \in DOMAIN d
                      /\ \A i \in DOMAIN disk[id] : i \in DOMAIN d[id] /\ d[id][i] = disk[id][i]
    BY DEF Extends
  <2>1. CASE id # Active \/ words = 0
    BY <1>1, <2>1 DEF Old, FileAt
  <2>2. CASE id = Active /\ words # 0
    <3>1. Old = disk[id] /\ d[id] = Append(Old, New(len, words)) /\ id \in DOMAIN d
      BY <1>1, <2>2 DEF Old, FileAt
    <3>2. \A i \in DOMAIN Old : i \in DOMAIN Append(Old, New(len, words)) /\ Append(Old, New(len, words))[i] = Old[i]
      BY <1>2, <1>4, <2>2, AppendShape
    <3> QED
      BY <3>1, <3>2
  <2> QED
    BY <2>1, <2>2
<1>7. /\ DOMAIN d = DOMAIN disk \cup {Active}
      /\ \A id \in DOMAIN disk : id # Active => d[id] = disk[id]
      /\ d[Active] = IF words = 0 THEN Old ELSE Append(Old, New(len, words))
  BY <1>1
<1> QED
  BY <1>2, <1>3, <1>4, <1>5, <1>6, <1>7

\* A frame, or part of one, leaves the files well laid out.
LEMMA WriteLayout ==
    ASSUME IInv, CInv, open, NEW len \in Nat, NEW words \in Nat, words <= Header + len,
           NEW d, d = DiskAfterWrite(len, words)
    PROVE  Layout(d)
<1> DEFINE old == Old
           new == New(len, words)
<1>a. \A id \in DOMAIN disk : id # Active => d[id] = disk[id]
  BY Zenon DEF DiskAfterWrite
<1>b. \A i \in DOMAIN old : old[i].rec < nextRec
  BY WriteShape, ZenonT(20)
<1>c. /\ DOMAIN d = DOMAIN disk \cup {Active}
      /\ d[Active] = IF words = 0 THEN old ELSE Append(old, new)
      /\ old \in Seq(Chunk) /\ FileOK(old)
      /\ words # 0 => new \in Chunk
  BY WriteShape, ZenonT(30)
<1>1. /\ DOMAIN d = DOMAIN disk \cup {Active}
      /\ \A id \in DOMAIN disk : id # Active => d[id] = disk[id]
      /\ d[Active] = IF words = 0 THEN old ELSE Append(old, new)
      /\ old \in Seq(Chunk) /\ FileOK(old)
      /\ words # 0 => new \in Chunk
      /\ \A i \in DOMAIN old : old[i].rec < nextRec
  BY <1>a, <1>b, <1>c
<1>2. /\ Active \in Nat
      /\ \A id \in DOMAIN disk : id <= Active
      /\ \A id \in DOMAIN disk : id < Active => disk[id] # <<>>
  BY ActiveAbove
<1>3. /\ DOMAIN disk \subseteq Nat
      /\ \A id \in DOMAIN disk : \A i \in DOMAIN disk[id] : disk[id][i].rec < nextRec
      /\ Layout(disk)
  BY DEF IInv, Directory, CInv
<1>4. new.at = SizeOf(old) /\ new.words = words /\ new.len = len /\ new.rec = nextRec
  BY DEF New
<1>5. Active \in DOMAIN disk => old = disk[Active]
  BY DEF Old, FileAt
<1>5a. Active \notin DOMAIN disk => DOMAIN old = {}
  BY DEF Old, FileAt
<1> HIDE DEF old, new
<1>6. FileOK(d[Active])
  BY <1>1, <1>4, AppendOK
<1>7. \A id \in DOMAIN d : FileOK(d[id])
  BY <1>1, <1>3, <1>6, Zenon DEF Layout
<1>8. \A j \in DOMAIN d[Active] : (j \in DOMAIN old /\ d[Active][j] = old[j]) \/ d[Active][j].rec = nextRec
  <2>1. CASE words = 0
    BY <1>1, <2>1
  <2>2. CASE words # 0
    <3>1. /\ Len(old) \in Nat
          /\ DOMAIN old = 1..Len(old)
          /\ DOMAIN Append(old, new) = 1..(Len(old) + 1)
          /\ Append(old, new)[Len(old) + 1] = new
          /\ \A i \in DOMAIN old : Append(old, new)[i] = old[i]
      BY <1>1, <2>2, AppendShape
    <3>2. d[Active] = Append(old, new)
      BY <1>1, <2>2
    <3> QED
      BY <1>4, <3>1, <3>2
  <2> QED
    BY <2>1, <2>2
<1>9. ASSUME NEW a \in DOMAIN d, NEW b \in DOMAIN d, a < b
      PROVE  /\ d[a] # <<>>
             /\ \A i \in DOMAIN d[a], j \in DOMAIN d[b] : d[a][i].rec < d[b][j].rec
  <2>1. a \in DOMAIN disk /\ a # Active /\ d[a] = disk[a]
    BY <1>1, <1>2, <1>3, <1>9
  <2>2. CASE b # Active
    <3>1. b \in DOMAIN disk /\ d[b] = disk[b]
      BY <1>1, <2>2
    <3> QED
      BY <1>3, <1>9, <2>1, <3>1 DEF Layout
  <2>3. CASE b = Active
    <3>1. d[a] # <<>>
      BY <1>2, <1>9, <2>1, <2>3
    <3>2. ASSUME NEW i \in DOMAIN d[a], NEW j \in DOMAIN d[b]
          PROVE  d[a][i].rec < d[b][j].rec
      <4>1. disk[a][i].rec < nextRec /\ d[a][i] = disk[a][i] /\ i \in DOMAIN disk[a]
        BY <1>3, <2>1, <3>2
      <4>2. CASE d[b][j].rec = nextRec
        BY <4>1, <4>2
      <4>3. CASE j \in DOMAIN old /\ d[b][j] = old[j]
        <5>1. Active \in DOMAIN disk /\ old = disk[Active]
          BY <1>5, <1>5a, <4>3
        <5>2. disk[a][i].rec < disk[Active][j].rec
          BY <1>3, <1>9, <2>1, <2>3, <4>1, <4>3, <5>1 DEF Layout
        <5> QED
          BY <4>1, <4>3, <5>1, <5>2
      <4> QED
        BY <1>8, <2>3, <3>2, <4>2, <4>3
    <3> QED
      BY <3>1, <3>2
  <2> QED
    BY <2>2, <2>3
<1> QED
  BY <1>7, <1>9 DEF Layout

\* A write keeps a cursor that is not behind it well placed.
LEMMA WriteFits ==
    ASSUME IInv, CInv, open, NEW len \in Nat, NEW words \in Nat,
           NEW d, d = DiskAfterWrite(len, words),
           NEW seg \in Nat, seg <= Active, NEW off \in Nat, Fits(disk, seg, off)
    PROVE  Top(d, seg) /\ Fits(d, seg, off)
<1> DEFINE old == Old
           new == New(len, words)
<1>1. /\ DOMAIN d = DOMAIN disk \cup {Active}
      /\ d[Active] = IF words = 0 THEN old ELSE Append(old, new)
      /\ old \in Seq(Chunk)
      /\ words # 0 => new \in Chunk
      /\ new.at = SizeOf(old)
  BY WriteShape, ZenonT(30) DEF New
<1>2. Active \in Nat /\ \A id \in DOMAIN disk : id <= Active
  BY ActiveAbove
<1>3. Top(d, seg)
  BY <1>1, <1>2, Zenon DEF Top
<1>4. CASE seg # Active
  <2>1. Active > seg /\ Active \in DOMAIN d
    BY <1>1, <1>2, <1>4
  <2> QED
    BY <1>3, <2>1 DEF Fits
<1>5. CASE seg = Active
  <2>1. FileAt(d, seg) = d[Active]
    BY <1>1, <1>5 DEF FileAt
  <2>2. ~\E id \in DOMAIN disk : id > seg
    BY <1>2, <1>5 DEF IInv, TypeOK, DiskTypeOK
  <2>3. off = SizeOf(old) \/ \E k \in DOMAIN old : old[k].at = off
    BY <1>5, <2>2 DEF Fits, Old
  <2>4. CASE words = 0
    BY <1>1, <1>3, <2>1, <2>3, <2>4 DEF Fits
  <2>5. CASE words # 0
    <3> HIDE DEF old, new
    <3>1. /\ Len(old) \in Nat
          /\ DOMAIN old = 1..Len(old)
          /\ DOMAIN Append(old, new) = 1..(Len(old) + 1)
          /\ Append(old, new)[Len(old) + 1] = new
          /\ \A i \in DOMAIN old : Append(old, new)[i] = old[i]
      BY <1>1, <2>5, AppendShape
    <3>2. \E k \in DOMAIN Append(old, new) : Append(old, new)[k].at = off
      BY <1>1, <2>3, <3>1
    <3>3. FileAt(d, seg) = Append(old, new)
      BY <1>1, <2>1, <2>5
    <3> QED
      BY <1>3, <3>2, <3>3 DEF Fits
  <2> QED
    BY <2>4, <2>5
<1> QED
  BY <1>4, <1>5

\* A whole frame written where nothing is torn is reached from such a cursor.
LEMMA WriteReached ==
    ASSUME IInv, CInv, open, NEW len \in Nat, ~TornIn(FileAt(disk, Active)),
           NEW d, d = DiskAfterWrite(len, Header + len),
           NEW seg \in Nat, seg <= Active, NEW off \in Nat, Fits(disk, seg, off)
    PROVE  Reached(d, seg, off, nextRec)
<1> DEFINE words == Header + len
           old == Old
           new == New(len, words)
           n == Len(old) + 1
<1>0. words \in Nat /\ words # 0 /\ d = DiskAfterWrite(len, words)
  BY DEF Header
<1> HIDE DEF words
<1>1. /\ DOMAIN d = DOMAIN disk \cup {Active}
      /\ d[Active] = Append(old, new)
      /\ old \in Seq(Chunk) /\ FileOK(old) /\ SizeOf(old) \in Nat
      /\ new \in Chunk
  BY <1>0, WriteShape, ZenonT(30)
<1>2. new.at = SizeOf(old) /\ new.words = words /\ new.len = len /\ new.rec = nextRec
  BY DEF New
<1>3. Active \in Nat /\ \A id \in DOMAIN disk : id <= Active
  BY ActiveAbove
<1>4. \A i \in DOMAIN old : Complete(old[i])
  BY DEF TornIn, Old
<1>5. Fits(d, seg, off)
  BY <1>0, WriteFits, Zenon
<1>6. seg = Active => off <= SizeOf(old)
  <2> SUFFICES ASSUME seg = Active PROVE off <= SizeOf(old)
    OBVIOUS
  <2>1. ~\E id \in DOMAIN disk : id > seg
    BY <1>3 DEF IInv, TypeOK, DiskTypeOK
  <2>2. off = SizeOf(old) \/ \E k \in DOMAIN old : old[k].at = off
    BY <2>1 DEF Fits, Old
  <2>3. ASSUME NEW k \in DOMAIN old, old[k].at = off PROVE off <= SizeOf(old)
    <3>1. old[k].at \in Nat /\ old[k].words \in Nat
      BY <1>1, ChunkType
    <3>2. old[k].at + old[k].words <= SizeOf(old)
      BY <1>1 DEF FileOK
    <3> QED
      BY <1>1, <2>3, <3>1, <3>2
  <2> QED
    BY <1>1, <2>2, <2>3
<1>7. ~\E id \in DOMAIN d : id > Active
  BY <1>1, <1>3 DEF IInv, TypeOK, DiskTypeOK
<1> HIDE DEF old, new
<1>8. /\ Len(old) \in Nat
      /\ DOMAIN old = 1..Len(old)
      /\ DOMAIN Append(old, new) = 1..n
      /\ Append(old, new)[n] = new
      /\ \A i \in DOMAIN old : Append(old, new)[i] = old[i]
      /\ SizeOf(Append(old, new)) = new.at + new.words
  BY <1>1, AppendShape
<1>9. Complete(new)
  BY <1>2 DEF Complete, words
<1>10. /\ Active \in DOMAIN d /\ n \in DOMAIN d[Active]
       /\ d[Active][n].rec = nextRec
       /\ \A j \in 1..n : Complete(d[Active][j])
  BY <1>1, <1>2, <1>4, <1>8, <1>9
<1>11. Active = seg => d[Active][n].at >= off /\ \E k \in DOMAIN d[Active] : d[Active][k].at = off
  <2> SUFFICES ASSUME Active = seg
               PROVE  d[Active][n].at >= off /\ \E k \in DOMAIN d[Active] : d[Active][k].at = off
    OBVIOUS
  <2>1. d[Active][n].at >= off
    BY <1>1, <1>2, <1>6, <1>8, Zenon
  <2>2. FileAt(d, seg) = d[Active]
    BY <1>10 DEF FileAt
  <2>3. off # SizeOf(d[Active])
    <3>1. SizeOf(d[Active]) = SizeOf(old) + words
      BY <1>1, <1>2, <1>8, Zenon
    <3>2. off <= SizeOf(old) /\ SizeOf(old) \in Nat
      BY <1>1, <1>6
    <3> QED
      BY <1>0, <3>1, <3>2
  <2> QED
    BY <1>5, <1>7, <2>1, <2>2, <2>3 DEF Fits
<1> QED
  BY <1>3, <1>10, <1>11 DEF Reached

\* The active segment ends the list.
LEMMA ActiveLast ==
    ASSUME IInv, CInv, open
    PROVE  /\ \A s \in Elements(segments) : s <= Active
           /\ WithActive # <<>> /\ WithActive[Len(WithActive)] = Active
<1> DEFINE back == IF segments = <<>> THEN 1 ELSE segments[Len(segments)]
           n == Len(segments)
<1>1. segments \in Seq(Nat \ {0}) /\ Ascending(segments)
  BY DEF IInv, TypeOK, MemoryTypeOK, SegmentsListed
<1>2. n \in Nat /\ DOMAIN segments = 1..n /\ back \in Nat
  BY <1>1
<1>3. Active = back \/ Active = back + 1
  BY DEF Active
<1>4. \A i \in DOMAIN segments : segments[i] <= back /\ (segments[i] = back => i = n)
  <2> SUFFICES ASSUME NEW i \in DOMAIN segments
               PROVE  segments[i] <= back /\ (segments[i] = back => i = n)
    OBVIOUS
  <2>1. segments # <<>> /\ n \in DOMAIN segments /\ back = segments[n]
    BY <1>1, <1>2
  <2>2. segments[i] \in Nat
    BY <1>1
  <2> QED
    BY <1>1, <1>2, <2>1, <2>2 DEF Ascending
<1>5. \A i \in DOMAIN segments : segments[i] \in Nat
  BY <1>1
<1>6. \A s \in Elements(segments) : s <= Active
  BY <1>2, <1>3, <1>4, <1>5 DEF Elements
<1>7. CASE Active \in Elements(segments)
  <2>1. PICK i \in DOMAIN segments : Active = segments[i]
    BY <1>7 DEF Elements
  <2>2. segments # <<>> /\ back = segments[n]
    BY <1>1, <1>2
  <2>3. Active = back
    BY <1>2, <1>3, <1>4, <1>5, <2>1
  <2>4. WithActive = segments
    BY <1>7 DEF WithActive
  <2> QED
    BY <1>6, <2>2, <2>3, <2>4
<1>8. CASE Active \notin Elements(segments)
  <2>1. WithActive = Append(segments, Active)
    BY <1>8 DEF WithActive
  <2>2. Active \in Nat \ {0}
    BY ActiveAbove
  <2>3. Len(WithActive) = n + 1 /\ WithActive[n + 1] = Active
    BY <1>1, <2>1, <2>2
  <2>4. Len(<<>>) = 0 /\ n + 1 # 0
    BY <1>2
  <2>5. WithActive # <<>>
    BY <2>3, <2>4, ZenonT(30)
  <2> QED
    BY <1>6, <2>3, <2>5
<1> QED
  BY <1>7, <1>8

\* What a write adds is told apart as the histories say.
LEMMA WriteContents ==
    ASSUME IInv, CInv, open, NEW len \in Nat, NEW words \in Nat,
           disk' = DiskAfterWrite(len, words),
           accepted \subseteq accepted', shadowed \subseteq shadowed', UNCHANGED evicted,
           torn' = 0 => torn = 0 /\ (words = 0 \/ words = Header + len),
           words = Header + len => nextRec \in accepted' /\ (TornIn(Old) => nextRec \in shadowed')
    PROVE  Contents'
<1>1. /\ DOMAIN disk' = DOMAIN disk \cup {Active}
      /\ disk'[Active] = IF words = 0 THEN Old ELSE Append(Old, New(len, words))
      /\ Old \in Seq(Chunk)
      /\ words # 0 => New(len, words) \in Chunk
  BY WriteShape, ZenonT(30)
<1>2. \A id \in DOMAIN disk : id # Active => disk'[id] = disk[id]
  BY WriteShape
<1>3. nextRec \notin evicted /\ Contents
  BY DEF IInv, TypeOK, HistoryTypeOK, CInv
<1>4. ASSUME NEW id \in DOMAIN disk', NEW i \in DOMAIN disk'[id], id # Active \/ words = 0
      PROVE  id \in DOMAIN disk /\ disk'[id] = disk[id]
  <2>1. CASE id # Active
    BY <1>1, <1>2, <2>1, ZenonT(30)
  <2>2. CASE id = Active /\ words = 0
    <3>1. i \in DOMAIN Old /\ disk'[id] = Old
      BY <1>1, <1>4, <2>2
    <3> QED
      BY <2>2, <3>1 DEF Old, FileAt
  <2> QED
    BY <1>4, <2>1, <2>2, Zenon
<1>5. ASSUME NEW id \in DOMAIN disk', NEW i \in DOMAIN disk'[id]
      PROVE  /\ Complete(disk'[id][i]) => disk'[id][i].rec \in accepted' \ evicted'
             /\ torn' = 0 => Complete(disk'[id][i])
             /\ \A j \in DOMAIN disk'[id] :
                  j < i /\ Complete(disk'[id][i]) /\ ~Complete(disk'[id][j]) =>
                      disk'[id][i].rec \in shadowed'
  <2>1. CASE id # Active \/ words = 0
    BY <1>3, <1>4, <1>5, <2>1, ZenonT(30) DEF Contents
  <2>2. CASE id = Active /\ words # 0
    <3> DEFINE old == Old
               new == New(len, words)
               n == Len(old) + 1
    <3>1. /\ Len(old) \in Nat
          /\ DOMAIN old = 1..Len(old)
          /\ DOMAIN Append(old, new) = 1..n
          /\ Append(old, new)[n] = new
          /\ \A k \in DOMAIN old : Append(old, new)[k] = old[k]
      BY <1>1, <2>2, AppendShape
    <3>2. disk'[id] = Append(old, new)
      BY <1>1, <2>2
    <3>3. new.rec = nextRec /\ (Complete(new) <=> words = Header + len)
      BY DEF New, Complete
    <3>4. DOMAIN old # {} => Active \in DOMAIN disk /\ old = disk[Active]
      BY DEF Old, FileAt
    <3>5. (\E k \in DOMAIN old : ~Complete(old[k])) => TornIn(Old)
      BY DEF TornIn
    <3> HIDE DEF old, new
    <3>6. CASE i = n
      <4>1. disk'[id][i] = new
        BY <3>1, <3>2, <3>6
      <4>2. ASSUME NEW j \in DOMAIN disk'[id], j < i, Complete(new), ~Complete(disk'[id][j])
            PROVE  nextRec \in shadowed'
        <5>1. j \in DOMAIN old /\ disk'[id][j] = old[j]
          BY <3>1, <3>2, <3>6, <4>2
        <5> QED
          BY <3>3, <3>5, <4>2, <5>1
      <4> QED
        BY <1>3, <2>2, <3>3, <4>1, <4>2, ZenonT(30)
    <3>7. CASE i # n
      <4>1. i \in DOMAIN old /\ disk'[id][i] = old[i]
        BY <1>5, <3>1, <3>2, <3>7
      <4>2. Active \in DOMAIN disk /\ old = disk[Active]
        BY <3>4, <4>1
      <4>3. ASSUME NEW j \in DOMAIN disk'[id], j < i
            PROVE  j \in DOMAIN old /\ disk'[id][j] = old[j]
        BY <3>1, <3>2, <4>1, <4>3
      <4>4. /\ Complete(old[i]) => old[i].rec \in accepted \ evicted
            /\ torn = 0 => Complete(old[i])
            /\ \A j \in DOMAIN old :
                  j < i /\ Complete(old[i]) /\ ~Complete(old[j]) => old[i].rec \in shadowed
        BY <1>3, <4>1, <4>2 DEF Contents
      <4> QED
        BY <4>1, <4>3, <4>4, ZenonT(30)
    <3> QED
      BY <3>6, <3>7, ZenonT(30)
  <2> QED
    BY <2>1, <2>2, Zenon
<1> QED
  BY <1>5 DEF Contents

\* A write takes nothing from either cursor.
LEMMA WriteCursors ==
    ASSUME IInv, CInv, open, NEW len \in Nat, NEW words \in Nat,
           disk' = DiskAfterWrite(len, words),
           \A r \in Due' : \/ r \in Due
                           \/ r = nextRec /\ words = Header + len /\ ~TornIn(Old),
           UNCHANGED stateFile, open' => UNCHANGED <<readSegment, readOffset>>
    PROVE  Cursors'
<1>1. /\ readSegment \in Nat /\ readOffset \in Nat /\ nextRec \in Nat \ {0}
      /\ stateFile \in StateType
      /\ Directory(disk, nextRec)
      /\ stateFile.seg \in Nat /\ stateFile.off \in Nat
      /\ stateFile.present => stateFile.seg <= readSegment
  BY DEF IInv, TypeOK, MemoryTypeOK, DiskTypeOK, HistoryTypeOK, StateType, StateNeverAhead, CursorLeq
<1>2. Active \in Nat /\ readSegment <= Active
  BY ActiveAbove
<1>3. Extends(disk, disk')
  BY WriteShape, Zenon
<1>4. Directory(disk', nextRec + 1)
  BY WriteType DEF IInv
<1>5. ASSUME NEW seg \in Nat, seg <= Active, NEW off \in Nat, Holds(disk, seg, off)
      PROVE  /\ Top(disk', seg) /\ Fits(disk', seg, off)
             /\ \A r \in Due' : Reached(disk', seg, off, r)
  <2>1. Fits(disk, seg, off) /\ \A r \in Due : Reached(disk, seg, off, r)
    BY <1>5 DEF Holds
  <2>2. Top(disk', seg) /\ Fits(disk', seg, off)
    BY <1>5, <2>1, WriteFits
  <2>3. ASSUME NEW r \in Due' PROVE Reached(disk', seg, off, r)
    <3>1. CASE r \in Due
      BY <1>1, <1>3, <2>1, <3>1, ExtendsReached
    <3>2. CASE r = nextRec /\ words = Header + len /\ ~TornIn(Old)
      BY <1>5, <2>1, <3>2, WriteReached DEF Old
    <3> QED
      BY <2>3, <3>1, <3>2
  <2> QED
    BY <2>2, <2>3
<1>6. /\ Holds(disk, readSegment, readOffset)
      /\ stateFile.present => Holds(disk, stateFile.seg, stateFile.off)
  BY DEF CInv, Cursors
<1>7. /\ Top(disk', readSegment) /\ Fits(disk', readSegment, readOffset)
      /\ \A r \in Due' : Reached(disk', readSegment, readOffset, r)
  BY <1>1, <1>2, <1>5, <1>6
<1>8. \A r \in Due' : Reached(disk', 0, 0, r)
  BY <1>4, <1>7, ReachedStart
<1>9. open' => Holds(disk, readSegment, readOffset)'
  BY <1>7 DEF Holds
<1>10. stateFile'.present => Holds(disk, stateFile.seg, stateFile.off)'
  <2> SUFFICES ASSUME stateFile.present
               PROVE  /\ Top(disk', stateFile.seg) /\ Fits(disk', stateFile.seg, stateFile.off)
                      /\ \A r \in Due' : Reached(disk', stateFile.seg, stateFile.off, r)
    BY DEF Holds
  <2>1. stateFile.seg <= Active
    BY <1>1, <1>2
  <2> QED
    BY <1>1, <1>5, <1>6, <2>1
<1> QED
  BY <1>8, <1>9, <1>10 DEF Cursors

-----------------------------------------------------------------------------
(* The inductive invariant, action by action *)

\* The list once the active segment is in it and (part of) a frame is written.
LEMMA WriteList ==
    ASSUME IInv, CInv, open, NEW len \in Nat, NEW words \in Nat,
           disk' = DiskAfterWrite(len, words), segments' = WithActive
    PROVE  ListInv'
<1>1. DOMAIN disk' = DOMAIN disk \cup {Active} /\ Active \in DOMAIN disk'
  BY WriteShape, Zenon
<1>2. \A id \in DOMAIN disk : id # Active => disk'[id] = disk[id]
  BY WriteShape
<1>3. Elements(WithActive) = Elements(segments) \cup {Active}
  BY ActiveType DEF IInv
<1>4. /\ Active \in Nat
      /\ \A id \in DOMAIN disk : id < Active => disk[id] # <<>>
  BY ActiveAbove
<1>5. /\ \A s \in Elements(segments) : s <= Active
      /\ WithActive # <<>> /\ WithActive[Len(WithActive)] = Active
  BY ActiveLast
<1>6. \A s \in Elements(segments) : s \in Nat
  BY DEF IInv, TypeOK, MemoryTypeOK, Elements
<1>7. DOMAIN disk \subseteq Nat
  BY DEF IInv, Directory
<1>8. ASSUME NEW id \in DOMAIN disk', NEW s \in Elements(segments'), id < s
      PROVE  disk'[id] # <<>>
  <2>1. s \in Nat /\ s <= Active
    BY <1>3, <1>4, <1>5, <1>6
  <2>2. id \in DOMAIN disk /\ id # Active /\ id < Active
    BY <1>1, <1>4, <1>7, <1>8, <2>1
  <2> QED
    BY <1>2, <1>4, <2>2
<1> QED
  BY <1>1, <1>5, <1>8 DEF ListInv

\* append writes a whole frame.
LEMMA AppendWriteC ==
    ASSUME IInv, CInv, NEW len \in Lens, AppendWrite(len) PROVE CInv'
<1> DEFINE words == Header + len
<1>1. len \in Nat /\ words \in Nat /\ words <= Header + len
  BY ConstantAssumption DEF Header
<1>2. /\ open
      /\ disk' = DiskAfterWrite(len, words)
      /\ segments' = WithActive
      /\ accepted' = accepted \cup {nextRec}
      /\ shadowed' = shadowed \cup (IF TornIn(Old) THEN {nextRec} ELSE {})
      /\ pc' = "bounds"
      /\ UNCHANGED <<stateFile, open, readSegment, readOffset, torn, acked, released, evicted>>
  BY DEF AppendWrite, Old
<1>a. words = Header + len
  OBVIOUS
<1> HIDE DEF words
<1>3. Layout(disk')
  BY <1>1, <1>2, WriteLayout
<1>4. Contents'
  BY <1>1, <1>2, <1>a, WriteContents
<1>5. \A r \in Due' : r \in Due \/ (r = nextRec /\ words = Header + len /\ ~TornIn(Old))
  BY <1>2, <1>a DEF Due
<1>6. Cursors'
  BY <1>1, <1>2, <1>5, WriteCursors
<1>7. ListInv'
  BY <1>1, <1>2, WriteList
<1>8. CommitInv'
  BY <1>2 DEF CommitInv
<1>9. OnlyAckedReleased'
  <2>1. released \subseteq acked \cup shadowed /\ \A r \in released \ shadowed : \A q \in Due : r < q
    BY DEF CInv, OnlyAckedReleased
  <2>2. \A r \in released : r < nextRec
    BY DEF IInv, TypeOK, HistoryTypeOK
  <2>3. released' \subseteq acked' \cup shadowed'
    BY <1>2, <2>1
  <2>4. ASSUME NEW r \in released' \ shadowed', NEW q \in Due' PROVE r < q
    BY <1>2, <1>5, <2>1, <2>2, <2>4
  <2> QED
    BY <2>3, <2>4 DEF OnlyAckedReleased
<1> QED
  BY <1>3, <1>4, <1>6, <1>7, <1>8, <1>9 DEF CInv

\* Part of a frame reaches the disk, whether the process survives it or not.
LEMMA PartialWriteC ==
    ASSUME IInv, CInv, NEW len \in Lens, NEW words \in Nat, PartialWrite(len, words),
           open' => UNCHANGED <<readSegment, readOffset>>
    PROVE  Layout(disk') /\ Contents' /\ Cursors' /\ OnlyAckedReleased'
<1>1. len \in Nat
  BY ConstantAssumption
<1>2. /\ open
      /\ words < Header + len
      /\ disk' = DiskAfterWrite(len, words)
      /\ torn' = torn + (IF words > 0 THEN 1 ELSE 0)
      /\ UNCHANGED <<stateFile, accepted, acked, released, evicted, shadowed>>
  BY DEF PartialWrite, historyVars
<1>3. words <= Header + len /\ words # Header + len
  BY <1>1, <1>2 DEF Header
<1>4. Layout(disk')
  BY <1>1, <1>2, <1>3, WriteLayout
<1>5. torn' = 0 => torn = 0 /\ words = 0
  BY <1>2 DEF IInv, TypeOK, HistoryTypeOK
<1>6. Contents'
  BY <1>1, <1>2, <1>3, <1>5, WriteContents
<1>7. Due' = Due
  BY <1>2 DEF Due
<1>8. Cursors'
  BY <1>1, <1>2, <1>7, WriteCursors
<1>9. OnlyAckedReleased'
  BY <1>2, <1>7 DEF OnlyAckedReleased, CInv
<1> QED
  BY <1>4, <1>6, <1>8, <1>9

\* append fails half way and the process goes on.
LEMMA AppendFailsC ==
    ASSUME IInv, CInv, NEW len \in Lens, NEW words \in Nat, AppendFails(len, words) PROVE CInv'
<1>1. /\ PartialWrite(len, words)
      /\ segments' = WithActive
      /\ UNCHANGED <<open, readSegment, readOffset, pc>>
  BY DEF AppendFails, callVars
<1>2. Layout(disk') /\ Contents' /\ Cursors' /\ OnlyAckedReleased'
  BY <1>1, PartialWriteC
<1>3. open /\ pc = "idle" /\ disk' = DiskAfterWrite(len, words) /\ len \in Nat
  BY <1>1, ConstantAssumption DEF PartialWrite
<1>4. ListInv'
  BY <1>1, <1>3, WriteList
<1>5. CommitInv'
  BY <1>1, <1>3, Zenon DEF CommitInv
<1> QED
  BY <1>2, <1>4, <1>5 DEF CInv

\* The process dies in the middle of a write.
LEMMA CrashMidAppendC ==
    ASSUME IInv, CInv, NEW len \in Lens, NEW words \in Nat, CrashMidAppend(len, words) PROVE CInv'
<1>1. PartialWrite(len, words) /\ ~open' /\ pc' = "idle"
  BY DEF CrashMidAppend, GoDown
<1>2. Layout(disk') /\ Contents' /\ Cursors' /\ OnlyAckedReleased'
  BY <1>1, PartialWriteC, ZenonT(30)
<1> QED
  BY <1>1, <1>2 DEF CInv, ListInv, CommitInv

\* Between two writes the process dies with the files as they are.
LEMMA CrashC == ASSUME IInv, CInv, Crash PROVE CInv'
<1>1. /\ ~open' /\ pc' = "idle"
      /\ UNCHANGED <<disk, stateFile, torn, accepted, acked, released, evicted, shadowed>>
  BY DEF Crash, GoDown, diskVars, historyVars
<1>2. Due' = Due
  BY <1>1 DEF Due
<1>3. Layout(disk)' /\ Contents' /\ OnlyAckedReleased'
  BY <1>1, <1>2, Zenon DEF CInv, Contents, OnlyAckedReleased
<1>4. Cursors'
  BY <1>1, <1>2 DEF CInv, Cursors, Holds
<1> QED
  BY <1>1, <1>3, <1>4, Zenon DEF CInv, ListInv, CommitInv

\* The segment is listed and cannot be opened.
LEMMA CannotOpenC == ASSUME IInv, CInv, AppendCannotOpen PROVE CInv'
<1>1. /\ open /\ pc = "idle"
      /\ segments' = WithActive
      /\ UNCHANGED <<disk, stateFile, open, readSegment, readOffset, pc, torn, accepted, acked,
                     released, evicted, shadowed>>
  BY DEF AppendCannotOpen, diskVars, callVars, boundVars, historyVars
<1>2. Due' = Due
  BY <1>1 DEF Due
<1>3. Layout(disk)' /\ Contents' /\ OnlyAckedReleased'
  BY <1>1, <1>2, Zenon DEF CInv, Contents, OnlyAckedReleased
<1>4. Cursors'
  BY <1>1, <1>2 DEF CInv, Cursors, Holds
<1>5. ListInv'
  <2>1. Elements(WithActive) = Elements(segments) \cup {Active}
    BY ActiveType DEF IInv
  <2>2. /\ \A id \in DOMAIN disk : id < Active => disk[id] # <<>>
        /\ DOMAIN disk = {} => Active = 1
    BY <1>1, ActiveAbove
  <2> QED
    BY <1>1, <2>1, <2>2, Zenon DEF CInv, ListInv
<1> QED
  BY <1>1, <1>3, <1>4, <1>5 DEF CInv, CommitInv

\* The start of a segment is always a place for the cursor.
LEMMA FitsStart ==
    ASSUME NEW d, NEW n, Directory(d, n), Layout(d), NEW seg
    PROVE  Fits(d, seg, 0)
<1>1. CASE seg \in DOMAIN d /\ d[seg] # <<>>
  <2>1. d[seg] \in Seq(Chunk) /\ FileOK(d[seg])
    BY <1>1, Zenon DEF Directory, Layout
  <2>2. \A file \in Seq(Chunk) : file # <<>> => 1 \in DOMAIN file
    OBVIOUS
  <2>3. 1 \in DOMAIN d[seg] /\ d[seg][1].at = 0
    BY <1>1, <2>1, <2>2, Zenon DEF FileOK
  <2> QED
    BY <1>1, <2>3, Zenon DEF Fits, FileAt
<1>2. CASE ~(seg \in DOMAIN d /\ d[seg] # <<>>)
  BY <1>2, Zenon DEF Fits, FileAt, SizeOf
<1> QED
  BY <1>1, <1>2, Zenon

\* The cursor may move to the start of a segment when no file is skipped.
LEMMA ReachedNext ==
    ASSUME NEW d, NEW n, Directory(d, n), Layout(d), NEW seg, NEW off, NEW r,
           Reached(d, seg, off, r),
           NEW front \in Nat, \A id \in DOMAIN d : id >= seg => id >= front
    PROVE  Reached(d, front, 0, r)
<1>1. PICK id, i :
         /\ id \in DOMAIN d /\ i \in DOMAIN d[id]
         /\ d[id][i].rec = r
         /\ \A j \in 1..i : Complete(d[id][j])
         /\ id >= seg
  BY Zenon DEF Reached
<1>2. d[id] \in Seq(Chunk) /\ FileOK(d[id])
  BY <1>1 DEF Directory, Layout
<1>3. d[id][i].at >= 0 /\ 1 \in DOMAIN d[id] /\ d[id][1].at = 0
  BY <1>1, <1>2, FirstChunk, Zenon
<1>4. id >= front
  BY <1>1, Zenon
<1> QED
  BY <1>1, <1>3, <1>4, Zenon DEF Reached

\* open starts where the state file says, or at the oldest file: nothing due is
\* skipped.
LEMMA OpenHolds ==
    ASSUME IInv, CInv, NEW segs \in Listings
    PROVE  LET cursor == CursorIn(segs) IN Holds(disk, cursor.seg, cursor.off)
<1> DEFINE cursor == CursorIn(segs)
           front == IF segs = <<>> THEN 1 ELSE segs[1]
           n == Cardinality(DOMAIN disk)
<1>1. /\ Directory(disk, nextRec) /\ Layout(disk) /\ DOMAIN disk \subseteq Nat \ {0}
      /\ \A r \in Due : Reached(disk, 0, 0, r)
      /\ stateFile.present => Holds(disk, stateFile.seg, stateFile.off)
  BY DEF IInv, Directory, CInv, Cursors
<1>2. n \in Nat /\ segs \in [1..n -> DOMAIN disk] /\ Ascending(segs) /\ Elements(segs) = DOMAIN disk
  BY <1>1, FS_CardinalityType DEF Listings, Directory
<1>3. CASE stateFile.present /\ (segs = <<>> \/ stateFile.seg >= front)
  <2>1. cursor = [seg |-> stateFile.seg, off |-> stateFile.off]
    BY <1>3 DEF CursorIn
  <2>2. Holds(disk, stateFile.seg, stateFile.off)
    BY <1>1, <1>3, Zenon
  <2>3. cursor.seg = stateFile.seg /\ cursor.off = stateFile.off
    BY <2>1
  <2> QED
    BY <2>2, <2>3, ZenonT(30)
<1>4. CASE ~(stateFile.present /\ (segs = <<>> \/ stateFile.seg >= front))
  <2>1. cursor = [seg |-> front, off |-> 0]
    BY <1>4 DEF CursorIn
  <2>2. front \in Nat /\ \A id \in DOMAIN disk : id >= front
    <3>1. CASE segs = <<>>
      <4>1. DOMAIN disk = {}
        <5>1. Elements(<<>>) = {}
          BY DEF Elements
        <5> QED
          BY <1>2, <3>1, <5>1, Zenon
      <4>2. front = 1
        BY <3>1, Zenon
      <4> HIDE DEF front
      <4> QED
        BY <4>1, <4>2
    <3>2. CASE segs # <<>>
      <4>1. n # 0
        BY <1>2, <3>2
      <4>2. 1 \in DOMAIN segs /\ DOMAIN segs = 1..n /\ front = segs[1]
        BY <1>2, <3>2, <4>1
      <4>3. front \in Nat /\ \A i \in DOMAIN segs : segs[i] \in Nat
        BY <1>1, <1>2, <4>2
      <4>4. \A i \in DOMAIN segs : segs[i] >= segs[1]
        BY <1>2, <4>2, <4>3 DEF Ascending
      <4> QED
        BY <1>2, <4>2, <4>3, <4>4 DEF Elements
    <3> QED
      BY <3>1, <3>2
  <2>3. Top(disk, front)
    <3>1. CASE segs = <<>>
      BY <1>2, <3>1 DEF Elements, Top
    <3>2. CASE segs # <<>>
      <4>1. DOMAIN disk # {}
        <5>1. n # 0
          BY <1>2, <3>2
        <5> QED
          BY <1>2, <5>1
      <4> QED
        BY <2>2, <4>1 DEF Top
    <3> QED
      BY <3>1, <3>2
  <2>4. Fits(disk, front, 0)
    BY <1>1, FitsStart
  <2>5. \A r \in Due : Reached(disk, front, 0, r)
    BY <1>1, <2>2, ReachedNext
  <2> HIDE DEF front
  <2>6. cursor.seg = front /\ cursor.off = 0
    BY <2>1
  <2>7. Holds(disk, front, 0)
    BY <2>3, <2>4, <2>5, Zenon DEF Holds
  <2> QED
    BY <2>6, <2>7, Zenon
<1> QED
  BY <1>3, <1>4

\* The spool is opened.
LEMMA OpenC == ASSUME IInv, CInv, Open PROVE CInv'
<1>1. PICK segs \in Listings :
         /\ segments' = segs
         /\ readSegment' = CursorIn(segs).seg
         /\ readOffset' = CursorIn(segs).off
  BY ZenonT(30) DEF Open
<1>2. /\ pc' = "idle"
      /\ UNCHANGED <<disk, stateFile, torn, accepted, acked, released, evicted, shadowed>>
  BY DEF Open, diskVars, callVars, boundVars, historyVars, IInv, CallsOpen
<1>3. Due' = Due
  BY <1>2 DEF Due
<1>4. Layout(disk)' /\ Contents' /\ OnlyAckedReleased'
  BY <1>2, <1>3, Zenon DEF CInv, Contents, OnlyAckedReleased
<1>5. Holds(disk, CursorIn(segs).seg, CursorIn(segs).off)
  BY OpenHolds, Zenon
<1>6. Cursors'
  BY <1>1, <1>2, <1>3, <1>5, ZenonT(30) DEF CInv, Cursors, Holds
<1>7. ListInv'
  <2>1. Elements(segs) = DOMAIN disk
    BY DEF Listings
  <2>2. Layout(disk)
    BY DEF CInv
  <2> QED
    BY <1>1, <1>2, <2>1, <2>2, Zenon DEF ListInv, Layout
<1> QED
  BY <1>2, <1>4, <1>6, <1>7, Zenon DEF CInv, CommitInv

\* Counting the pending records, the end of enforce_bounds, save_state, and the
\* end of commit's loop.
LEMMA SaveC ==
    ASSUME IInv, CInv, ReadStats \/ WithinBounds \/ SaveSteps \/ CommitStop PROVE CInv'
<1>1. /\ UNCHANGED <<disk, open, segments, readSegment, readOffset, torn,
                     accepted, acked, released, evicted, shadowed>>
      /\ pc' \in {"idle", "save", "rename"}
      /\ open
      /\ stateFile' \in {stateFile, MemoryState, NoState}
  <2>1. CASE WithinBounds
    BY <2>1 DEF WithinBounds, diskVars, memoryVars, boundVars, historyVars, IInv, CallsOpen
  <2>2. CASE SaveState
    BY <2>2, Zenon DEF SaveState, memoryVars, boundVars, historyVars, IInv, CallsOpen
  <2>3. CASE SaveRemove
    BY <2>3 DEF SaveRemove, memoryVars, boundVars, historyVars, IInv, CallsOpen
  <2>4. CASE SaveRename
    BY <2>4 DEF SaveRename, memoryVars, boundVars, historyVars, IInv, CallsOpen
  <2>5. CASE SaveFails
    BY <2>5 DEF SaveFails, diskVars, memoryVars, boundVars, historyVars, IInv, CallsOpen
  <2>6. CASE CommitStop
    BY <2>6 DEF CommitStop, CommitLeaves, diskVars, memoryVars, boundVars, historyVars, IInv, CallsOpen
  <2>7. CASE ReadStats
    BY <2>7 DEF ReadStats, diskVars, callVars, boundVars, historyVars
  <2> QED
    BY <2>1, <2>2, <2>3, <2>4, <2>5, <2>6, <2>7, ZenonT(30) DEF SaveSteps
<1>2. Due' = Due
  BY <1>1 DEF Due
<1>3. Layout(disk)' /\ Contents' /\ OnlyAckedReleased'
  BY <1>1, <1>2, Zenon DEF CInv, Contents, OnlyAckedReleased
<1>4. Holds(disk, readSegment, readOffset) /\ (stateFile.present => Holds(disk, stateFile.seg, stateFile.off))
  BY <1>1, Zenon DEF CInv, Cursors
<1>5. stateFile'.present => Holds(disk, stateFile'.seg, stateFile'.off)
  <2>1. CASE stateFile' = stateFile
    BY <1>4, <2>1, Zenon
  <2>2. CASE stateFile' = MemoryState
    <3>1. MemoryState.seg = readSegment /\ MemoryState.off = readOffset
      BY DEF MemoryState
    <3> QED
      BY <1>4, <2>2, <3>1, Zenon
  <2>3. CASE stateFile' = NoState
    <3>1. NoState.present = FALSE
      BY DEF NoState
    <3> QED
      BY <2>3, <3>1, Zenon
  <2> QED
    BY <1>1, <2>1, <2>2, <2>3, Zenon
<1>6. Cursors'
  BY <1>1, <1>2, <1>4, <1>5, Zenon DEF CInv, Cursors, Holds
<1>7. ListInv' /\ CommitInv'
  BY <1>1, Zenon DEF CInv, ListInv, CommitInv
<1> QED
  BY <1>3, <1>6, <1>7, Zenon DEF CInv

\* commit is asked to release what was just peeked.
LEMMA CommitStartC ==
    ASSUME IInv, CInv, NEW count \in 1..Cardinality(Pending), CommitStart(count) PROVE CInv'
<1>1. /\ open /\ pc' = "commit" /\ remaining' = count /\ acked' = acked \cup Peek(count)
      /\ count \in 1..Cardinality(Pending)
      /\ UNCHANGED <<disk, stateFile, open, segments, readSegment, readOffset, torn,
                     accepted, released, evicted, shadowed>>
  BY DEF CommitStart, diskVars, memoryVars, boundVars
<1>2. Due' = Due /\ Pending' = Pending
  BY <1>1 DEF Due, Pending
<1>3. Layout(disk)' /\ Contents' /\ OnlyAckedReleased'
  BY <1>1, <1>2, ZenonT(30) DEF CInv, Contents, OnlyAckedReleased
<1>4. Cursors'
  BY <1>1, <1>2 DEF CInv, Cursors, Holds
<1>5. Peek(remaining)' = Peek(count)
  BY <1>1, <1>2, Zenon DEF Peek
<1>6. count <= Cardinality(Pending) /\ Peek(count) \subseteq acked'
  BY <1>1
<1>7. CommitInv'
  BY <1>1, <1>2, <1>5, <1>6, ZenonT(30) DEF CommitInv
<1>8. ListInv'
  BY <1>1, Zenon DEF CInv, ListInv
<1> QED
  BY <1>3, <1>4, <1>7, <1>8, Zenon DEF CInv

=============================================================================
