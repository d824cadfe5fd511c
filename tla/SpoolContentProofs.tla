------------------------- MODULE SpoolContentProofs -------------------------
(***************************************************************************)
(* Proofs about what the files of module Spool hold, continued: removing a *)
(* segment, passing a frame and moving the cursor keep CInv.  With the     *)
(* actions that SpoolProofs has, CInv is inductive once IInv holds.  No    *)
(* record that is due is lost, only acknowledged ones are released, and    *)
(* the cursor stays within the active segment.                             *)
(***************************************************************************)
EXTENDS SpoolProofs

\* How long, in seconds, the provers may take for a leaf.
USE SMTT(20), ZenonT(20)

-----------------------------------------------------------------------------
(* Removing a segment *)

\* The directory without segment x.
Without(d, x) == [id \in DOMAIN d \ {x} |-> d[id]]

\* The other files are as they were.
LEMMA WithoutShape ==
    ASSUME NEW d, NEW x
    PROVE  /\ DOMAIN Without(d, x) = DOMAIN d \ {x}
           /\ \A id \in DOMAIN Without(d, x) : id \in DOMAIN d /\ Without(d, x)[id] = d[id]
           /\ \A id : id # x => FileAt(Without(d, x), id) = FileAt(d, id)
<1>1. DOMAIN Without(d, x) = DOMAIN d \ {x}
  BY DEF Without
<1>2. \A id \in DOMAIN d \ {x} : Without(d, x)[id] = d[id]
  BY DEF Without
<1> QED
  BY <1>1, <1>2 DEF FileAt

\* They are laid out as before.
LEMMA WithoutLayout ==
    ASSUME NEW d, NEW x, Layout(d)
    PROVE  Layout(Without(d, x))
<1>1. \A id \in DOMAIN Without(d, x) : id \in DOMAIN d /\ Without(d, x)[id] = d[id]
  BY WithoutShape, Zenon
<1> QED
  BY <1>1, Zenon DEF Layout

\* A cursor behind x stays well placed.
LEMMA WithoutFits ==
    ASSUME NEW d, NEW n, Directory(d, n), NEW x \in Nat, NEW seg \in Nat, x < seg, NEW off
    PROVE  /\ Top(d, seg) => Top(Without(d, x), seg)
           /\ Fits(d, seg, off) => Fits(Without(d, x), seg, off)
<1>1. DOMAIN d \subseteq Nat
  BY DEF Directory
<1>2. DOMAIN Without(d, x) = DOMAIN d \ {x} /\ FileAt(Without(d, x), seg) = FileAt(d, seg)
  <2>1. seg # x
    OBVIOUS
  <2>2. \A id : id # x => FileAt(Without(d, x), id) = FileAt(d, id)
    BY WithoutShape, Zenon
  <2> QED
    BY <2>1, <2>2, WithoutShape, Zenon
<1>3. ASSUME Top(d, seg) PROVE Top(Without(d, x), seg)
  BY <1>1, <1>2, <1>3 DEF Top
<1>4. ASSUME Fits(d, seg, off) PROVE Fits(Without(d, x), seg, off)
  BY <1>1, <1>2, <1>4 DEF Fits
<1> QED
  BY <1>3, <1>4

\* A cursor before a file that exists is well placed at any offset.
LEMMA EarlierFits ==
    ASSUME NEW d, NEW n, Directory(d, n), NEW seg \in Nat, NEW id \in DOMAIN d, id > seg, NEW off
    PROVE  Top(d, seg) /\ Fits(d, seg, off)
<1>1. id \in Nat /\ id >= seg
  BY DEF Directory
<1> QED
  BY <1>1 DEF Top, Fits

\* What peek finds from the start of a segment is reached from there.
LEMMA FoundReached ==
    ASSUME NEW d, NEW n, Directory(d, n), NEW segs, NEW seg, NEW r, r \in PeekAll(d, segs, seg, 0)
    PROVE  Reached(d, seg, 0, r)
<1>1. PICK id, i : Reads(d, seg, 0, id, i) /\ d[id][i].rec = r
  BY PeekMember
<1>2. id \in DOMAIN d /\ i \in DOMAIN d[id] /\ id >= seg /\ i \in ReadableFrom(d[id], 0)
  BY <1>1 DEF Reads
<1>3. d[id] \in Seq(Chunk)
  BY <1>2 DEF Directory
<1>4. \A j \in 1..i : j \in DOMAIN d[id]
  BY <1>2, <1>3
<1>5. \A j \in 1..i : d[id][j].at \in Nat
  BY <1>3, <1>4, ChunkType
<1>6. \A j \in 1..i : Complete(d[id][j])
  BY <1>2, <1>5 DEF ReadableFrom
<1> QED
  BY <1>1, <1>2, <1>6, Zenon DEF Reached, ReadableFrom

\* No record lies in two places.
LEMMA OnePlace ==
    ASSUME NEW d, NEW n, Directory(d, n), Layout(d),
           NEW a \in DOMAIN d, NEW i \in DOMAIN d[a], NEW b \in DOMAIN d, NEW j \in DOMAIN d[b],
           d[a][i].rec = d[b][j].rec
    PROVE  a = b /\ i = j
<1>1. a \in Nat /\ b \in Nat /\ d[a] \in Seq(Chunk) /\ d[b] \in Seq(Chunk)
  BY DEF Directory
<1>2. d[a][i].rec \in Nat /\ i \in Nat /\ j \in Nat
  BY <1>1, ChunkType
<1>3. a = b
  BY <1>1, <1>2 DEF Layout
<1>4. FileOK(d[a])
  BY DEF Layout
<1> QED
  BY <1>2, <1>3, <1>4 DEF FileOK

\* What is left when enforce_bounds has deleted the oldest segment, and what
\* peek finds there.
Rest == Tail(segments)
Left == Without(disk, segments[1])
Still == PeekAll(Left, Rest, Rest[1], 0)

\* One turn of enforce_bounds.
LEMMA EvictShape ==
    ASSUME IInv, CInv, Evict
    PROVE  /\ open /\ pc = "bounds"
           /\ disk' = Left /\ segments' = Rest
           /\ UNCHANGED <<stateFile, open, pc, remaining, advanced, nextRec, crashes, torn,
                          accepted, acked, released, shadowed>>
           /\ segments[1] \in Nat /\ Rest[1] \in Nat /\ segments[1] < Rest[1]
           /\ Rest # <<>> /\ Rest[Len(Rest)] = segments[Len(segments)]
           /\ Rest[Len(Rest)] \in DOMAIN Left /\ Rest[Len(Rest)] >= Rest[1]
           /\ \A s : s \in Elements(Rest) <=> s \in Elements(segments) /\ s # segments[1]
           /\ \A s \in Elements(Rest) : s >= Rest[1]
           /\ \/ /\ readSegment <= segments[1]
                 /\ readSegment' = Rest[1]
                 /\ readOffset' = 0
                 /\ evicted' = evicted \cup (Pending \ Still)
              \/ /\ readSegment > segments[1]
                 /\ UNCHANGED <<readSegment, readOffset, stats, evicted>>
<1>1. /\ pc = "bounds"
      /\ Len(segments) > 1
      /\ disk' = Left
      /\ segments' = Rest
      /\ UNCHANGED <<stateFile, open, pc, remaining, advanced, nextRec, crashes, torn,
                     accepted, acked, released, shadowed>>
  BY DEF Evict, EvictOldest, OverBudget, callVars, boundVars, Left, Rest, Without
<1>2. \/ /\ readSegment <= segments[1]
         /\ readSegment' = Rest[1]
         /\ readOffset' = 0
         /\ evicted' = evicted \cup (Pending \ Still)
      \/ /\ ~(readSegment <= segments[1])
         /\ UNCHANGED <<readSegment, readOffset, stats, evicted>>
  BY Zenon DEF Evict, EvictOldest, Left, Rest, Still, Without
<1>3. segments \in Seq(Nat \ {0}) /\ readSegment \in Nat
  BY DEF IInv, TypeOK, MemoryTypeOK
<1>4. open /\ Ascending(segments) /\ segments[Len(segments)] \in DOMAIN disk
  BY <1>1, Zenon DEF IInv, CallsOpen, SegmentsListed, CInv, ListInv
<1> DEFINE n == Len(segments)
<1>5. n \in Nat /\ n > 1 /\ DOMAIN segments = 1..n /\ \A i \in 1..n : segments[i] \in Nat
  BY <1>1, <1>3
<1>6. /\ Len(Rest) = n - 1 /\ DOMAIN Rest = 1..(n - 1)
      /\ \A i \in 1..(n - 1) : Rest[i] = segments[i + 1]
  BY <1>3, <1>5 DEF Rest
<1>7. Rest # <<>>
  <2>1. Len(<<>>) = 0 /\ n - 1 # 0
    BY <1>5
  <2> QED
    BY <1>6, <2>1, Zenon
<1>8. \A i, j \in 1..n : i < j => segments[i] < segments[j]
  BY <1>4, <1>5 DEF Ascending
<1> HIDE DEF n
<1>9. segments[1] \in Nat /\ Rest[1] = segments[2] /\ Rest[1] \in Nat /\ segments[1] < Rest[1]
  BY <1>5, <1>6, <1>8
<1>10. Rest[Len(Rest)] = segments[n]
  BY <1>5, <1>6
<1>11. Rest[Len(Rest)] >= Rest[1]
  <2>1. n = 2 \/ segments[2] < segments[n]
    BY <1>5, <1>8
  <2> QED
    BY <1>5, <1>9, <1>10, <2>1
<1>12. Rest[Len(Rest)] \in DOMAIN Left
  <2>1. segments[n] # segments[1]
    BY <1>5, <1>8
  <2>2. DOMAIN Left = DOMAIN disk \ {segments[1]}
    BY WithoutShape, ZenonT(30) DEF Left
  <2>3. segments[n] \in DOMAIN disk
    BY <1>4 DEF n
  <2> QED
    BY <1>10, <2>1, <2>2, <2>3, Zenon
<1>13. ASSUME NEW s \in Elements(Rest)
       PROVE  s \in Elements(segments) /\ s # segments[1] /\ s >= Rest[1]
  <2>1. PICK i \in 1..(n - 1) : s = segments[i + 1]
    BY <1>6, <1>13 DEF Elements
  <2>2. i + 1 \in 1..n /\ (i = 1 \/ segments[2] < segments[i + 1]) /\ segments[1] < segments[i + 1]
    BY <1>5, <1>8, <2>1
  <2> QED
    BY <1>5, <1>9, <2>1, <2>2 DEF Elements
<1>14. ASSUME NEW s \in Elements(segments), s # segments[1]
       PROVE  s \in Elements(Rest)
  <2>1. PICK i \in 1..n : s = segments[i]
    BY <1>5, <1>14 DEF Elements
  <2>2. i - 1 \in 1..(n - 1) /\ Rest[i - 1] = segments[i]
    BY <1>5, <1>6, <1>14, <2>1
  <2> QED
    BY <1>6, <2>1, <2>2, Zenon DEF Elements
<1>15. readSegment <= segments[1] \/ readSegment > segments[1]
  BY <1>3, <1>9
<1> QED
  BY <1>1, <1>2, <1>3, <1>4, <1>7, <1>9, <1>10, <1>11, <1>12, <1>13, <1>14 DEF n

\* When the cursor moves on, the records that go are those of the deleted
\* segment: what peek finds afterwards it found before, and what it no longer
\* finds is no longer on disk.
LEMMA EvictedGone ==
    ASSUME IInv, CInv, Evict, readSegment <= segments[1]
    PROVE  /\ Still \subseteq Pending
           /\ \A id \in DOMAIN Left : \A i \in DOMAIN Left[id] : Left[id][i].rec \notin Pending \ Still
<1>1. /\ segments[1] \in Nat /\ Rest[1] \in Nat /\ segments[1] < Rest[1]
      /\ \A s : s \in Elements(Rest) <=> s \in Elements(segments) /\ s # segments[1]
      /\ \A s \in Elements(Rest) : s >= Rest[1]
  BY EvictShape
<1>2. \A id \in DOMAIN Left : id \in DOMAIN disk /\ id # segments[1] /\ Left[id] = disk[id]
  <2>1. DOMAIN Left = DOMAIN disk \ {segments[1]}
    BY WithoutShape, ZenonT(30) DEF Left
  <2>2. \A id \in DOMAIN Left : Left[id] = disk[id]
    BY WithoutShape, Zenon DEF Left
  <2> QED
    BY <2>1, <2>2
<1>3. readSegment \in Nat /\ DOMAIN disk \subseteq Nat /\ Directory(disk, nextRec) /\ Layout(disk)
  BY DEF IInv, TypeOK, MemoryTypeOK, Directory, CInv
<1>4. ASSUME NEW id \in Elements(Rest), id \in DOMAIN disk
      PROVE  id > readSegment /\ id >= readSegment /\ id # readSegment
  BY <1>1, <1>3, <1>4
<1>5. ASSUME NEW r \in Still PROVE r \in Pending
  <2>1. PICK id \in Elements(Rest) : \E i : Reads(Left, Rest[1], 0, id, i) /\ Left[id][i].rec = r
    BY <1>5, PeekMember DEF Still
  <2>2. PICK i : Reads(Left, Rest[1], 0, id, i) /\ Left[id][i].rec = r
    BY <2>1
  <2>3. id \in DOMAIN Left /\ i \in DOMAIN Left[id] /\ i \in ReadableFrom(Left[id], 0)
    BY <2>2 DEF Reads
  <2>4. Reads(disk, readSegment, readOffset, id, i) /\ disk[id][i].rec = r /\ id \in Elements(segments)
    BY <1>1, <1>2, <1>4, <2>1, <2>2, <2>3, ZenonT(30) DEF Reads
  <2> QED
    BY <2>4, PeekMember DEF Pending
<1>6. ASSUME NEW id \in DOMAIN Left, NEW i \in DOMAIN Left[id], Left[id][i].rec \in Pending
      PROVE  Left[id][i].rec \in Still
  <2>1. id \in DOMAIN disk /\ id # segments[1] /\ Left[id] = disk[id] /\ i \in DOMAIN disk[id]
    BY <1>2, <1>6
  <2>2. PICK b \in Elements(segments) : \E j : Reads(disk, readSegment, readOffset, b, j)
                                             /\ disk[b][j].rec = disk[id][i].rec
    BY <1>6, <2>1, PeekMember DEF Pending
  <2>3. PICK j : Reads(disk, readSegment, readOffset, b, j) /\ disk[b][j].rec = disk[id][i].rec
    BY <2>2, Zenon
  <2>4. b \in DOMAIN disk /\ j \in DOMAIN disk[b]
    BY <2>3 DEF Reads
  <2>5. b = id /\ j = i
    BY <1>3, <2>1, <2>3, <2>4, OnePlace, Zenon
  <2>6. id \in Elements(Rest) /\ id >= Rest[1]
    BY <1>1, <2>1, <2>2, <2>5, Zenon
  <2>7. i \in ReadableFrom(disk[id], 0)
    BY <1>4, <2>1, <2>3, <2>5, <2>6, ZenonT(30) DEF Reads
  <2>8. Reads(Left, Rest[1], 0, id, i)
    BY <1>6, <2>1, <2>6, <2>7 DEF Reads
  <2> QED
    BY <2>6, <2>8, PeekMember DEF Still
<1> QED
  BY <1>5, <1>6

\* enforce_bounds deletes the oldest segment.
LEMMA EvictC == ASSUME IInv, CInv, Evict PROVE CInv'
<1>1. /\ open /\ pc = "bounds"
      /\ disk' = Left /\ segments' = Rest
      /\ UNCHANGED <<stateFile, open, pc, remaining, advanced, nextRec, crashes, torn,
                     accepted, acked, released, shadowed>>
      /\ segments[1] \in Nat /\ Rest[1] \in Nat /\ segments[1] < Rest[1]
      /\ Rest # <<>> /\ Rest[Len(Rest)] = segments[Len(segments)]
      /\ Rest[Len(Rest)] \in DOMAIN Left /\ Rest[Len(Rest)] >= Rest[1]
  BY EvictShape
<1>2. \A s \in Elements(Rest) : s \in Elements(segments)
  BY EvictShape
<1>3. \/ /\ readSegment <= segments[1]
         /\ readSegment' = Rest[1]
         /\ readOffset' = 0
         /\ evicted' = evicted \cup (Pending \ Still)
      \/ /\ readSegment > segments[1]
         /\ UNCHANGED <<readSegment, readOffset, stats, evicted>>
  BY EvictShape
<1>4. /\ Directory(disk, nextRec) /\ Layout(disk) /\ DOMAIN disk \subseteq Nat
      /\ readSegment \in Nat /\ readOffset \in Nat /\ stateFile.seg \in Nat /\ stateFile.off \in Nat
      /\ stateFile.present => stateFile.seg <= readSegment
  <2>1. stateFile.seg \in Nat /\ stateFile.off \in Nat
    BY DEF IInv, TypeOK, DiskTypeOK, StateType
  <2>2. readSegment \in Nat /\ readOffset \in Nat
    BY DEF IInv, TypeOK, MemoryTypeOK
  <2>3. stateFile.present => stateFile.seg <= readSegment
    BY <1>1, <2>1, <2>2 DEF IInv, StateNeverAhead, CursorLeq
  <2>4. Directory(disk, nextRec) /\ Layout(disk) /\ DOMAIN disk \subseteq Nat
    BY DEF IInv, Directory, CInv
  <2> QED
    BY <2>1, <2>2, <2>3, <2>4
<1>5. Directory(Left, nextRec) /\ Layout(Left)
  BY <1>4, RemoveType, WithoutLayout, Zenon DEF Left, Without
<1>6. \A id \in DOMAIN Left : id \in DOMAIN disk /\ Left[id] = disk[id]
  BY WithoutShape, Zenon DEF Left
<1>7. Due' \subseteq Due
  BY <1>1, <1>3 DEF Due
<1>8. Contents'
  <2>1. \A id \in DOMAIN Left : \A i \in DOMAIN Left[id] : Left[id][i].rec \in evicted' => Left[id][i].rec \in evicted
    BY <1>3, EvictedGone
  <2>2. Contents
    BY DEF CInv
  <2> QED
    BY <1>1, <1>6, <2>1, <2>2 DEF Contents
<1>9. ListInv'
  BY <1>1, <1>2, <1>6 DEF CInv, ListInv
<1>10. OnlyAckedReleased' /\ CommitInv'
  BY <1>1, <1>7 DEF CInv, OnlyAckedReleased, CommitInv
<1>11. /\ Holds(disk, readSegment, readOffset)
       /\ stateFile.present => Holds(disk, stateFile.seg, stateFile.off)
  BY <1>1 DEF CInv, Cursors
<1>12. ASSUME readSegment <= segments[1] PROVE Cursors'
  <2>1. readSegment' = Rest[1] /\ readOffset' = 0 /\ evicted' = evicted \cup (Pending \ Still)
    BY <1>1, <1>3, <1>4, <1>12
  <2>2. \A r \in Due' : Reached(Left, Rest[1], 0, r)
    <3> TAKE r \in Due'
    <3>1. r \in Due /\ r \notin Pending \ Still
      BY <1>7, <2>1 DEF Due
    <3>2. Reached(disk, readSegment, readOffset, r)
      BY <1>11, <3>1 DEF Holds
    <3>3. \A id \in DOMAIN disk : id >= readSegment => id \in Elements(segments)
      BY <1>1 DEF IInv, SegmentsListed
    <3>4. r \in Pending
      BY <1>4, <3>2, <3>3, ReachedFound DEF Pending
    <3> QED
      BY <1>5, <3>1, <3>4, FoundReached DEF Still
  <2>3. Top(Left, Rest[1]) /\ Fits(Left, Rest[1], 0)
    BY <1>1, <1>5, FitsStart DEF Top
  <2>4. ASSUME stateFile.present
        PROVE  /\ Top(Left, stateFile.seg) /\ Fits(Left, stateFile.seg, stateFile.off)
               /\ \A r \in Due' : Reached(Left, stateFile.seg, stateFile.off, r)
    <3>1. stateFile.seg < Rest[1]
      BY <1>1, <1>4, <1>12, <2>4
    <3>2. Rest[Len(Rest)] > stateFile.seg
      BY <1>1, <1>4, <1>6, <3>1
    <3>3. Top(Left, stateFile.seg) /\ Fits(Left, stateFile.seg, stateFile.off)
      BY <1>1, <1>4, <1>5, <3>2, EarlierFits
    <3>4. \A r \in Due' : Reached(Left, stateFile.seg, stateFile.off, r)
      BY <1>1, <1>4, <1>5, <2>2, <3>1, ReachedEarlier
    <3> QED
      BY <3>3, <3>4
  <2>5. \A r \in Due' : Reached(Left, 0, 0, r)
    BY <1>5, <2>2, ReachedStart
  <2> QED
    BY <1>1, <2>1, <2>2, <2>3, <2>4, <2>5 DEF Cursors, Holds
<1>13. ASSUME readSegment > segments[1] PROVE Cursors'
  <2>1. UNCHANGED <<readSegment, readOffset, evicted>>
    BY <1>1, <1>3, <1>4, <1>13
  <2>2. segments[1] < readSegment
    BY <1>1, <1>4, <1>13
  <2>3. ASSUME NEW seg \in Nat, segments[1] < seg, NEW off \in Nat, Holds(disk, seg, off)
        PROVE  /\ Top(Left, seg) /\ Fits(Left, seg, off)
               /\ \A r \in Due' : Reached(Left, seg, off, r)
    <3>1. Top(Left, seg) /\ Fits(Left, seg, off)
      BY <1>1, <1>4, <2>3, WithoutFits DEF Left, Holds
    <3>2. \A r \in Due' : Reached(disk, seg, off, r)
      BY <1>7, <2>3 DEF Holds
    <3>3. \A r \in Due' : Reached(Left, seg, off, r)
      BY <1>1, <1>4, <2>3, <3>2, RemoveReached, ZenonT(30) DEF Left, Without
    <3> QED
      BY <3>1, <3>3
  <2>4. /\ Top(Left, readSegment) /\ Fits(Left, readSegment, readOffset)
        /\ \A r \in Due' : Reached(Left, readSegment, readOffset, r)
    BY <1>4, <1>11, <2>2, <2>3
  <2>5. ASSUME stateFile.present
        PROVE  /\ Top(Left, stateFile.seg) /\ Fits(Left, stateFile.seg, stateFile.off)
               /\ \A r \in Due' : Reached(Left, stateFile.seg, stateFile.off, r)
    <3>1. CASE stateFile.seg = readSegment
      BY <1>4, <1>11, <2>2, <2>3, <2>5, <3>1
    <3>2. CASE stateFile.seg < readSegment
      <4>1. PICK id \in DOMAIN Left : id >= readSegment
        BY <1>1, <2>4 DEF Top
      <4>2. id > stateFile.seg
        BY <1>4, <1>6, <3>2, <4>1
      <4>3. Top(Left, stateFile.seg) /\ Fits(Left, stateFile.seg, stateFile.off)
        BY <1>4, <1>5, <4>2, EarlierFits
      <4>4. \A r \in Due' : Reached(Left, stateFile.seg, stateFile.off, r)
        BY <1>4, <1>5, <2>4, <3>2, ReachedEarlier
      <4> QED
        BY <4>3, <4>4
    <3> QED
      BY <1>4, <2>5, <3>1, <3>2
  <2>6. \A r \in Due' : Reached(Left, 0, 0, r)
    BY <1>5, <2>4, ReachedStart
  <2> QED
    BY <1>1, <2>1, <2>4, <2>5, <2>6 DEF Cursors, Holds
<1>14. Cursors'
  BY <1>3, <1>12, <1>13
<1> QED
  BY <1>1, <1>5, <1>8, <1>9, <1>10, <1>14 DEF CInv

(* commit passes a frame *)

\* The chunks at or behind the start of chunk k are k and those that follow it.
LEMMA FromChunk ==
    ASSUME NEW file \in Seq(Chunk), FileOK(file), NEW k \in DOMAIN file
    PROVE  /\ \A i \in DOMAIN file : file[i].at >= file[k].at <=> i >= k
           /\ \A i \in DOMAIN file : i > k => file[i].at >= file[k].at + file[k].words
           /\ \A i \in DOMAIN file : i > k =>
                 \E m \in DOMAIN file : file[m].at = file[k].at + file[k].words
<1>1. \A i \in DOMAIN file : file[i].at \in Nat /\ file[i].words \in Nat \ {0} /\ i \in Nat
  BY ChunkType
<1>2. ASSUME NEW i \in DOMAIN file, i > k PROVE file[i].at >= file[k].at + file[k].words
  BY <1>1, <1>2 DEF FileOK
<1>3. ASSUME NEW i \in DOMAIN file PROVE file[i].at >= file[k].at <=> i >= k
  <2>1. CASE i > k
    BY <1>1, <1>2, <2>1
  <2>2. CASE i = k
    BY <1>1, <2>2
  <2>3. CASE i < k
    <3>1. file[i].at + file[i].words <= file[k].at
      BY <2>3 DEF FileOK
    <3>2. /\ file[i].at \in Nat /\ file[i].words \in Nat \ {0}
          /\ file[k].at \in Nat /\ i \in Nat /\ k \in Nat
      BY <1>1
    <3> QED
      BY <2>3, <3>1, <3>2
  <2> QED
    BY <1>1, <2>1, <2>2, <2>3
<1>4. ASSUME NEW i \in DOMAIN file, i > k
      PROVE  \E m \in DOMAIN file : file[m].at = file[k].at + file[k].words
  <2>1. file[i].at >= file[k].at + file[k].words
    BY <1>2, <1>4
  <2>2. file[i].at + file[i].words <= SizeOf(file) /\ SizeOf(file) \in Nat
    BY SizeType DEF FileOK
  <2>3. /\ file[i].at \in Nat /\ file[i].words \in Nat \ {0}
        /\ file[k].at \in Nat /\ file[k].words \in Nat
    BY <1>1
  <2>4. file[k].at + file[k].words # SizeOf(file)
    BY <2>1, <2>2, <2>3
  <2> QED
    BY <2>4 DEF FileOK
<1> QED
  BY <1>2, <1>3, <1>4

\* Behind a complete frame peek reads on where it would have.
LEMMA PassComplete ==
    ASSUME NEW file \in Seq(Chunk), FileOK(file), NEW k \in DOMAIN file, Complete(file[k])
    PROVE  /\ k \in ReadableFrom(file, file[k].at)
           /\ ReadableFrom(file, file[k].at + file[k].words) = ReadableFrom(file, file[k].at) \ {k}
<1> DEFINE off == file[k].at
           next == file[k].at + file[k].words
<1>1. /\ \A i \in DOMAIN file : file[i].at >= off <=> i >= k
      /\ \A i \in DOMAIN file : i > k => file[i].at >= next
      /\ \A i \in DOMAIN file : i > k => \E m \in DOMAIN file : file[m].at = next
  BY FromChunk
<1>2. /\ DOMAIN file = 1..Len(file) /\ Len(file) \in Nat
      /\ \A i \in DOMAIN file : file[i].at \in Nat /\ i \in Nat
      /\ off \in Nat /\ next \in Nat /\ off < next
  <2>1. file[k].at \in Nat /\ file[k].words \in Nat \ {0}
    BY ChunkType
  <2>2. \A i \in DOMAIN file : file[i].at \in Nat
    BY ChunkType
  <2> QED
    BY <2>1, <2>2
<1>3. off = file[k].at
  OBVIOUS
<1> HIDE DEF off, next
<1>4. k \in ReadableFrom(file, off)
  <2>1. \A j \in 1..k : file[j].at >= off => j = k
    BY <1>1, <1>2
  <2>2. file[k].at >= off
    BY <1>1, <1>2
  <2> QED
    BY <1>3, <2>1, <2>2 DEF ReadableFrom
<1>5. ASSUME NEW i \in ReadableFrom(file, next) PROVE i \in ReadableFrom(file, off) /\ i # k
  <2>1. i \in DOMAIN file /\ file[i].at >= next
    BY <1>5 DEF ReadableFrom
  <2>2. i # k /\ file[i].at >= off
    BY <1>2, <1>3, <2>1
  <2>3. ASSUME NEW j \in 1..i, file[j].at >= off PROVE Complete(file[j])
    <3>1. j \in DOMAIN file /\ j >= k
      BY <1>1, <1>2, <2>1, <2>3
    <3>2. CASE j = k
      BY <3>2
    <3>3. CASE j > k
      BY <1>1, <1>5, <3>1, <3>3 DEF ReadableFrom
    <3> QED
      BY <1>2, <3>1, <3>2, <3>3
  <2> QED
    BY <1>3, <2>1, <2>2, <2>3 DEF ReadableFrom
<1>6. ASSUME NEW i \in ReadableFrom(file, off), i # k PROVE i \in ReadableFrom(file, next)
  <2>1. i \in DOMAIN file /\ file[i].at >= off
    BY <1>6 DEF ReadableFrom
  <2>2. i > k
    BY <1>1, <1>2, <1>6, <2>1
  <2>3. file[i].at >= next /\ \E m \in DOMAIN file : file[m].at = next
    BY <1>1, <2>1, <2>2
  <2>4. ASSUME NEW j \in 1..i, file[j].at >= next PROVE Complete(file[j])
    <3>1. j \in DOMAIN file
      BY <1>2, <2>1
    <3>2. file[j].at >= off
      BY <1>2, <2>4, <3>1
    <3> QED
      BY <1>6, <3>2 DEF ReadableFrom
  <2> QED
    BY <2>1, <2>3, <2>4 DEF ReadableFrom
<1> QED
  BY <1>4, <1>5, <1>6 DEF off, next

\* A torn frame ends the reading, and what a jump over it may land on lies
\* behind it.
LEMMA PassTorn ==
    ASSUME NEW file \in Seq(Chunk), FileOK(file), NEW k \in DOMAIN file, ~Complete(file[k]),
           NEW next \in Nat, next > file[k].at
    PROVE  /\ ReadableFrom(file, file[k].at) = {}
           /\ \A i \in ReadableFrom(file, next) : i \in DOMAIN file /\ i > k /\ Complete(file[i])
<1>1. \A i \in DOMAIN file : file[i].at >= file[k].at <=> i >= k
  BY FromChunk
<1>2. /\ DOMAIN file = 1..Len(file) /\ Len(file) \in Nat
      /\ \A i \in DOMAIN file : file[i].at \in Nat
  BY ChunkType
<1>3. ASSUME NEW i \in ReadableFrom(file, file[k].at) PROVE FALSE
  <2>1. i \in DOMAIN file /\ file[i].at >= file[k].at
    BY <1>3 DEF ReadableFrom
  <2>2. k \in 1..i /\ file[k].at >= file[k].at
    BY <1>1, <1>2, <2>1
  <2> QED
    BY <1>3, <2>2 DEF ReadableFrom
<1>4. ASSUME NEW i \in ReadableFrom(file, next)
      PROVE  i \in DOMAIN file /\ i > k /\ Complete(file[i])
  <2>1. i \in DOMAIN file /\ file[i].at >= next
    BY <1>4 DEF ReadableFrom
  <2>2. file[i].at >= file[k].at /\ i # k
    BY <1>2, <2>1
  <2>3. i > k
    BY <1>1, <1>2, <2>1, <2>2
  <2>4. i \in 1..i
    BY <1>2, <2>1
  <2>5. Complete(file[i])
    BY <1>4, <2>1, <2>4 DEF ReadableFrom
  <2> QED
    BY <2>1, <2>3, <2>5
<1> QED
  BY <1>3, <1>4

\* commit passes chunk k of the segment the cursor is in.
Passes(k) ==
    LET file == disk[readSegment] IN
    /\ readSegment \in DOMAIN disk /\ k \in DOMAIN file
    /\ file[k].at = readOffset
    /\ readOffset' \in Nat /\ readOffset' > readOffset
    /\ Complete(file[k]) => readOffset' = readOffset + file[k].words
    /\ released' = released \cup (IF Complete(file[k]) THEN {file[k].rec} ELSE {})

\* One turn of commit's loop that reads a header.
LEMMA FrameShape ==
    ASSUME IInv, CInv, CommitFrame
    PROVE  /\ open /\ pc = "commit" /\ remaining \in Nat /\ remaining > 0
           /\ remaining' = remaining - 1
           /\ UNCHANGED <<disk, stateFile, open, segments, readSegment, pc, nextRec, crashes, torn,
                          accepted, acked, evicted, shadowed>>
           /\ \E k : Passes(k)
<1>1. PICK k \in HeadersAtCursor :
         LET c   == disk[readSegment][k]
             len == IF c.words = 1 THEN MagicAsLength ELSE c.len
         IN  /\ readOffset' = readOffset + Header + len
             /\ released' = released \cup (IF Complete(c) THEN {c.rec} ELSE {})
  BY DEF CommitFrame, PassFrame
<1>2. /\ pc = "commit" /\ remaining > 0
      /\ remaining' = remaining - 1
      /\ UNCHANGED <<disk, stateFile, open, segments, readSegment, pc, nextRec, crashes, torn,
                     accepted, acked, evicted, shadowed>>
  BY DEF CommitFrame, PassFrame, diskVars, boundVars
<1>3. open /\ remaining \in Nat /\ readOffset \in Nat
  BY <1>2 DEF IInv, CallsOpen, TypeOK, MemoryTypeOK
<1>4. /\ readSegment \in DOMAIN disk /\ k \in DOMAIN disk[readSegment]
      /\ disk[readSegment][k].at = readOffset
  BY DEF HeadersAtCursor, FileAt
<1> DEFINE c == disk[readSegment][k]
           len == IF c.words = 1 THEN MagicAsLength ELSE c.len
<1>5. c.len \in Nat /\ c.words \in Nat
  <2>1. disk[readSegment] \in Seq(Chunk)
    BY <1>4 DEF IInv, Directory
  <2> QED
    BY <1>4, <2>1, ChunkType
<1>6. len \in Nat
  BY <1>5, SMTT(20) DEF MagicAsLength
<1>7. readOffset' = readOffset + Header + len
  BY <1>1
<1>8. Complete(c) => len = c.len /\ c.words = Header + c.len
  BY <1>5 DEF Complete, Header
<1> HIDE DEF len
<1>9. readOffset' \in Nat /\ readOffset' > readOffset
  BY <1>3, <1>6, <1>7 DEF Header
<1>10. Complete(c) => readOffset' = readOffset + c.words
  BY <1>3, <1>5, <1>7, <1>8 DEF Header
<1>11. released' = released \cup (IF Complete(c) THEN {c.rec} ELSE {})
  BY <1>1
<1>12. Passes(k)
  BY <1>4, <1>9, <1>10, <1>11 DEF Passes
<1> QED
  BY <1>2, <1>3, <1>12

\* What passing a frame does to the records peek finds.  A complete frame's
\* record is the oldest of them and the only one to go; a jump over a torn one
\* loses none and may bring back shadowed ones.
LEMMA FramePending ==
    ASSUME IInv, CInv, CommitFrame, NEW k, Passes(k)
    PROVE  LET c == disk[readSegment][k] IN
           /\ c.rec \in Nat
           /\ Complete(c) => /\ c.rec \in Pending
                             /\ Pending' = Pending \ {c.rec}
                             /\ \A r \in Pending : r >= c.rec
           /\ ~Complete(c) => /\ Pending \subseteq Pending'
                              /\ Pending' \subseteq Pending \cup shadowed
                              /\ ~\E i : Reads(disk, readSegment, readOffset, readSegment, i)
<1> DEFINE file == disk[readSegment]
           c == file[k]
<1>1. /\ readSegment \in DOMAIN disk /\ k \in DOMAIN file
      /\ c.at = readOffset
      /\ readOffset' \in Nat /\ readOffset' > readOffset
      /\ Complete(c) => readOffset' = readOffset + c.words
  BY DEF Passes
<1>2. open /\ UNCHANGED <<disk, segments, readSegment>>
  BY FrameShape
<1>3. /\ Directory(disk, nextRec) /\ Layout(disk) /\ Contents
      /\ readSegment \in Nat /\ DOMAIN disk \subseteq Nat
      /\ readSegment \in Elements(segments)
  BY <1>1, <1>2 DEF IInv, TypeOK, MemoryTypeOK, Directory, CInv, SegmentsListed
<1>4. file \in Seq(Chunk) /\ FileOK(file)
  BY <1>1, <1>3 DEF Directory, Layout
<1>5. c.rec \in Nat
  BY <1>1, <1>4, ChunkType
<1>6. ASSUME NEW id, id # readSegment, NEW i
      PROVE  Reads(disk, readSegment, readOffset, id, i) <=> Reads(disk, readSegment, readOffset', id, i)
  BY <1>6 DEF Reads
<1>7. \A off : \A i : Reads(disk, readSegment, off, readSegment, i) <=> i \in ReadableFrom(file, off)
  <2>1. readSegment >= readSegment
    BY <1>3
  <2> QED
    BY <1>1, <2>1 DEF Reads, ReadableFrom
<1>8. \A r : r \in Pending <=>
         \E id \in Elements(segments) : \E i : Reads(disk, readSegment, readOffset, id, i) /\ disk[id][i].rec = r
  BY PeekMember DEF Pending
<1>9. \A r : r \in Pending' <=>
         \E id \in Elements(segments) : \E i : Reads(disk, readSegment, readOffset', id, i) /\ disk[id][i].rec = r
  <2>1. Pending' = PeekAll(disk, segments, readSegment, readOffset')
    BY <1>2 DEF Pending
  <2> QED
    BY <2>1, PeekMember
<1> HIDE DEF c, file
<1>10. ASSUME Complete(c)
       PROVE  /\ c.rec \in Pending
              /\ Pending' = Pending \ {c.rec}
              /\ \A r \in Pending : r >= c.rec
  <2>1. /\ k \in ReadableFrom(file, readOffset)
        /\ ReadableFrom(file, readOffset') = ReadableFrom(file, readOffset) \ {k}
    BY <1>1, <1>4, <1>10, PassComplete DEF c
  <2>2. c.rec \in Pending
    BY <1>3, <1>7, <1>8, <2>1 DEF c, file
  <2>3. ASSUME NEW id, NEW i, Reads(disk, readSegment, readOffset, id, i), id # readSegment \/ i # k
        PROVE  disk[id][i].rec > c.rec /\ disk[id][i].rec \in Nat
    <3>1. id \in DOMAIN disk /\ id >= readSegment /\ i \in DOMAIN disk[id] /\ id \in Nat
      BY <1>3, <2>3 DEF Reads
    <3>2. disk[id][i].rec \in Nat
      <4>1. disk[id] \in Seq(Chunk)
        BY <1>3, <3>1 DEF Directory
      <4> QED
        BY <3>1, <4>1, ChunkType
    <3>3. CASE id # readSegment
      <4>1. readSegment < id
        BY <1>3, <3>1, <3>3
      <4>2. c.rec < disk[id][i].rec
        BY <1>1, <1>3, <3>1, <4>1 DEF Layout, c, file
      <4> QED
        BY <1>5, <3>2, <4>2
    <3>4. CASE id = readSegment
      <4>1. i \in ReadableFrom(file, readOffset) /\ i # k /\ i \in DOMAIN file
        BY <1>7, <2>3, <3>1, <3>4 DEF file
      <4>2. file[i].at >= c.at /\ c.at = readOffset
        BY <1>1, <4>1 DEF ReadableFrom
      <4>3. i >= k
        BY <1>1, <1>4, <4>1, <4>2, FromChunk DEF c
      <4>4. k < i
        BY <1>1, <1>4, <4>1, <4>3
      <4>5. c.rec < file[i].rec
        BY <1>1, <1>4, <4>1, <4>4 DEF FileOK, c
      <4> QED
        BY <1>5, <3>2, <3>4, <4>5 DEF file
    <3> QED
      BY <3>3, <3>4
  <2>4. ASSUME NEW r \in Pending PROVE r >= c.rec
    <3>1. PICK id \in Elements(segments) : \E i : Reads(disk, readSegment, readOffset, id, i) /\ disk[id][i].rec = r
      BY <1>8, <2>4
    <3>2. PICK i : Reads(disk, readSegment, readOffset, id, i) /\ disk[id][i].rec = r
      BY <3>1
    <3>3. CASE id = readSegment /\ i = k
      BY <1>5, <3>2, <3>3 DEF c, file
    <3>4. CASE ~(id = readSegment /\ i = k)
      BY <1>5, <2>3, <3>2, <3>4
    <3> QED
      BY <3>3, <3>4
  <2>5. ASSUME NEW r \in Pending, r # c.rec PROVE r \in Pending'
    <3>1. PICK id \in Elements(segments) : \E i : Reads(disk, readSegment, readOffset, id, i) /\ disk[id][i].rec = r
      BY <1>8, <2>5
    <3>2. PICK i : Reads(disk, readSegment, readOffset, id, i) /\ disk[id][i].rec = r
      BY <3>1
    <3>3. Reads(disk, readSegment, readOffset', id, i)
      <4>1. CASE id # readSegment
        BY <1>6, <3>2, <4>1
      <4>2. CASE id = readSegment
        <5>1. i # k
          BY <2>5, <3>2, <4>2 DEF c, file
        <5> QED
          BY <1>7, <2>1, <3>2, <4>2, <5>1
      <4> QED
        BY <4>1, <4>2
    <3> QED
      BY <1>9, <3>1, <3>2, <3>3
  <2>6. ASSUME NEW r \in Pending' PROVE r \in Pending /\ r # c.rec
    <3>1. PICK id \in Elements(segments) : \E i : Reads(disk, readSegment, readOffset', id, i) /\ disk[id][i].rec = r
      BY <1>9, <2>6
    <3>2. PICK i : Reads(disk, readSegment, readOffset', id, i) /\ disk[id][i].rec = r
      BY <3>1
    <3>3. Reads(disk, readSegment, readOffset, id, i) /\ (id # readSegment \/ i # k)
      <4>1. CASE id # readSegment
        BY <1>6, <3>2, <4>1
      <4>2. CASE id = readSegment
        BY <1>7, <2>1, <3>2, <4>2
      <4> QED
        BY <4>1, <4>2
    <3>4. r > c.rec /\ r \in Nat
      BY <2>3, <3>2, <3>3
    <3> QED
      BY <1>5, <1>8, <3>1, <3>2, <3>3, <3>4
  <2> QED
    BY <2>2, <2>4, <2>5, <2>6
<1>11. ASSUME ~Complete(c)
       PROVE  /\ Pending \subseteq Pending'
              /\ Pending' \subseteq Pending \cup shadowed
              /\ ~\E i : Reads(disk, readSegment, readOffset, readSegment, i)
  <2>1. /\ ReadableFrom(file, readOffset) = {}
        /\ \A i \in ReadableFrom(file, readOffset') : i \in DOMAIN file /\ i > k /\ Complete(file[i])
    BY <1>1, <1>4, <1>11, PassTorn DEF c
  <2>2. ~\E i : Reads(disk, readSegment, readOffset, readSegment, i)
    BY <1>7, <2>1
  <2>3. ASSUME NEW r \in Pending PROVE r \in Pending'
    <3>1. PICK id \in Elements(segments) : \E i : Reads(disk, readSegment, readOffset, id, i) /\ disk[id][i].rec = r
      BY <1>8, <2>3
    <3>2. id # readSegment
      BY <2>2, <3>1
    <3> QED
      BY <1>6, <1>9, <3>1, <3>2
  <2>4. ASSUME NEW r \in Pending', r \notin Pending PROVE r \in shadowed
    <3>1. PICK id \in Elements(segments) : \E i : Reads(disk, readSegment, readOffset', id, i) /\ disk[id][i].rec = r
      BY <1>9, <2>4
    <3>2. PICK i : Reads(disk, readSegment, readOffset', id, i) /\ disk[id][i].rec = r
      BY <3>1
    <3>3. id = readSegment
      BY <1>6, <1>8, <2>4, <3>1, <3>2
    <3>4. i \in DOMAIN file /\ i > k /\ Complete(file[i])
      BY <1>7, <2>1, <3>2, <3>3
    <3>5. k < i
      BY <1>1, <1>4, <3>4
    <3> QED
      BY <1>1, <1>3, <1>11, <3>2, <3>3, <3>4, <3>5, ZenonT(30) DEF Contents, c, file
  <2> QED
    BY <2>2, <2>3, <2>4
<1> QED
  BY <1>5, <1>10, <1>11 DEF c, file

\* What is due is pending.
LEMMA DuePending ==
    ASSUME IInv, CInv, open
    PROVE  Due \subseteq Pending
<1>1. /\ Directory(disk, nextRec) /\ Layout(disk)
      /\ readSegment \in Nat /\ readOffset \in Nat
      /\ \A id \in DOMAIN disk : id >= readSegment => id \in Elements(segments)
      /\ \A r \in Due : Reached(disk, readSegment, readOffset, r)
  BY DEF IInv, TypeOK, MemoryTypeOK, SegmentsListed, CInv, Cursors, Holds
<1> QED
  BY <1>1, ReachedFound DEF Pending

\* Behind the frame commit passed, the cursor still fits and misses nothing due.
LEMMA FrameHolds ==
    ASSUME IInv, CInv, CommitFrame, NEW k, Passes(k)
    PROVE  Holds(disk, readSegment, readOffset)'
<1> DEFINE file == disk[readSegment]
           c == file[k]
<1>1. /\ readSegment \in DOMAIN disk /\ k \in DOMAIN file
      /\ c.at = readOffset
      /\ readOffset' \in Nat
      /\ Complete(c) => readOffset' = readOffset + c.words
      /\ released' = released \cup (IF Complete(c) THEN {c.rec} ELSE {})
  BY DEF Passes
<1>2. /\ open /\ remaining \in Nat /\ remaining > 0 /\ pc = "commit"
      /\ UNCHANGED <<disk, segments, readSegment, accepted, evicted, shadowed>>
  BY FrameShape
<1>3. /\ Directory(disk, nextRec) /\ Layout(disk)
      /\ readSegment \in Nat /\ DOMAIN disk \subseteq Nat
      /\ remaining <= Cardinality(Pending)
      /\ Top(disk, readSegment)
      /\ \A r \in Due : Reached(disk, readSegment, readOffset, r)
  BY <1>2, ZenonT(30) DEF IInv, TypeOK, MemoryTypeOK, Directory, CInv, CommitInv, Cursors, Holds
<1>4. file \in Seq(Chunk) /\ FileOK(file)
  BY <1>1, <1>3 DEF Directory, Layout
<1>5. ~Complete(c) => ~\E i : Reads(disk, readSegment, readOffset, readSegment, i)
  BY FramePending, Zenon
<1> HIDE DEF c
<1>6. Fits(disk, readSegment, readOffset')
  <2> SUFFICES ASSUME ~\E id \in DOMAIN disk : id > readSegment
               PROVE  Fits(disk, readSegment, readOffset')
    BY DEF Fits
  <2>1. Pending # {}
    BY <1>2, <1>3, FS_EmptySet
  <2>2. PICK r : r \in Pending
    BY <2>1
  <2>3. PICK id \in Elements(segments) : \E i : Reads(disk, readSegment, readOffset, id, i) /\ disk[id][i].rec = r
    BY <2>2, PeekMember DEF Pending
  <2>4. id \in DOMAIN disk /\ id >= readSegment
    BY <2>3 DEF Reads
  <2>5. id = readSegment
    BY <1>3, <2>4
  <2>6. Complete(c)
    BY <1>5, <2>3, <2>5
  <2>7. readOffset' = c.at + c.words
    BY <1>1, <2>6
  <2>8. FileAt(disk, readSegment) = file
    BY <1>1 DEF FileAt
  <2> QED
    BY <1>1, <1>4, <2>7, <2>8, ZenonT(30) DEF Fits, FileOK, c
<1>7. ASSUME NEW r \in Due' PROVE Reached(disk, readSegment, readOffset', r)
  <2>1. r \in Due /\ (Complete(c) => r # c.rec)
    BY <1>1, <1>2, <1>7, ZenonT(30) DEF Due
  <2>2. PICK id \in DOMAIN disk : \E i \in DOMAIN disk[id] :
           /\ disk[id][i].rec = r
           /\ \A j \in 1..i : Complete(disk[id][j])
           /\ id >= readSegment
           /\ id = readSegment =>
                disk[id][i].at >= readOffset /\ \E m \in DOMAIN disk[id] : disk[id][m].at = readOffset
    BY <1>3, <2>1 DEF Reached
  <2>3. PICK i \in DOMAIN disk[id] :
           /\ disk[id][i].rec = r
           /\ \A j \in 1..i : Complete(disk[id][j])
           /\ id >= readSegment
           /\ id = readSegment => disk[id][i].at >= readOffset
    BY <2>2
  <2>4. CASE id # readSegment
    BY <2>3, <2>4 DEF Reached
  <2>5. CASE id = readSegment
    <3>1. file[i].at >= c.at /\ i \in DOMAIN file
      BY <1>1, <2>3, <2>5, ZenonT(30)
    <3>2. i >= k
      BY <1>1, <1>4, <3>1, FromChunk DEF c
    <3>3. k \in 1..i
      BY <1>1, <1>4, <3>1, <3>2
    <3>4. Complete(c)
      BY <2>3, <2>5, <3>3 DEF c
    <3>5. i # k
      BY <2>1, <2>3, <2>5, <3>4 DEF c
    <3>6. i > k
      BY <1>1, <1>4, <3>1, <3>2, <3>5
    <3>7. /\ file[i].at >= c.at + c.words
          /\ \E m \in DOMAIN file : file[m].at = c.at + c.words
      BY <1>1, <1>4, <3>1, <3>6, FromChunk, ZenonT(30) DEF c
    <3>8. readOffset' = c.at + c.words
      BY <1>1, <3>4
    <3> QED
      BY <2>3, <2>5, <3>7, <3>8 DEF Reached
  <2> QED
    BY <2>4, <2>5
<1> QED
  BY <1>2, <1>3, <1>6, <1>7 DEF Holds

\* What commit has still to pass stays there, and stays acknowledged.
LEMMA FrameCommit ==
    ASSUME IInv, CInv, CommitFrame, NEW k, Passes(k)
    PROVE  CommitInv'
<1> DEFINE c == disk[readSegment][k]
           Before(r) == {q \in Pending : q < r}
           After(r) == {q \in Pending' : q < r}
<1>1. /\ open /\ remaining \in Nat /\ remaining > 0 /\ pc = "commit"
      /\ remaining' = remaining - 1
      /\ UNCHANGED <<disk, segments, readSegment, nextRec, acked, shadowed>>
  BY FrameShape
<1>2. /\ remaining <= Cardinality(Pending)
      /\ Peek(remaining) \subseteq acked \cup shadowed
      /\ Directory(disk, nextRec) /\ nextRec \in Nat \ {0}
  BY <1>1 DEF IInv, TypeOK, HistoryTypeOK, CInv, CommitInv
<1>3. /\ IsFiniteSet(Pending) /\ Pending \subseteq Nat /\ Cardinality(Pending) \in Nat
  <2>1. IsFiniteSet(Pending) /\ Pending \subseteq 1..(nextRec - 1) /\ Cardinality(Pending) \in Nat
    BY <1>2, PeekType DEF Pending
  <2> QED
    BY <2>1
<1>4. /\ IsFiniteSet(Pending') /\ Pending' \subseteq Nat /\ Cardinality(Pending') \in Nat
  <2>1. Pending' = PeekAll(disk, segments, readSegment, readOffset')
    BY <1>1 DEF Pending
  <2>2. IsFiniteSet(Pending') /\ Pending' \subseteq 1..(nextRec - 1) /\ Cardinality(Pending') \in Nat
    BY <1>2, <2>1, PeekType
  <2> QED
    BY <2>2
<1>5. /\ c.rec \in Nat
      /\ Complete(c) => /\ c.rec \in Pending
                        /\ Pending' = Pending \ {c.rec}
                        /\ \A r \in Pending : r >= c.rec
      /\ ~Complete(c) => /\ Pending \subseteq Pending'
                         /\ Pending' \subseteq Pending \cup shadowed
  BY FramePending, Zenon
<1> HIDE DEF c
<1>6. \A r : /\ IsFiniteSet(Before(r)) /\ Cardinality(Before(r)) \in Nat
             /\ IsFiniteSet(After(r)) /\ Cardinality(After(r)) \in Nat
  <2>1. \A r : Before(r) \subseteq Pending /\ After(r) \subseteq Pending'
    OBVIOUS
  <2> QED
    BY <1>3, <1>4, <2>1, FS_Subset, FS_CardinalityType
<1>7. \A r : r \in Peek(remaining) <=> r \in Pending /\ Cardinality(Before(r)) < remaining
  BY DEF Peek
<1>8. \A r : r \in Peek(remaining)' <=> r \in Pending' /\ Cardinality(After(r)) < remaining - 1
  BY <1>1 DEF Peek
<1>9. CASE Complete(c)
  <2>1. Cardinality(Pending') = Cardinality(Pending) - 1
    BY <1>3, <1>5, <1>9, FS_RemoveElement, ZenonT(30)
  <2>2. ASSUME NEW r \in Peek(remaining)' PROVE r \in Peek(remaining)
    <3>1. r \in Pending' /\ Cardinality(After(r)) < remaining - 1 /\ r \in Pending /\ r # c.rec
      BY <1>5, <1>8, <1>9, <2>2
    <3>2. c.rec < r
      BY <1>3, <1>5, <1>9, <3>1
    <3>3. Before(r) = After(r) \cup {c.rec} /\ c.rec \notin After(r)
      BY <1>5, <1>9, <3>2
    <3>4. Cardinality(Before(r)) = Cardinality(After(r)) + 1
      <4>1. IsFiniteSet(After(r))
        BY <1>6, Zenon
      <4> HIDE DEF After, Before
      <4> QED
        BY <3>3, <4>1, FS_AddElement
    <3>5. Cardinality(After(r)) \in Nat
      BY <1>6, Zenon
    <3>6. Cardinality(Before(r)) < remaining
      BY <1>1, <3>1, <3>4, <3>5
    <3> QED
      BY <1>7, <3>1, <3>6
  <2>3. remaining' <= Cardinality(Pending)'
    BY <1>1, <1>2, <1>3, <2>1
  <2> QED
    BY <1>1, <1>2, <2>2, <2>3 DEF CommitInv
<1>10. CASE ~Complete(c)
  <2>1. Cardinality(Pending) <= Cardinality(Pending')
    BY <1>4, <1>5, <1>10, FS_Subset
  <2>2. ASSUME NEW r \in Peek(remaining)' PROVE r \in acked \cup shadowed
    <3>1. r \in Pending' /\ Cardinality(After(r)) < remaining - 1
      BY <1>8, <2>2
    <3>2. CASE r \in Pending
      <4>1. Before(r) \subseteq After(r)
        BY <1>5, <1>10
      <4>2. Cardinality(Before(r)) <= Cardinality(After(r))
        BY <1>6, <4>1, FS_Subset
      <4>3. Cardinality(Before(r)) \in Nat /\ Cardinality(After(r)) \in Nat
        BY <1>6, Zenon
      <4>4. Cardinality(Before(r)) < remaining
        BY <1>1, <3>1, <4>2, <4>3
      <4> QED
        BY <1>2, <1>7, <3>2, <4>4
    <3>3. CASE r \notin Pending
      BY <1>5, <1>10, <3>1, <3>3
    <3> QED
      BY <3>2, <3>3
  <2>3. remaining' <= Cardinality(Pending)'
    BY <1>1, <1>2, <1>3, <1>4, <2>1
  <2> QED
    BY <1>1, <2>2, <2>3 DEF CommitInv
<1> QED
  BY <1>9, <1>10

\* commit passes a frame: the record it carries was acknowledged, and older
\* than all that are due.
LEMMA CommitFrameC == ASSUME IInv, CInv, CommitFrame PROVE CInv'
<1>1. PICK k : Passes(k)
  BY FrameShape
<1> DEFINE c == disk[readSegment][k]
<1>2. /\ open /\ pc = "commit" /\ remaining \in Nat /\ remaining > 0
      /\ UNCHANGED <<disk, stateFile, open, segments, readSegment, pc, nextRec, crashes, torn,
                     accepted, acked, evicted, shadowed>>
  BY FrameShape
<1>3. released' = released \cup (IF Complete(c) THEN {c.rec} ELSE {})
  BY <1>1 DEF Passes
<1>4. Due' \subseteq Due /\ (Complete(c) => c.rec \notin Due')
  BY <1>2, <1>3 DEF Due
<1>5. Cursors'
  <2>1. Holds(disk, readSegment, readOffset)'
    BY <1>1, FrameHolds
  <2>2. stateFile.present => Holds(disk, stateFile.seg, stateFile.off)'
    BY <1>2, <1>4, ZenonT(30) DEF CInv, Cursors, Holds
  <2>3. \A r \in Due' : Reached(disk, 0, 0, r)
    BY <1>4 DEF CInv, Cursors
  <2> QED
    BY <1>2, <2>1, <2>2, <2>3 DEF Cursors
<1>6. CommitInv'
  BY <1>1, FrameCommit
<1>7. OnlyAckedReleased'
  <2>1. OnlyAckedReleased
    BY DEF CInv
  <2>2. CASE ~Complete(c)
    BY <1>2, <1>3, <1>4, <2>1, <2>2 DEF OnlyAckedReleased
  <2>3. CASE Complete(c)
    <3>1. /\ c.rec \in Nat /\ c.rec \in Pending
          /\ \A r \in Pending : r >= c.rec
      BY <1>1, <2>3, FramePending
    <3>2. Pending \subseteq Nat
      <4>1. Pending \subseteq 1..(nextRec - 1) /\ nextRec \in Nat
        BY PeekType DEF IInv, TypeOK, HistoryTypeOK, Pending
      <4> QED
        BY <4>1
    <3> HIDE DEF c
    <3>3. \A q \in Pending : q \in Nat /\ ~(q < c.rec) /\ (q # c.rec => c.rec < q)
      <4> TAKE q \in Pending
      <4>1. q \in Nat /\ q >= c.rec
        BY <3>1, <3>2
      <4> QED
        BY <3>1, <4>1
    <3>4. c.rec \in Peek(remaining)
      <4>1. {q \in Pending : q < c.rec} = {}
        BY <3>3
      <4>2. Cardinality({q \in Pending : q < c.rec}) = 0
        BY <4>1, FS_EmptySet
      <4> QED
        BY <1>2, <3>1, <4>2 DEF Peek
    <3>5. c.rec \in acked \cup shadowed
      BY <1>2, <3>4 DEF CInv, CommitInv
    <3>6. \A q \in Due' : c.rec < q
      <4> TAKE q \in Due'
      <4>1. q \in Pending /\ q # c.rec
        BY <1>2, <1>4, <2>3, DuePending
      <4> QED
        BY <3>3, <4>1
    <3> QED
      BY <1>2, <1>3, <1>4, <2>1, <2>3, <3>5, <3>6 DEF OnlyAckedReleased
  <2> QED
    BY <2>2, <2>3
<1>8. Layout(disk)' /\ Contents' /\ ListInv'
  BY <1>2 DEF CInv, Contents, ListInv
<1> QED
  BY <1>5, <1>6, <1>7, <1>8 DEF CInv

-----------------------------------------------------------------------------
(* commit goes on to the next segment *)

\* commit leaves a segment it has nothing more to read in for the one listed at
\* position p.
MovesTo(p) ==
    /\ open /\ pc = "commit" /\ remaining > 0
    /\ HeadersAtCursor = {}
    /\ p \in UpperBound(readSegment)
    /\ readSegment' = segments[p] /\ readOffset' = 0
    /\ disk' = disk \/ disk' = Without(disk, readSegment)
    /\ Elements(segments) \ {readSegment} \subseteq Elements(segments')
    /\ Elements(segments') \subseteq Elements(segments)
    /\ UNCHANGED <<stateFile, open, pc, remaining, nextRec, crashes, torn,
                   accepted, acked, released, evicted, shadowed>>

\* Erasing a segment from the list adds none.
LEMMA EraseSubset ==
    ASSUME NEW p \in DOMAIN segments, NEW id, segments \in Seq(Nat \ {0})
    PROVE  Elements(Erase(p, id)) \subseteq Elements(segments)
<1>1. CASE ~(p > 1 /\ segments[p - 1] = id)
  BY <1>1 DEF Erase
<1>2. CASE p > 1 /\ segments[p - 1] = id
  <2>1. Erase(p, id) = [i \in 1..(Len(segments) - 1) |-> segments[IF i < p - 1 THEN i ELSE i + 1]]
    BY <1>2 DEF Erase
  <2>2. Len(segments) \in Nat /\ DOMAIN segments = 1..Len(segments)
    OBVIOUS
  <2>3. \A i \in 1..(Len(segments) - 1) : (IF i < p - 1 THEN i ELSE i + 1) \in DOMAIN segments
    BY <2>2
  <2> QED
    BY <2>1, <2>3 DEF Elements
<1> QED
  BY <1>1, <1>2

\* Both ways to the next segment, over a used-up one and over a missing one.
LEMMA MoveShape ==
    ASSUME IInv, CommitRetire \/ CommitMissing
    PROVE  \E p : MovesTo(p)
<1>1. segments \in Seq(Nat \ {0})
  BY DEF IInv, TypeOK, MemoryTypeOK
<1>2. CASE CommitRetire
  <2>1. PICK p \in UpperBound(readSegment) :
           segments' = Erase(p, readSegment) /\ readSegment' = segments[p]
    BY <1>2 DEF CommitRetire
  <2>2. /\ pc = "commit" /\ remaining > 0 /\ HeadersAtCursor = {} /\ readOffset' = 0
        /\ disk' = disk \/ disk' = Without(disk, readSegment)
        /\ UNCHANGED <<stateFile, open, pc, remaining, nextRec, crashes, torn,
                       accepted, acked, released, evicted, shadowed>>
    BY <1>2 DEF CommitRetire, Without, boundVars, historyVars
  <2>3. open /\ TypeOK /\ Ascending(segments)
    BY <2>2 DEF IInv, CallsOpen, SegmentsListed
  <2>4. p \in DOMAIN segments
    BY DEF UpperBound
  <2>5. Elements(segments) \ {readSegment} \subseteq Elements(segments')
    BY <2>1, <2>3, EraseType
  <2>6. Elements(segments') \subseteq Elements(segments)
    BY <1>1, <2>1, <2>4, EraseSubset
  <2> QED
    BY <2>1, <2>2, <2>3, <2>5, <2>6 DEF MovesTo
<1>3. CASE CommitMissing
  <2>1. PICK p \in UpperBound(readSegment) : readSegment' = segments[p]
    BY <1>3 DEF CommitMissing
  <2>2. /\ pc = "commit" /\ remaining > 0 /\ readOffset' = 0 /\ readSegment \notin DOMAIN disk
        /\ UNCHANGED <<disk, segments, stateFile, open, pc, remaining, nextRec, crashes, torn,
                       accepted, acked, released, evicted, shadowed>>
    BY <1>3 DEF CommitMissing, diskVars, callVars, boundVars, historyVars
  <2>3. open
    BY <2>2 DEF IInv, CallsOpen
  <2>4. HeadersAtCursor = {}
    BY <2>2 DEF HeadersAtCursor, FileAt
  <2> QED
    BY <2>1, <2>2, <2>3, <2>4 DEF MovesTo
<1> QED
  BY <1>2, <1>3

\* Where commit reads no header, peek reads nothing either.
LEMMA NoHeaderNoRecord ==
    ASSUME IInv, CInv, HeadersAtCursor = {}
    PROVE  ~\E i : Reads(disk, readSegment, readOffset, readSegment, i)
<1> SUFFICES ASSUME NEW i, Reads(disk, readSegment, readOffset, readSegment, i) PROVE FALSE
  OBVIOUS
<1> DEFINE file == disk[readSegment]
<1>1. /\ readSegment \in DOMAIN disk
      /\ i \in DOMAIN file /\ i \in ReadableFrom(file, readOffset)
  BY DEF Reads
<1>2. file \in Seq(Chunk) /\ FileOK(file) /\ readOffset \in Nat
  BY <1>1 DEF IInv, TypeOK, MemoryTypeOK, Directory, CInv, Layout
<1>3. PICK k \in DOMAIN file : file[k].at = readOffset
  BY <1>1, ZenonT(30) DEF ReadableFrom
<1>4. i >= k
  BY <1>1, <1>2, <1>3, FromChunk DEF ReadableFrom
<1>5. k \in 1..i
  BY <1>1, <1>2, <1>3, <1>4
<1>6. file[k].at >= readOffset
  BY <1>2, <1>3
<1>7. Complete(file[k])
  BY <1>1, <1>5, <1>6 DEF ReadableFrom
<1>8. file[k].words \in Nat /\ file[k].len \in Nat /\ file[k].at \in Nat
  BY <1>2, <1>3, ChunkType
<1>9. SizeOf(file) \in Nat /\ file[k].at + file[k].words <= SizeOf(file)
  BY <1>2, <1>3, SizeType, ZenonT(30) DEF FileOK
<1>10. readOffset + Header <= SizeOf(file)
  BY <1>3, <1>7, <1>8, <1>9 DEF Complete, Header
<1>11. FileAt(disk, readSegment) = file
  BY <1>1 DEF FileAt
<1> QED
  BY <1>3, <1>10, <1>11 DEF HeadersAtCursor

\* The next segment is the first one listed behind the cursor, the records that
\* are left are all in it or behind it, and there are some.
LEMMA MovePending ==
    ASSUME IInv, CInv, NEW p, MovesTo(p)
    PROVE  /\ readSegment' \in Nat /\ readSegment' > readSegment
           /\ Pending' = Pending
           /\ Pending = PeekAll(disk, segments, readSegment', 0)
           /\ \E id \in DOMAIN disk : id >= readSegment'
<1> DEFINE next == segments[p]
<1>1. /\ open /\ pc = "commit" /\ remaining > 0
      /\ p \in UpperBound(readSegment)
      /\ HeadersAtCursor = {}
      /\ readSegment' = next /\ readOffset' = 0
      /\ disk' = disk \/ disk' = Without(disk, readSegment)
      /\ Elements(segments) \ {readSegment} \subseteq Elements(segments')
      /\ Elements(segments') \subseteq Elements(segments)
  BY DEF MovesTo
<1>2. TypeOK /\ Ascending(segments) /\ readSegment \in Nat /\ segments \in Seq(Nat \ {0})
  BY <1>1 DEF IInv, SegmentsListed, TypeOK, MemoryTypeOK
<1>3. next \in Nat /\ next > readSegment
  BY <1>1, <1>2, EraseType
<1>4. ASSUME NEW id \in Elements(segments), id > readSegment PROVE id >= next
  <2>1. PICK q \in DOMAIN segments : segments[q] = id
    BY DEF Elements
  <2>2. p \in DOMAIN segments /\ \A i \in 1..(p - 1) : segments[i] <= readSegment
    BY <1>1 DEF UpperBound
  <2>3. q \in Nat /\ p \in Nat /\ q >= 1 /\ id \in Nat
    BY <1>2, <2>1, <2>2
  <2>4. CASE q < p
    <3>1. segments[q] <= readSegment
      BY <2>2, <2>3, <2>4
    <3> QED
      BY <1>2, <1>4, <2>1, <2>3, <3>1
  <2>5. CASE q = p
    BY <1>3, <2>1, <2>5
  <2>6. CASE q > p
    <3>1. next < id
      BY <1>2, <2>1, <2>2, <2>3, <2>6 DEF Ascending
    <3> QED
      BY <1>3, <2>3, <3>1
  <2> QED
    BY <2>3, <2>4, <2>5, <2>6
<1>5. Elements(segments) \subseteq Nat
  BY <1>2 DEF Elements
<1> HIDE DEF next
<1>6. ASSUME NEW id \in Elements(segments), NEW i
      PROVE  Reads(disk, readSegment, readOffset, id, i) <=> Reads(disk, next, 0, id, i)
  <2>1. CASE id = readSegment
    <3>1. ~Reads(disk, readSegment, readOffset, id, i)
      BY <1>1, <2>1, NoHeaderNoRecord
    <3>2. ~(id >= next)
      BY <1>2, <1>3, <2>1
    <3> QED
      BY <3>1, <3>2 DEF Reads
  <2>2. CASE id # readSegment
    <3>1. id >= readSegment <=> id >= next
      BY <1>2, <1>3, <1>4, <1>5, <2>2
    <3>2. (IF id = readSegment THEN readOffset ELSE 0) = (IF id = next THEN 0 ELSE 0)
      BY <2>2
    <3> QED
      BY <3>1, <3>2 DEF Reads
  <2> QED
    BY <2>1, <2>2
<1>7. ASSUME NEW id, NEW i
      PROVE  Reads(disk, next, 0, id, i) <=> Reads(disk', next, 0, id, i)
  <2>1. CASE disk' = disk
    BY <2>1
  <2>2. CASE disk' = Without(disk, readSegment)
    <3>1. /\ DOMAIN disk' = DOMAIN disk \ {readSegment}
          /\ \A s \in DOMAIN disk' : disk'[s] = disk[s]
      BY <2>2, WithoutShape, Zenon
    <3>2. ~(readSegment >= next)
      BY <1>2, <1>3
    <3> QED
      BY <3>1, <3>2 DEF Reads
  <2> QED
    BY <1>1, <2>1, <2>2
<1>8. \A id, i : Reads(disk, next, 0, id, i) => id # readSegment /\ id \in DOMAIN disk'
  BY <1>2, <1>3, <1>7 DEF Reads
<1>9. \A id \in DOMAIN disk' : disk'[id] = disk[id]
  <2>1. CASE disk' = disk
    BY <2>1
  <2>2. CASE disk' = Without(disk, readSegment)
    BY <2>2, WithoutShape, Zenon
  <2> QED
    BY <1>1, <2>1, <2>2
<1>10. \A r : r \in Pending <=>
          \E id \in Elements(segments) : \E i : Reads(disk, readSegment, readOffset, id, i) /\ disk[id][i].rec = r
  BY PeekMember DEF Pending
<1>11. \A r : r \in PeekAll(disk, segments, next, 0) <=>
          \E id \in Elements(segments) : \E i : Reads(disk, next, 0, id, i) /\ disk[id][i].rec = r
  BY PeekMember
<1>12. \A r : r \in Pending' <=>
          \E id \in Elements(segments') : \E i : Reads(disk', next, 0, id, i) /\ disk'[id][i].rec = r
  <2>1. Pending' = PeekAll(disk', segments', next, 0)
    BY <1>1 DEF Pending
  <2> QED
    BY <2>1, PeekMember
<1>13. Pending = PeekAll(disk, segments, next, 0)
  BY <1>6, <1>10, <1>11, Zenon
<1>14. ASSUME NEW r \in Pending PROVE r \in Pending'
  <2>1. PICK id \in Elements(segments) : \E i : Reads(disk, next, 0, id, i) /\ disk[id][i].rec = r
    BY <1>11, <1>13
  <2>2. PICK i : Reads(disk, next, 0, id, i) /\ disk[id][i].rec = r
    BY <2>1
  <2>3. id \in Elements(segments') /\ Reads(disk', next, 0, id, i) /\ disk'[id][i].rec = r
    BY <1>1, <1>7, <1>8, <1>9, <2>2
  <2> QED
    BY <1>12, <2>3
<1>15. ASSUME NEW r \in Pending' PROVE r \in Pending
  <2>1. PICK id \in Elements(segments') : \E i : Reads(disk', next, 0, id, i) /\ disk'[id][i].rec = r
    BY <1>12
  <2>2. PICK i : Reads(disk', next, 0, id, i) /\ disk'[id][i].rec = r
    BY <2>1
  <2>3. id \in Elements(segments) /\ Reads(disk, next, 0, id, i) /\ disk[id][i].rec = r
    BY <1>1, <1>7, <1>8, <1>9, <2>2
  <2> QED
    BY <1>11, <1>13, <2>3
<1>16. \E id \in DOMAIN disk : id >= next
  <2>1. Pending # {}
    <3>1. remaining <= Cardinality(Pending) /\ remaining \in Nat
      BY <1>1 DEF IInv, TypeOK, MemoryTypeOK, CInv, CommitInv
    <3> QED
      BY <1>1, <3>1, FS_EmptySet
  <2> QED
    BY <1>11, <1>13, <2>1 DEF Reads
<1> QED
  BY <1>1, <1>3, <1>13, <1>14, <1>15, <1>16, ZenonT(30)

\* Going on to the next segment, with the file removed or not, loses nothing.
LEMMA MoveC ==
    ASSUME IInv, CInv, CommitRetire \/ CommitMissing
    PROVE  CInv'
<1>1. PICK p : MovesTo(p)
  BY MoveShape
<1> DEFINE next == readSegment'
<1>2. /\ open /\ pc = "commit" /\ remaining > 0
      /\ readOffset' = 0
      /\ disk' = disk \/ disk' = Without(disk, readSegment)
      /\ Elements(segments') \subseteq Elements(segments)
      /\ UNCHANGED <<stateFile, open, pc, remaining, nextRec, crashes, torn,
                     accepted, acked, released, evicted, shadowed>>
  BY <1>1 DEF MovesTo
<1>3. /\ next \in Nat /\ next > readSegment
      /\ Pending' = Pending
      /\ Pending = PeekAll(disk, segments, next, 0)
      /\ \E id \in DOMAIN disk : id >= next
  BY <1>1, MovePending
<1>4. /\ Directory(disk, nextRec) /\ Layout(disk) /\ DOMAIN disk \subseteq Nat
      /\ readSegment \in Nat /\ stateFile.seg \in Nat /\ stateFile.off \in Nat
      /\ stateFile.present => stateFile.seg <= readSegment
  <2>1. stateFile.seg \in Nat /\ stateFile.off \in Nat
    BY DEF IInv, TypeOK, DiskTypeOK, StateType
  <2>2. readSegment \in Nat /\ readOffset \in Nat
    BY DEF IInv, TypeOK, MemoryTypeOK
  <2>3. stateFile.present => stateFile.seg <= readSegment
    BY <1>2, <2>1, <2>2 DEF IInv, StateNeverAhead, CursorLeq
  <2>4. Directory(disk, nextRec) /\ Layout(disk) /\ DOMAIN disk \subseteq Nat
    BY DEF IInv, Directory, CInv
  <2> QED
    BY <2>1, <2>2, <2>3, <2>4
<1>5. Layout(disk')
  BY <1>2, <1>4, WithoutLayout, ZenonT(30)
<1>6. Directory(disk', nextRec)
  BY <1>2, <1>4, RemoveType DEF Without
<1>7. /\ \A id \in DOMAIN disk' : id \in DOMAIN disk /\ disk'[id] = disk[id]
      /\ \A id \in DOMAIN disk : id # readSegment => id \in DOMAIN disk'
  <2>1. CASE disk' = disk
    BY <2>1
  <2>2. CASE disk' = Without(disk, readSegment)
    <3>1. DOMAIN disk' = DOMAIN disk \ {readSegment}
      BY <2>2, WithoutShape, Zenon
    <3>2. \A id \in DOMAIN disk' : disk'[id] = disk[id]
      BY <2>2, WithoutShape, Zenon
    <3> QED
      BY <3>1, <3>2
  <2> QED
    BY <1>2, <2>1, <2>2
<1>8. Due' = Due
  BY <1>2 DEF Due
<1> HIDE DEF next
<1>9. PICK last \in DOMAIN disk : last >= next
  BY <1>3
<1>10. last \in DOMAIN disk' /\ last \in Nat
  BY <1>3, <1>4, <1>7, <1>9
<1>11. \A r \in Due : Reached(disk, next, 0, r)
  <2>1. Due \subseteq Pending
    BY <1>2, DuePending
  <2> QED
    BY <1>3, <1>4, <2>1, FoundReached
<1>12. \A r \in Due : Reached(disk', next, 0, r)
  <2>1. CASE disk' = disk
    BY <1>11, <2>1
  <2>2. CASE disk' = Without(disk, readSegment)
    <3>1. readSegment < next
      BY <1>3, <1>4
    <3>2. \A r \in Due : Reached(Without(disk, readSegment), next, 0, r)
      BY <1>3, <1>4, <1>11, <3>1, RemoveReached DEF Without
    <3> QED
      BY <2>2, <3>2
  <2> QED
    BY <1>2, <2>1, <2>2
<1>13. Top(disk', next) /\ Fits(disk', next, 0)
  BY <1>5, <1>6, <1>9, <1>10, FitsStart DEF Top
<1>14. ASSUME stateFile.present
       PROVE  /\ Top(disk', stateFile.seg) /\ Fits(disk', stateFile.seg, stateFile.off)
              /\ \A r \in Due : Reached(disk', stateFile.seg, stateFile.off, r)
  <2>1. stateFile.seg < next /\ last > stateFile.seg
    BY <1>3, <1>4, <1>9, <1>10, <1>14
  <2>2. Top(disk', stateFile.seg) /\ Fits(disk', stateFile.seg, stateFile.off)
    BY <1>4, <1>6, <1>10, <2>1, EarlierFits
  <2>3. \A r \in Due : Reached(disk', stateFile.seg, stateFile.off, r)
    BY <1>3, <1>4, <1>6, <1>12, <2>1, ReachedEarlier
  <2> QED
    BY <2>2, <2>3
<1>15. \A r \in Due : Reached(disk', 0, 0, r)
  BY <1>6, <1>12, ReachedStart
<1>16. Cursors'
  <2>1. Holds(disk, readSegment, readOffset)'
    BY <1>2, <1>8, <1>12, <1>13 DEF Holds, next
  <2>2. stateFile'.present => Holds(disk, stateFile.seg, stateFile.off)'
    BY <1>2, <1>8, <1>14 DEF Holds
  <2> QED
    BY <1>8, <1>15, <2>1, <2>2 DEF Cursors
<1>17. Contents'
  BY <1>2, <1>7, Zenon DEF CInv, Contents
<1>18. ListInv'
  BY <1>2, <1>7, <1>10, ZenonT(30) DEF CInv, ListInv
<1>19. CommitInv'
  <2>1. Peek(remaining)' = Peek(remaining)
    BY <1>2, <1>3 DEF Peek
  <2> QED
    BY <1>2, <1>3, <2>1 DEF CInv, CommitInv
<1>20. OnlyAckedReleased'
  BY <1>2, <1>8 DEF CInv, OnlyAckedReleased
<1> QED
  BY <1>5, <1>16, <1>17, <1>18, <1>19, <1>20 DEF CInv

-----------------------------------------------------------------------------
(* The inductive invariant *)

\* An empty directory satisfies it, if a state file left in it names no segment
\* behind the first one that append will write to.
LEMMA InitC == ASSUME StaleSegments \subseteq {0, 1}, Init PROVE CInv
<1>1. /\ DOMAIN disk = {} /\ ~open /\ pc = "idle"
      /\ accepted = {} /\ released = {} /\ evicted = {} /\ shadowed = {}
  BY Zenon DEF Init
<1>2. Due = {}
  BY <1>1 DEF Due
<1>3. stateFile.off = 0 /\ stateFile.seg \in {0, 1}
  <2>1. NoState.off = 0 /\ NoState.seg = 0
    BY DEF NoState
  <2>2. ASSUME NEW id \in StaleSegments
        PROVE  LET s == [NoState EXCEPT !.present = TRUE, !.seg = id] IN s.off = 0 /\ s.seg \in {0, 1}
    BY DEF NoState
  <2>3. stateFile = NoState \/ \E id \in StaleSegments : stateFile = [NoState EXCEPT !.present = TRUE, !.seg = id]
    BY ZenonT(30) DEF Init
  <2> QED
    BY <2>1, <2>2, <2>3, Zenon
<1>4. Holds(disk, stateFile.seg, stateFile.off)
  <2>1. FileAt(disk, stateFile.seg) = <<>>
    BY <1>1 DEF FileAt
  <2>2. stateFile.off = SizeOf(FileAt(disk, stateFile.seg))
    BY <1>3, <2>1 DEF SizeOf
  <2> QED
    BY <1>1, <1>2, <1>3, <2>2 DEF Holds, Top, Fits
<1>5. Cursors
  BY <1>1, <1>2, <1>4, ZenonT(30) DEF Cursors
<1>6. Layout(disk) /\ Contents
  BY <1>1 DEF Layout, Contents
<1> QED
  BY <1>1, <1>5, <1>6 DEF CInv, ListInv, CommitInv, OnlyAckedReleased

\* Every step keeps it.
LEMMA NextC == ASSUME IInv, CInv, [Next]_vars PROVE CInv'
<1>1. CASE UNCHANGED vars
  <2>1. UNCHANGED <<disk, stateFile, open, segments, readSegment, readOffset, pc, remaining,
                    nextRec, torn, accepted, acked, released, evicted, shadowed>>
    BY <1>1 DEF vars, diskVars, memoryVars, callVars, boundVars, historyVars
  <2>2. Due' = Due /\ Pending' = Pending
    BY <2>1 DEF Due, Pending
  <2>3. Peek(remaining)' = Peek(remaining)
    BY <2>1, <2>2 DEF Peek
  <2> QED
    BY <2>1, <2>2, <2>3, ZenonT(30) DEF CInv, Contents, Cursors, Holds, ListInv, CommitInv, OnlyAckedReleased
<1>2. CASE Open
  BY <1>2, OpenC
<1>3. CASE ReadStats
  BY <1>3, SaveC
<1>4. CASE Crash
  BY <1>4, CrashC
<1>5. CASE AppendSteps
  <2>1. ASSUME NEW len \in Lens, NEW words \in 0..(Header + len - 1) PROVE words \in Nat
    BY <2>1
  <2> QED
    BY <1>5, <2>1, AppendWriteC, AppendFailsC, CrashMidAppendC, CannotOpenC, EvictC, SaveC
       DEF AppendSteps
<1>6. CASE \E count \in 1..Cardinality(Pending) : CommitStart(count)
  BY <1>6, CommitStartC
<1>7. CASE CommitSteps
  BY <1>7, CommitFrameC, MoveC, SaveC DEF CommitSteps
<1>8. CASE SaveSteps
  BY <1>8, SaveC
<1> QED
  BY <1>1, <1>2, <1>3, <1>4, <1>5, <1>6, <1>7, <1>8 DEF Next

\* The inductive invariant holds throughout.
THEOREM ContentInvariance ==
    ASSUME StaleSegments \subseteq {0, 1}
    PROVE  Spec => [](IInv /\ CInv)
<1>1. Init => CInv
  BY InitC
<1>2. IInv /\ CInv /\ [Next]_vars => CInv'
  BY NextC
<1> QED
  BY <1>1, <1>2, Invariance, PTL DEF Spec

-----------------------------------------------------------------------------
(* What follows *)

\* Any finite set of numbers can be listed in ascending order, so scan_segments
\* has a result.
LEMMA AscendingListing ==
    ASSUME NEW D, D \subseteq Nat, IsFiniteSet(D)
    PROVE  \E s \in [1..Cardinality(D) -> D] : Ascending(s) /\ Elements(s) = D
<1> DEFINE n == Cardinality(D)
           below(x) == {y \in D : y < x}
           rank == [x \in D |-> Cardinality(below(x)) + 1]
           s == [i \in 1..n |-> CHOOSE x \in D : rank[x] = i]
<1>1. n \in Nat
  BY FS_CardinalityType
<1>2. \A x : IsFiniteSet(below(x)) /\ Cardinality(below(x)) \in Nat /\ Cardinality(below(x)) <= n
  <2>1. \A x : below(x) \subseteq D
    OBVIOUS
  <2> HIDE DEF below
  <2> QED
    BY <2>1, FS_Subset, FS_CardinalityType
<1>3. ASSUME NEW x \in D, NEW y, below(x) \cup {x} \subseteq y, IsFiniteSet(y)
      PROVE  Cardinality(below(x)) + 1 <= Cardinality(y)
  <2>1. x \notin below(x)
    OBVIOUS
  <2> HIDE DEF below
  <2>2. Cardinality(below(x) \cup {x}) = Cardinality(below(x)) + 1
    BY <1>2, <2>1, FS_AddElement, Zenon
  <2> QED
    BY <1>3, <2>2, FS_Subset
<1>4. \A x \in D : rank[x] \in 1..n
  <2> TAKE x \in D
  <2>1. below(x) \cup {x} \subseteq D
    OBVIOUS
  <2> HIDE DEF below
  <2>2. Cardinality(below(x)) + 1 <= n
    BY <1>3, <2>1
  <2> QED
    BY <1>1, <1>2, <2>2
<1>5. \A x, y \in D : x < y => rank[x] < rank[y]
  <2> SUFFICES ASSUME NEW x \in D, NEW y \in D, x < y PROVE rank[x] < rank[y]
    OBVIOUS
  <2>1. below(x) \cup {x} \subseteq below(y)
    <3>1. x \in Nat /\ y \in Nat /\ \A z \in below(x) : z \in D /\ z \in Nat /\ z < x
      OBVIOUS
    <3>2. \A z \in below(x) : z < y
      BY <3>1
    <3> QED
      BY <3>1, <3>2, Zenon
  <2> HIDE DEF below
  <2>2. Cardinality(below(x)) + 1 <= Cardinality(below(y))
    BY <1>2, <1>3, <2>1
  <2> QED
    BY <1>2, <2>2
<1> HIDE DEF rank
<1>6. rank \in [D -> 1..n]
  BY <1>4 DEF rank
<1>7. \A x, y \in D : rank[x] = rank[y] => x = y
  <2> SUFFICES ASSUME NEW x \in D, NEW y \in D, rank[x] = rank[y] PROVE x = y
    OBVIOUS
  <2>1. x \in Nat /\ y \in Nat /\ rank[x] \in Nat /\ rank[y] \in Nat
    BY <1>4
  <2>2. ~(x < y) /\ ~(y < x)
    BY <1>5, <2>1
  <2> QED
    BY <2>1, <2>2
<1>8. \A i \in 1..n : \E x \in D : rank[x] = i
  <2>1. rank \in Injection(D, 1..n)
    BY <1>6, <1>7 DEF Injection, IsInjective
  <2>2. IsFiniteSet(1..n) /\ Cardinality(1..n) = n
    BY <1>1, FS_Interval
  <2>3. rank \in Surjection(D, 1..n)
    BY <2>1, <2>2, FS_Injection
  <2> QED
    BY <2>3 DEF Surjection
<1>9. \A i \in 1..n : s[i] \in D /\ rank[s[i]] = i
  BY <1>8
<1>10. s \in [1..n -> D]
  BY <1>8
<1> HIDE DEF s
<1>11. Ascending(s)
  <2> SUFFICES ASSUME NEW i \in 1..n, NEW j \in 1..n, i < j PROVE s[i] < s[j]
    BY <1>10 DEF Ascending
  <2>1. s[i] \in Nat /\ s[j] \in Nat /\ rank[s[i]] = i /\ rank[s[j]] = j /\ s[i] \in D /\ s[j] \in D
    BY <1>9, Zenon
  <2>2. ~(s[j] < s[i])
    BY <1>5, <2>1
  <2>3. s[j] # s[i]
    BY <2>1
  <2> QED
    BY <2>1, <2>2, <2>3
<1>12. Elements(s) = D
  <2>1. \A x \in D : s[rank[x]] = x
    BY <1>4, <1>7, <1>9, Zenon
  <2> QED
    BY <1>4, <1>9, <1>10, <2>1, ZenonT(20) DEF Elements
<1> QED
  BY <1>10, <1>11, <1>12

\* The invariant leaves nothing due unread, by this process or by the next.
LEMMA DueFound == ASSUME IInv, CInv PROVE NothingLost
<1>1. open => Due \subseteq Pending
  BY DuePending
<1>2. Directory(disk, nextRec) /\ DOMAIN disk \subseteq Nat /\ IsFiniteSet(DOMAIN disk) /\ Layout(disk)
  BY DEF IInv, Directory, CInv
<1>3. PICK segs \in Listings : TRUE
  BY <1>2, AscendingListing DEF Listings
<1> DEFINE cursor == CursorIn(segs)
<1>4. Holds(disk, cursor.seg, cursor.off)
  BY OpenHolds
<1>5. Elements(segs) = DOMAIN disk
  BY DEF Listings
<1>6. cursor.seg \in Nat /\ cursor.off \in Nat
  <2>1. stateFile.seg \in Nat /\ stateFile.off \in Nat
    BY DEF IInv, TypeOK, DiskTypeOK, StateType
  <2>2. segs # <<>> => segs[1] \in Nat
    <3>1. Cardinality(DOMAIN disk) \in Nat /\ segs \in [1..Cardinality(DOMAIN disk) -> DOMAIN disk]
      BY <1>2, FS_CardinalityType DEF Listings
    <3> QED
      BY <1>2, <3>1
  <2> QED
    BY <2>1, <2>2 DEF CursorIn
<1> HIDE DEF cursor
<1>7. Due \subseteq PeekAll(disk, segs, cursor.seg, cursor.off)
  <2> SUFFICES ASSUME NEW r \in Due PROVE r \in PeekAll(disk, segs, cursor.seg, cursor.off)
    OBVIOUS
  <2>1. Reached(disk, cursor.seg, cursor.off, r)
    BY <1>4 DEF Holds
  <2> QED
    BY <1>2, <1>5, <1>6, <2>1, ReachedFound
<1>8. PeekAll(disk, segs, cursor.seg, cursor.off) \subseteq PendingAfterRestart
  BY DEF PendingAfterRestart, cursor
<1> QED
  BY <1>1, <1>7, <1>8 DEF NothingLost

\* The invariant keeps the cursor within the file appends go to.
LEMMA WithinActive == ASSUME IInv, CInv PROVE ActiveNotOverrun
<1> SUFFICES ASSUME open, segments # <<>>, readSegment = segments[Len(segments)]
             PROVE  readOffset <= SizeOf(FileAt(disk, readSegment))
  BY DEF ActiveNotOverrun
<1> DEFINE file == FileAt(disk, readSegment)
<1>1. /\ Directory(disk, nextRec) /\ Layout(disk) /\ DOMAIN disk \subseteq Nat
      /\ segments \in Seq(Nat \ {0}) /\ Ascending(segments)
      /\ \A id \in DOMAIN disk : id >= readSegment => id \in Elements(segments)
      /\ readSegment \in Nat /\ readOffset \in Nat
      /\ Fits(disk, readSegment, readOffset)
  BY DEF IInv, Directory, TypeOK, MemoryTypeOK, SegmentsListed, CInv, Cursors, Holds
<1>2. ASSUME NEW id \in DOMAIN disk, id > readSegment PROVE FALSE
  <2>1. id \in Elements(segments) /\ id \in Nat
    BY <1>1, <1>2
  <2>2. PICK i \in DOMAIN segments : segments[i] = id
    BY <2>1 DEF Elements
  <2>3. Len(segments) \in DOMAIN segments /\ i <= Len(segments) /\ i \in Nat /\ Len(segments) \in Nat
    BY <1>1, <2>2
  <2>4. CASE i = Len(segments)
    BY <1>1, <1>2, <2>2, <2>4
  <2>5. CASE i < Len(segments)
    <3>1. id < readSegment
      BY <1>1, <2>2, <2>3, <2>5 DEF Ascending
    <3> QED
      BY <1>1, <1>2, <2>1, <3>1
  <2> QED
    BY <2>3, <2>4, <2>5
<1>3. file \in Seq(Chunk) /\ SizeOf(file) \in Nat
  BY <1>1, FileType, SizeType DEF Directory
<1>4. ASSUME NEW k \in DOMAIN file PROVE file[k].at <= SizeOf(file)
  <2>1. readSegment \in DOMAIN disk /\ file = disk[readSegment]
    BY DEF FileAt
  <2>2. FileOK(file)
    BY <1>1, <2>1, Zenon DEF Layout
  <2>3. file[k].at + file[k].words <= SizeOf(file)
    BY <2>2, Zenon DEF FileOK
  <2>4. file[k].at \in Nat /\ file[k].words \in Nat
    BY <1>3, ChunkType
  <2> HIDE DEF file
  <2> QED
    BY <1>3, <2>3, <2>4
<1>5. \/ readOffset = SizeOf(file)
      \/ \E k \in DOMAIN file : file[k].at = readOffset
  <2>1. Fits(disk, readSegment, readOffset)
    BY <1>1
  <2> QED
    BY <1>2, <2>1, Zenon DEF Fits
<1>6. CASE readOffset = SizeOf(file)
  <2> HIDE DEF file
  <2>1. readOffset <= SizeOf(file)
    BY <1>3, <1>6
  <2> QED
    BY <2>1, Zenon DEF file
<1>7. CASE \E k \in DOMAIN file : file[k].at = readOffset
  BY <1>4, <1>7, Zenon
<1> QED
  BY <1>5, <1>6, <1>7

\* A record append has put on disk is found by peek, in this process and after
\* a restart at any point, until commit passes it or an eviction deletes it.
\* Append, commit, eviction, save_state and the death of the process may
\* interleave in any way.
THEOREM NothingIsLost ==
    ASSUME StaleSegments \subseteq {0, 1}
    PROVE  Spec => []NothingLost
<1>1. IInv /\ CInv => NothingLost
  BY DueFound
<1> QED
  BY <1>1, ContentInvariance, PTL

\* commit passes only records its callers acknowledged, or that lie behind a
\* torn frame, and the oldest first.
THEOREM ReleasesAcked ==
    ASSUME StaleSegments \subseteq {0, 1}
    PROVE  Spec => []OnlyAckedReleased
<1>1. CInv => OnlyAckedReleased
  BY DEF CInv
<1> QED
  BY <1>1, ContentInvariance, PTL

\* commit's seek over torn frames does not leave the file appends go to.
THEOREM CursorWithinActive ==
    ASSUME StaleSegments \subseteq {0, 1}
    PROVE  Spec => []ActiveNotOverrun
<1>1. IInv /\ CInv => ActiveNotOverrun
  BY WithinActive
<1> QED
  BY <1>1, ContentInvariance, PTL

=============================================================================
