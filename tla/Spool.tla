------------------------------- MODULE Spool -------------------------------
(***************************************************************************)
(* The on-disk event queue of nano-sensor: class ns::Spool.                *)
(*                                                                         *)
(* A segment file is a sequence of chunks, one per append that put at      *)
(* least one word into it.  A chunk remembers where it starts (at), how    *)
(* many words reached the disk (words), the payload length its header      *)
(* claims (len) and the record it carries (rec).  The unit is the 32-bit   *)
(* word of the frame layout, so the header (magic, length, crc) is three   *)
(* words; a complete chunk has Header + len words, a torn one fewer.       *)
(*                                                                         *)
(* append and commit are split where the process can die with a different  *)
(* disk behind it.  Everything else happens in one step.                   *)
(***************************************************************************)
EXTENDS Integers, Sequences, FiniteSets, FiniteSetsExt

CONSTANTS
    Lens,             \* payload lengths the caller appends, in words
    SegmentWords,     \* cfg_.segment_bytes
    MaxWords,         \* cfg_.max_bytes
    RemovesOpenFile,  \* may a file be removed while an ifstream holds it?
    RenameReplaces,   \* does fs::rename replace an existing file?
    DiskFills,        \* may a write stop half way without the process dying?
    StaleSegments,    \* segments named by a state file found without segment
                      \* files; 0 is what an empty state file parses to
    MaxRecord,        \* bound: records presented to append
    MaxCrash,         \* bound: times the process goes down
    MaxTorn           \* bound: appends that leave part of a frame behind

ASSUME ConstantAssumption ==
    /\ Lens \subseteq Nat
    /\ SegmentWords \in Nat \ {0}
    /\ MaxWords \in Nat
    /\ RemovesOpenFile \in BOOLEAN
    /\ RenameReplaces \in BOOLEAN
    /\ DiskFills \in BOOLEAN
    /\ StaleSegments \subseteq Nat
    /\ MaxRecord \in Nat
    /\ MaxCrash \in Nat
    /\ MaxTorn \in Nat

\* The header holds the length in 32 bits, so there is a largest one.
ASSUME LengthAssumption == Lens # {} /\ IsFiniteSet(Lens)

VARIABLES
    disk,         \* the segment files: id -> chunks
    stateFile,    \* the file "state"
    open,         \* open_
    segments,     \* segments_
    readSegment,  \* read_segment_
    readOffset,   \* read_offset_
    stats,        \* stats_, without the two fields stats() computes
    pc,           \* where the running call is
    remaining,    \* commit's local of that name
    advanced,     \* commit's local of that name
    nextRec,      \* the record the next append carries
    crashes,      \* times the process went down
    torn,         \* torn chunks written
    accepted,     \* history: records whose frame reached the disk complete
    acked,        \* history: records the caller asked commit to release
    released,     \* history: records commit walked over
    evicted,      \* history: unread records enforce_bounds deleted
    shadowed      \* history: records appended behind a torn chunk

diskVars    == <<disk, stateFile>>
memoryVars  == <<open, segments, readSegment, readOffset, stats>>
callVars    == <<pc, remaining, advanced>>
boundVars   == <<nextRec, crashes, torn>>
historyVars == <<accepted, acked, released, evicted, shadowed>>
vars == <<diskVars, memoryVars, callVars, boundVars, historyVars>>

-----------------------------------------------------------------------------
(* Segment files *)

Header == 3

\* The length commit reads when a header is cut after its magic word: the
\* next chunk's magic, read as a number, is larger than any file here.
MagicAsLength == 1000000

Chunk == [rec : Nat \ {0}, at : Nat, len : Nat, words : Nat \ {0}]

Complete(c) == c.words = Header + c.len

TornIn(file) == \E i \in DOMAIN file : ~Complete(file[i])

SizeOf(file) ==
    IF file = <<>> THEN 0 ELSE file[Len(file)].at + file[Len(file)].words

FileAt(d, id) == IF id \in DOMAIN d THEN d[id] ELSE <<>>

Ascending(s) == \A i, j \in DOMAIN s : i < j => s[i] < s[j]

Elements(s) == {s[i] : i \in DOMAIN s}

\* Mutant: a payload that ends early, or fails its CRC, is returned.
ShortReadsReturned(file, offset) ==
    {i \in DOMAIN file :
        file[i].at >= offset /\ \E k \in DOMAIN file : file[k].at = offset}

\* Chunks the reading loop of peek gets through when it starts at `offset`:
\* complete ones, up to the first that is short or fails its CRC.  An offset
\* inside a chunk reads no magic, one past the end reads nothing.
ReadableFrom(file, offset) ==
    {i \in DOMAIN file :
        /\ file[i].at >= offset
        /\ \E k \in DOMAIN file : file[k].at = offset
        /\ \A j \in 1..i : file[j].at >= offset => Complete(file[j])}

\* peek(SIZE_MAX): every record from the cursor on.  A damaged segment ends
\* early but does not hide the segments behind it.
PeekAll(d, segs, seg, offset) ==
    UNION {LET file == FileAt(d, id)
           IN  {file[i].rec :
                   i \in ReadableFrom(file, IF id = seg THEN offset ELSE 0)} :
              id \in {id \in Elements(segs) : id >= seg}}

Pending == PeekAll(disk, segments, readSegment, readOffset)

\* peek(max_records): the oldest ones; records are numbered in append order.
Peek(max) == {r \in Pending : Cardinality({q \in Pending : q < r}) < max}

TotalWords(d, segs) ==
    MapThenSumSet(LAMBDA id : SizeOf(FileAt(d, id)), Elements(segs))

-----------------------------------------------------------------------------
(* open, close and the death of the process *)

NoState == [present |-> FALSE, seg |-> 0, off |-> 0, committed |-> 0, dropped |-> 0]

NewStats == [appended |-> 0, committed |-> 0, dropped |-> 0, pending |-> 0]

Init ==
    /\ disk = [id \in {} |-> <<>>]
    /\ stateFile \in {NoState} \cup
          {[NoState EXCEPT !.present = TRUE, !.seg = id] : id \in StaleSegments}
    /\ open = FALSE
    /\ segments = <<>>
    /\ readSegment = 0
    /\ readOffset = 0
    /\ stats = NewStats
    /\ pc = "idle"
    /\ remaining = 0
    /\ advanced = FALSE
    /\ nextRec = 1
    /\ crashes = 0
    /\ torn = 0
    /\ accepted = {}
    /\ acked = {}
    /\ released = {}
    /\ evicted = {}
    /\ shadowed = {}

\* scan_segments: the ids on disk in ascending order (one such sequence).
Listings ==
    {s \in [1..Cardinality(DOMAIN disk) -> DOMAIN disk] :
        Ascending(s) /\ Elements(s) = DOMAIN disk}

\* Mutant: the segment snaps forward and keeps the old segment's offset.
SnapKeepsOffset(segs) ==
    LET front == IF segs = <<>> THEN 1 ELSE segs[1]
    IN  IF ~stateFile.present THEN [seg |-> front, off |-> 0]
        ELSE IF segs = <<>> \/ stateFile.seg >= front
             THEN [seg |-> stateFile.seg, off |-> stateFile.off]
             ELSE [seg |-> front, off |-> stateFile.off]

\* load_state: the saved cursor, or the oldest segment when there is none or
\* when the saved one names an older segment than any that is left.
CursorIn(segs) ==
    LET front == IF segs = <<>> THEN 1 ELSE segs[1]
        start == [seg |-> front, off |-> 0]
        saved == [seg |-> stateFile.seg, off |-> stateFile.off]
    IN  IF stateFile.present /\ (segs = <<>> \/ saved.seg >= front)
        THEN saved ELSE start

Open ==
    /\ ~open
    /\ \E segs \in Listings :
         LET cursor == CursorIn(segs) IN
         /\ segments' = segs
         /\ readSegment' = cursor.seg
         /\ readOffset' = cursor.off
         /\ stats' = [appended  |-> 0,
                      committed |-> stateFile.committed,
                      dropped   |-> stateFile.dropped,
                      pending   |-> Cardinality(PeekAll(disk, segs, cursor.seg, cursor.off))]
    /\ open' = TRUE
    /\ UNCHANGED <<diskVars, callVars, boundVars, historyVars>>

\* stats(): recounts the pending records.
ReadStats ==
    /\ open /\ pc = "idle"
    /\ stats' = [stats EXCEPT !.pending = Cardinality(Pending)]
    /\ UNCHANGED <<diskVars, open, segments, readSegment, readOffset, callVars,
                   boundVars, historyVars>>

\* The process goes down: memory is gone, the disk is what it was.  close()
\* writes nothing, so an orderly stop between calls is the same step.
GoDown ==
    /\ crashes < MaxCrash
    /\ crashes' = crashes + 1
    /\ open' = FALSE
    /\ segments' = <<>>
    /\ readSegment' = 0
    /\ readOffset' = 0
    /\ stats' = NewStats
    /\ pc' = "idle"
    /\ remaining' = 0
    /\ advanced' = FALSE

Crash ==
    /\ open
    /\ GoDown
    /\ UNCHANGED <<diskVars, nextRec, torn, historyVars>>

-----------------------------------------------------------------------------
(* append *)

\* The segment an append goes to, and the list once it is in it.
Active ==
    LET back == IF segments = <<>> THEN 1 ELSE segments[Len(segments)]
    IN  IF SizeOf(FileAt(disk, back)) >= SegmentWords THEN back + 1 ELSE back

WithActive ==
    IF Active \in Elements(segments) THEN segments ELSE Append(segments, Active)

\* The active file, created if need be, with `words` words of the frame added.
DiskAfterWrite(len, words) ==
    LET old == FileAt(disk, Active)
        new == [rec |-> nextRec, at |-> SizeOf(old), len |-> len, words |-> words]
    IN  [id \in DOMAIN disk \cup {Active} |->
            IF id # Active THEN disk[id]
            ELSE IF words = 0 THEN old ELSE Append(old, new)]

AppendWrite(len) ==
    /\ open /\ pc = "idle" /\ nextRec <= MaxRecord
    /\ segments' = WithActive
    /\ disk' = DiskAfterWrite(len, Header + len)
    /\ stats' = [stats EXCEPT !.appended = @ + 1, !.pending = @ + 1]
    /\ nextRec' = nextRec + 1
    /\ accepted' = accepted \cup {nextRec}
    /\ shadowed' = shadowed \cup
          (IF TornIn(FileAt(disk, Active)) THEN {nextRec} ELSE {})
    /\ pc' = "bounds"
    /\ UNCHANGED <<stateFile, open, readSegment, readOffset, remaining, advanced,
                   crashes, torn, acked, released, evicted>>

\* Part of a frame reaches the file.
PartialWrite(len, words) ==
    /\ open /\ pc = "idle" /\ nextRec <= MaxRecord
    /\ words < Header + len
    /\ words > 0 => torn < MaxTorn
    /\ disk' = DiskAfterWrite(len, words)
    /\ torn' = torn + (IF words > 0 THEN 1 ELSE 0)
    /\ nextRec' = nextRec + (IF words > 0 THEN 1 ELSE 0)
    /\ UNCHANGED <<stateFile, historyVars>>

\* write() fails half way, say on a full disk: append returns false and the
\* process goes on with the torn bytes at the end of the active segment.
AppendFails(len, words) ==
    /\ words > 0 => DiskFills
    /\ PartialWrite(len, words)
    /\ segments' = WithActive
    /\ UNCHANGED <<open, readSegment, readOffset, stats, callVars, crashes>>

\* The segment cannot be opened: its id has joined the list all the same.
AppendCannotOpen ==
    /\ open /\ pc = "idle"
    /\ segments' = WithActive
    /\ UNCHANGED <<diskVars, open, readSegment, readOffset, stats, callVars,
                   boundVars, historyVars>>

\* The process is killed in the middle of the write.
CrashMidAppend(len, words) ==
    /\ PartialWrite(len, words)
    /\ GoDown

\* Mutant: two segments are spared instead of one.
OverBudgetSparesTwo == TotalWords(disk, segments) > MaxWords /\ Len(segments) > 2

OverBudget == TotalWords(disk, segments) > MaxWords /\ Len(segments) > 1

\* One turn of the loop in enforce_bounds: the oldest segment goes.  `lost` is
\* what peek returned before, `moves` whether the cursor was in that segment.
EvictOldest(lost, moves) ==
    LET victim == segments[1]
        rest   == Tail(segments)
        left   == [id \in DOMAIN disk \ {victim} |-> disk[id]]
        still  == PeekAll(left, rest, rest[1], 0)
        drop   == Cardinality(lost) - Cardinality(still)
    IN  /\ pc = "bounds" /\ OverBudget
        /\ disk' = left
        /\ segments' = rest
        /\ IF moves
           THEN /\ readSegment' = rest[1]
                /\ readOffset' = 0
                /\ stats' = [stats EXCEPT !.dropped = @ + (IF drop > 0 THEN drop ELSE 0),
                                          !.pending = Cardinality(still)]
                /\ evicted' = evicted \cup (Pending \ still)
           ELSE UNCHANGED <<readSegment, readOffset, stats, evicted>>
        /\ UNCHANGED <<stateFile, open, callVars, boundVars,
                       accepted, acked, released, shadowed>>

\* Mutant: the records are counted once the file is gone.
EvictCountsLate == EvictOldest({}, readSegment <= segments[1])

Evict ==
    EvictOldest(IF segments[1] >= readSegment THEN Pending ELSE {},
                readSegment <= segments[1])

WithinBounds ==
    /\ pc = "bounds" /\ ~OverBudget
    /\ pc' = "save"
    /\ UNCHANGED <<diskVars, memoryVars, remaining, advanced, boundVars, historyVars>>

-----------------------------------------------------------------------------
(* save_state, the last thing append and commit do *)

MemoryState == [present |-> TRUE, seg |-> readSegment, off |-> readOffset,
                committed |-> stats.committed, dropped |-> stats.dropped]

\* state.tmp is written and renamed over the old file.
SaveState ==
    /\ pc = "save"
    /\ RenameReplaces \/ ~stateFile.present
    /\ stateFile' = MemoryState
    /\ pc' = "idle"
    /\ UNCHANGED <<disk, memoryVars, remaining, advanced, boundVars, historyVars>>

\* Where rename does not replace, the old file is removed first ...
SaveRemove ==
    /\ pc = "save"
    /\ ~RenameReplaces /\ stateFile.present
    /\ stateFile' = NoState
    /\ pc' = "rename"
    /\ UNCHANGED <<disk, memoryVars, remaining, advanced, boundVars, historyVars>>

\* ... and the rename tried again.
SaveRename ==
    /\ pc = "rename"
    /\ stateFile' = MemoryState
    /\ pc' = "idle"
    /\ UNCHANGED <<disk, memoryVars, remaining, advanced, boundVars, historyVars>>

\* Writing state.tmp, or the second rename, fails: the call returns false.
SaveFails ==
    /\ pc \in {"save", "rename"}
    /\ pc' = "idle"
    /\ UNCHANGED <<diskVars, memoryVars, remaining, advanced, boundVars, historyVars>>

-----------------------------------------------------------------------------
(* commit *)

\* The caller releases the oldest `count` records, which it has just peeked.
CommitStart(count) ==
    /\ open /\ pc = "idle"
    /\ count \in 1..Cardinality(Pending)
    /\ pc' = "commit"
    /\ remaining' = count
    /\ advanced' = FALSE
    /\ acked' = acked \cup Peek(count)
    /\ UNCHANGED <<diskVars, memoryVars, boundVars,
                   accepted, released, evicted, shadowed>>

\* Chunks whose header commit can read at the cursor: whole header words,
\* the first of them a magic.  No CRC is looked at, nor is the file's end.
HeadersAtCursor ==
    LET file == FileAt(disk, readSegment)
    IN  {i \in DOMAIN file : file[i].at = readOffset /\ readOffset + Header <= SizeOf(file)}

\* commit steps over a frame: seek, advance the cursor, count.
PassFrame ==
    /\ pc = "commit"
    /\ \E i \in HeadersAtCursor :
         LET c   == disk[readSegment][i]
             len == IF c.words = 1 THEN MagicAsLength ELSE c.len
         IN  /\ readOffset' = readOffset + Header + len
             /\ released' = released \cup (IF Complete(c) THEN {c.rec} ELSE {})
    /\ stats' = [stats EXCEPT !.committed = @ + 1,
                              !.pending = IF @ > 0 THEN @ - 1 ELSE 0]
    /\ remaining' = remaining - 1
    /\ advanced' = TRUE
    /\ UNCHANGED <<diskVars, open, segments, readSegment, pc, boundVars,
                   accepted, acked, evicted, shadowed>>

\* Mutant: the loop runs once more than asked.
CommitFrameOnceMore == remaining >= 0 /\ PassFrame

CommitFrame == remaining > 0 /\ PassFrame

\* Mutant: lower_bound, which finds the segment itself.
LowerBound(id) ==
    {p \in DOMAIN segments : segments[p] >= id /\ \A q \in 1..(p - 1) : segments[q] < id}

\* upper_bound(segments_, id), as the set of positions it can denote.
UpperBound(id) ==
    {p \in DOMAIN segments : segments[p] > id /\ \A q \in 1..(p - 1) : segments[q] <= id}

\* Mutant: the segment commit goes on to is erased instead.
EraseNext(p, id) ==
    [i \in 1..(Len(segments) - 1) |-> segments[IF i < p THEN i ELSE i + 1]]

\* segments_ without `id`, which sits right before position p.
Erase(p, id) ==
    IF p > 1 /\ segments[p - 1] = id
    THEN [i \in 1..(Len(segments) - 1) |-> segments[IF i < p - 1 THEN i ELSE i + 1]]
    ELSE segments

\* The segment is used up and commit wants more: delete it, go to the next.
\* The ifstream on it is still open, so the deletion may be refused.
CommitRetire ==
    /\ pc = "commit" /\ remaining > 0 /\ advanced
    /\ readSegment \in DOMAIN disk /\ HeadersAtCursor = {}
    /\ \E p \in UpperBound(readSegment) :
         /\ segments' = Erase(p, readSegment)
         /\ readSegment' = segments[p]
    /\ readOffset' = 0
    /\ disk' = IF RemovesOpenFile
               THEN [id \in DOMAIN disk \ {readSegment} |-> disk[id]]
               ELSE disk
    /\ advanced' = FALSE
    /\ UNCHANGED <<stateFile, open, stats, pc, remaining, boundVars, historyVars>>

\* The segment's file is gone: go to the next one.
CommitMissing ==
    /\ pc = "commit" /\ remaining > 0
    /\ readSegment \notin DOMAIN disk
    /\ \E p \in UpperBound(readSegment) : readSegment' = segments[p]
    /\ readOffset' = 0
    /\ UNCHANGED <<diskVars, open, segments, stats, callVars, boundVars, historyVars>>

CommitLeaves(loopEnds) ==
    /\ pc = "commit"
    /\ loopEnds
    /\ pc' = "save"
    /\ remaining' = 0
    /\ advanced' = FALSE
    /\ UNCHANGED <<diskVars, memoryVars, boundVars, historyVars>>

NoSegmentLeft == HeadersAtCursor = {} /\ UpperBound(readSegment) = {}

\* Mutant: commit goes round again when it has read nothing.
CommitStopNeverStuck == CommitLeaves(remaining = 0 \/ NoSegmentLeft)

\* Mutant: commit gives up whenever it has not read a frame yet.
CommitStopEarly == CommitLeaves(remaining = 0 \/ NoSegmentLeft \/ ~advanced)

\* The loop ends: all released, no segment to go on to, or nothing left to
\* read in a segment it has read nothing from.
CommitStop ==
    CommitLeaves(\/ remaining = 0
                 \/ NoSegmentLeft
                 \/ readSegment \in DOMAIN disk /\ HeadersAtCursor = {} /\ ~advanced)

-----------------------------------------------------------------------------

AppendSteps ==
    \/ \E len \in Lens : AppendWrite(len)
    \/ \E len \in Lens : \E words \in 0..(Header + len - 1) : AppendFails(len, words)
    \/ \E len \in Lens : \E words \in 0..(Header + len - 1) : CrashMidAppend(len, words)
    \/ AppendCannotOpen
    \/ Evict
    \/ WithinBounds

SaveSteps == SaveState \/ SaveRemove \/ SaveRename \/ SaveFails

CommitSteps == CommitFrame \/ CommitRetire \/ CommitMissing \/ CommitStop

Next ==
    \/ Open
    \/ ReadStats
    \/ Crash
    \/ AppendSteps
    \/ \E count \in 1..Cardinality(Pending) : CommitStart(count)
    \/ CommitSteps
    \/ SaveSteps

Spec == Init /\ [][Next]_vars

\* A call, once entered, is run to its end by the thread that made it.
FairSpec ==
    /\ Spec
    /\ WF_vars(Evict \/ WithinBounds)
    /\ WF_vars(CommitSteps)
    /\ WF_vars(SaveSteps)

-----------------------------------------------------------------------------
(* Properties *)

StateType == [present : BOOLEAN, seg : Nat, off : Nat, committed : Nat, dropped : Nat]

StatsType == [appended : Nat, committed : Nat, dropped : Nat, pending : Nat]

DiskTypeOK ==
    /\ disk = [id \in DOMAIN disk |-> disk[id]]
    /\ DOMAIN disk \subseteq Nat \ {0}
    /\ \A id \in DOMAIN disk : disk[id] \in Seq(Chunk)
    /\ stateFile \in StateType

MemoryTypeOK ==
    /\ open \in BOOLEAN
    /\ segments \in Seq(Nat \ {0})
    /\ readSegment \in Nat
    /\ readOffset \in Nat
    /\ stats \in StatsType
    /\ pc \in {"idle", "bounds", "save", "rename", "commit"}
    /\ remaining \in Nat
    /\ advanced \in BOOLEAN

HistoryTypeOK ==
    /\ nextRec \in Nat \ {0}
    /\ crashes \in 0..MaxCrash
    /\ torn \in 0..MaxTorn
    /\ accepted \subseteq 1..(nextRec - 1)
    /\ acked \subseteq 1..(nextRec - 1)
    /\ released \subseteq 1..(nextRec - 1)
    /\ evicted \subseteq 1..(nextRec - 1)
    /\ shadowed \subseteq 1..(nextRec - 1)

\* The kinds of values every variable holds.
TypeOK == DiskTypeOK /\ MemoryTypeOK /\ HistoryTypeOK

\* segments_ is strictly ascending and no segment file at or after the read
\* cursor is missing from it, whichever order appends, evictions, commits and
\* refused deletions came in: peek and upper_bound both rely on it.
SegmentsListed ==
    open => /\ Ascending(segments)
            /\ \A id \in DOMAIN disk : id >= readSegment => id \in Elements(segments)

CursorLeq(seg1, off1, seg2, off2) == seg1 < seg2 \/ (seg1 = seg2 /\ off1 <= off2)

\* The cursor save_state left on disk is never ahead of the one in memory, so
\* a restart may send again but cannot skip.
StateNeverAhead ==
    open /\ stateFile.present =>
        CursorLeq(stateFile.seg, stateFile.off, readSegment, readOffset)

\* While a process lives, append, eviction and commit move its read cursor
\* forward only: a record commit has passed is not read again.
CursorForward ==
    [][open /\ open' => CursorLeq(readSegment, readOffset, readSegment', readOffset')]_vars

Due == accepted \ (released \cup evicted \cup shadowed)

\* What the queue would hold if the process died now and opened it again.
PendingAfterRestart ==
    UNION {LET cursor == CursorIn(segs) IN PeekAll(disk, segs, cursor.seg, cursor.off) :
              segs \in Listings}

\* A record append has put on disk is still to be read, by this process and by
\* a restart at any point of any call, until commit passes it or an eviction
\* deletes it ("lost nothing", spool.hpp).  Only records appended behind a
\* torn frame are exempt; AcceptedReadable is about those.
NothingLost ==
    /\ open => Due \subseteq Pending
    /\ Due \subseteq PendingAfterRestart

\* commit walks over acknowledged records only, the oldest first, although it
\* follows the length fields blindly, through torn frames and into whatever
\* lies behind them.
OnlyAckedReleased ==
    /\ released \subseteq acked \cup shadowed
    /\ \A r \in released \ shadowed : \A q \in Due : r < q

\* commit's seek past a torn frame can leave the cursor beyond the end of a
\* file, but never of the file appends still go to: a record written there
\* later would lie before the cursor.
ActiveNotOverrun ==
    open /\ segments # <<>> /\ readSegment = segments[Len(segments)] =>
        readOffset <= SizeOf(FileAt(disk, readSegment))

\* The counters, kept by increments in four places, add up.  stats_.pending is
\* what peek would count whenever no call is running.  Over one process's life
\* every record is committed, dropped or pending, and an eviction's loss "is
\* counted and reported, never silent" (enforce_bounds); it is counted in
\* memory, until the next save_state.
StatsBalance ==
    open =>
        /\ torn = 0 /\ pc = "idle" => stats.pending = Cardinality(Pending)
        /\ torn = 0 /\ crashes = 0 =>
               stats.appended = stats.committed + stats.dropped + stats.pending
        /\ crashes = 0 /\ pc = "idle" => Cardinality(evicted) <= stats.dropped

\* commit releases all the records it was told to, or none: it stops short only
\* at the end of a segment that an earlier call had already finished.
AllOrNothing ==
    [][torn = 0 /\ pc = "commit" /\ pc' = "save" =>
          remaining = 0 \/ (~advanced /\ readOffset > 0)]_vars

\* Every call returns: the loops of enforce_bounds and of commit end, whatever
\* torn frames, missing files and refused deletions they meet.
CallsReturn == pc # "idle" ~> pc = "idle"

LargestFrame == Header + Max(Lens)

\* The files of one process stay within max_bytes, or within one segment
\* where a single segment is larger than that.
DiskBudget ==
    LET bound == Max({MaxWords, SegmentWords - 1 + LargestFrame}) IN
    torn = 0 /\ crashes = 0 /\ open /\ pc = "idle" =>
        MapThenSumSet(LAMBDA id : SizeOf(disk[id]), DOMAIN disk) <= bound

\* Every record append took is readable until it is released or evicted, torn
\* frames or not: opening the spool cuts a torn tail off ("truncates there",
\* spool.hpp), so nothing is appended behind one.
AcceptedReadable ==
    open /\ pc = "idle" => accepted \ (released \cup evicted) \subseteq Pending

=============================================================================
