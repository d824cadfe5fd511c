# A TLA+ model of nano-sensor

nano-sensor is an agent that inventories a host, matches the packages against a
CVE index, stores scans in SQL Server and reports to a cloud endpoint through an
on-disk queue. This directory holds TLA+ modules for the parts where
interleavings, crashes and retries decide correctness, the TLC configurations
that check them, and TLAPS proofs for every value of the constants.

## The system's parts

| part | code | module | state |
|---|---|---|---|
| spool: on-disk queue | `src/spool.cpp` | `Spool` | modelled, checked, safety proved (the budget: where open files can be removed) |
| reporter: collect, drain, retry | `src/main.cpp` `Reporter` | `Reporter`, `DeliveryQueue` | modelled, checked, safety proved |
| transport: TLS post, pin, backoff | `src/transport*.cpp` | `Transport`, `PostCall` | modelled, checked, safety proved |
| agent: worker, waiters, locks, watchdog | `src/agent.cpp` | `Agent` | modelled, checked and safety proved within `Service` |
| service control, crash dumps | `src/service_windows.cpp`, `src/crashdump_windows.cpp`, `cmd_run` | `Service` | modelled, checked, safety proved |
| control pipe and `nsctl`'s call | `src/ipc_windows.cpp` | `PipeServer` | modelled, checked, safety proved |
| SQL Server store | `src/db_odbc.cpp` | `ScanDb`, `ScanStore` | writes and the host query modelled, checked, proved |
| version comparison | `src/vercmp.cpp` | `VersionCompare` | modelled, checked within `CveMatch`, proved to be the order described |
| CVE matching | `src/cve.cpp` | `CveMatch` | all but the JSON layout modelled, checked, proved |
| inventory, platform, JSON, log, command line, stubs, tools | | | not modelled, see the end |

How they interact: the agent's worker runs a scan, writes it to the store under
`db_mu`, publishes it under `state_mu`, then calls the reporter
(`on_inventory`): one `append` and a `drain`. Pipe clients ask the agent for
status and scans. The watchdog kills the process when a scope takes too long, the
service manager restarts it, and the spool is what survives.

The modules compose along those lines. `Reporter` runs over `Spool`. `Service`
runs over `Agent`. `Transport` runs `drain` over `post`, with the spool reduced
to a queue of batches, and shows by a refinement (`PostCall`) that `post` keeps
to what `Reporter` takes it for. `PipeServer` takes the agent's handler as one
step that returns; `Agent` takes the pipe server as threads that call it.

## The modules

**`Spool`** is `ns::Spool`. The disk is `disk` (segment id to a sequence of
chunks) and `stateFile`; the members `segments_`, `read_segment_`, `read_offset_`
and `stats_` have variables of their names. `pc`, `remaining` and `advanced` are
the position and the locals of the running call. `append` and `commit` are split
where a dying process leaves a different disk:

| code | actions |
|---|---|
| `open`, `scan_segments`, `load_state` | `Open` |
| `append` | `AppendWrite`, `AppendFails`, `AppendCannotOpen`, `CrashMidAppend` |
| `enforce_bounds` | `Evict` (one turn of the loop), `WithinBounds` |
| `commit` | `CommitStart`, `CommitFrame` (one frame), `CommitRetire` (delete, go on), `CommitMissing`, `CommitStop` |
| `save_state` | `SaveState`, or `SaveRemove` then `SaveRename`, or `SaveFails` |
| `stats` | `ReadStats` |
| death of the process, and `close` | `Crash` |

`peek` changes nothing and is the operator `Peek`.

The history variables `accepted`, `acked`, `released`, `evicted` and `shadowed`
record what happened to each record; no guard reads them.

**`Reporter`** extends `Spool` with `struct Reporter`: `phase` is the place in
`drain`, `attempt` and `batch` are its locals, `stop` the service's flag, `cloud`
what the cloud has received. The reporter is the spool's only caller, so the
spool's steps occur only inside its actions. `post` is a request that arrives or
not, followed by an answer that may be lost.

**`DeliveryQueue`** is the promise: a record waits until the cloud has it or it
is dropped to stay within the budget. `Reporter` implements it with waiting
records as accepted ones that are neither released, evicted nor behind a torn
frame. The promise covers no record behind a torn frame, so those count neither
as delivered nor as dropped; and an evicted record counts as dropped only if it
had not been released before, for evictions also delete files that are read.

**`Transport`** is `post` of the two TLS backends, call by call, inside `drain`.
`Steps` is the order of the calls; each may succeed (`CallSucceeds`), or fail
(`CallFails`) and leave through `Return`, which closes what is open (`Closes`)
and sets the result. `Handshake`, `VerifyPin`, `WriteBody`, `Answered`,
`NoResponse` and `CutResponse` are the calls whose outcome is more than that;
`Classify` is the rule for status codes and `NoBackend` the build without TLS.
`StartCycle`, `Drain`, `Commit`, `GivesUp`, `Retry` and `Sleep` are `drain`;
`Ceiling` is `backoff_delay_ms` with its clamped exponent and its width
(`Shifted`). `Commit` has the four outcomes `Spool` and `Reporter` give it: the
batch is released or not, and the state is saved or not. The cloud rejects a fixed
set of batches, and trouble (`calm`) comes and goes. A call that blocks may wait
out several timeouts (`Takes`): the code has one for each address, record and
read, and none for the whole. `kept`, `refusals`, `posts`, `slept` and `outage`
are histories; no guard reads them.

**`Agent`** is `ns::Agent`. `db_mu` and `state_mu` have owners, and each section
under one of them is entered in one step and left in another; `listeners_mu` and
`wake_mu` protect one step each. The age of a thread's watchdog scope is
counted in ticks of half of `hang_timeout_s`.

| code | actions |
|---|---|
| `worker_loop` | `WorkerWake`, `WorkerExit`, `ScanDone` |
| `run_scan` | `Collect`, `WorkerLockDb`, `WriteDb`, `UpdateState`, `StateUpdated`, `Inventory`, `Swap`, `Deliver` |
| `handle` and `handle_status` | `Handle`, `StatusState`, `StatusRead`, `StatusDb`, `StatusTry`, `StatusConn` |
| `handle_scan` | `Register`, `RequestScan`, `EndWait` |
| `handle_findings`, `handle_affected`, `dump` | `Hostname`, `HostRead`, `QueryLock`, `Query`, `DumpNow` |
| `start`, `stop` | `Start`, `StartFails`, `StopWorker`, `JoinWorker` |
| `Watchdog` | `Enter`, `Leave`, `WatchdogOn`, `Hang`, `Tick` |

The planted faults of `--inject-fault` are values of `fault`. A fifth value,
`bug`, lets any thread fail at work on what comes from outside, as an unknown bug
would.

**`Service`** is the process around the agent: `service_main` and the control
handler (`ServiceMain`, `ReportRunning`, `HandlerReports`, `HandlerSetsFlag`,
`ReportStopped`), `cmd_run`'s body (`BodyStops`), the crash filter and the dump
writer (`Fail`, `CrashFilter`, `CrashExit`, `HangExit`), and the manager with the
restart policy `install` gives it (`ScmStop`, `Die`). A dump ends complete, refused
(no file) or truncated (`Outcomes`), and the process ends all the same.

**`PipeServer`** has the acceptor (`AcceptLoop` to `AcceptorEnds`), a thread per
connection (`ReadRequest` to `CloseHandle`), `stop` (`StopBegins` to `ReapAll`)
and the client's `call` (`Call` to `TimesOut`). A blocking call is entered in one
step and returns in another, since `CancelSynchronousIo` reaches only threads
that are already in it.

**`ScanDb`** has one action per statement of `record_scan`, each of which may
fail (`Fail`), lose the session (`SessionLost`) or be the last thing the process
does (`Crash`). `CommitUnanswered` is the commit whose answer is lost. SQL Server
is external: row locks at READ COMMITTED, identities that a rollback does not
give back. **`ScanStore`** is the promise: scans appear whole, each the latest of
its host. `ScanDb` implements it with the committed, complete scans.

**`VersionCompare`** has the functions of `vercmp.cpp` as operators over
sequences of lexemes, and a reference order (`Below`) written from the rules in
`vercmp.hpp`. A `for` loop of the code is `Loop`, the function of the number of
turns made; a search that returns from its loop is a least index. **`CveMatch`**
loads the index line by line and the alias table, then scans an inventory package
by package.

The **`MC...`** modules are the ones the configurations run. The theorems are in
**`SpoolProofs`**, **`SpoolContentProofs`** and **`SpoolDeliveryProofs`**,
**`ReporterProofs`**, **`ConnectionProofs`** (for `PipeServer` and `Transport`),
**`ServiceProofs`** (for `Agent` too), **`ScanDbProofs`** and **`CveMatchProofs`**
(for `VersionCompare` too).

### What the model leaves out or assumes

- The unit of length is the 32-bit word, so a frame is torn at a word boundary.
  A tear inside the magic word is not modelled separately: `commit` stops at such
  a frame, as it does in the model at a header cut short by the end of the file.
- A CRC tells a torn payload, completed by the bytes of the next frame, from the
  one that was written.
- `fsync_on_append` and power loss: a write that returned is on disk.
- Deleting a segment in `enforce_bounds` succeeds, and so does the first rename
  where rename replaces, unless the whole save fails (`SaveFails`). In `commit`
  the deletion fails exactly when open files cannot be removed.
- `state.tmp` is never read, so it is not part of the state; a save that fails
  while writing it leaves the old state file.
- `commit` is called with at most the number of records just peeked, which is
  what `drain` does.
- A 2xx answer means the cloud has stored the batch.
- `next_sequence_` is stored and loaded and influences nothing; it is left out.
- Only one process uses the directory. Nothing in the code enforces it.
- A call of `post` that blocks takes up to `Patience` timeouts while there is
  trouble and none while there is not. The code has no such limit: a peer that
  sends a byte within each timeout keeps `post` going. No passing run says how long
  a post takes; `DrainBounded` counts posts and slept slices.
- `commit` releases the whole batch or nothing, which is `AllOrNothing` of `Spool`
  for files without a torn frame.
- `set_autocommit` succeeds, and a query is one step.
- Pipe responses fit the pipe's buffer, so a handler's write does not block.
- A version is a sequence of lexemes and a package name one of stems, spaces and
  brackets; only what the code tells apart is kept of their characters.
- The interval timer may fire at any time, up to `MaxTimer` times.

## The runs

| run | question | bounds | distinct states |
|---|---|---|---|
| `spool_posix` | is anything lost, reordered, released early or miscounted across restarts, evictions and a torn frame? | 4 records of 2 sizes, 2 crashes, 1 torn, an empty state file to start from | 760 k |
| `spool_windows` | the same where open files stay and rename does not replace, and do all calls return? | 5 records, 2 crashes, 1 torn | 183 k |
| `reporter` | at-least-once, commit after delivery, the refinement of `DeliveryQueue`, and does `drain` return? | 5 records, batches of 2, 2 attempts, 1 crash, 1 torn | 756 k |
| `service` | locks, waiters, watchdog, dumps and status reports in every interleaving | 2 connections, every request, every fault, 1 timer scan | 1,368 k |
| `service_live` | do requests, stops and wedged processes come to an end? | a `scan` and a `status`, with and without the lock cycle and the worker's crash | 57 k |
| `pipe` | do calls and `stop` return, and is every answer read? | 2 callers, 2 instances | 40 k |
| `scan_db` | whole scans, no step back, honest return values, the refinement of `ScanStore` | 2 agents, 2 host names, 3 scans, 1 row of each kind, symmetry of agents and of hosts | 527 k |
| `matching` | are the findings those of the reference order, whatever the order of the files? | 2 lines of 7, 2 alias tables, 2 packages of 15 | 116 k |
| `transport` | pin before body, no leaks, one refusal per cycle, bounded effort, and does the queue drain? | 3 backends, 2 batches, 5 attempts, 2 changes of weather | 210 k |

All of these pass. Three runs are expected to find a violation of what the
repository says of itself:

| run | what happens |
|---|---|
| `reporter_endless` | A `commit` that ended exactly at the end of a segment leaves the cursor there. The next `commit` reads no frame, takes `if (!advanced) break;` before it looks for the next segment, releases nothing and returns true: `drain` sends the same batch for ever to a healthy cloud. |
| `spool_torn_tail` | `open` does not truncate a torn tail; records appended behind it are never read. |
| `outage_kill` | `drain` runs inside the scan's watchdog scope. With the defaults six attempts, each of which waits out one timeout of 15 s, and backoffs of up to 2, 4, 8, 16 and 32 s add up to 152 s, past the 120 s of the watchdog, which ends a healthy process. |

The passing runs say how far these reach. Nothing is lost in any of them except
records behind a torn frame (`NothingLost`); `commit` falls short only at a
segment's end (`AllOrNothing`); `drain` fails to return only there
(`DrainReturnsUnlessAtEnd`); and an outage costs no more posts than `max_attempts`
and no more sleep than the capped exponential delays add up to (`DrainBounded`).
`CloudBackDrains` is weaker than `README.md`'s "cloud back -> everything drains",
which `reporter_endless` refutes: it is about behaviours whose commits in the end
release what they are asked to, and about batches with no rejected one before them.

Each module also states its type invariant (`TypeOK`, `PipeTypeOK` and so on), the
base of the inductive invariants. Those of `Spool`, `ScanDb` and `PipeServer` are
proved; the others hold on the instances above and are not listed with the runs.

### Bounds

Spool: frames of payload lengths 1 and 2 are four and five words, so in
`spool_posix`, where `SegmentWords` is 5, a segment holds one long record or two,
and `MaxWords` 12 makes the third or the fourth record evict. Four records are
enough for three segments with the cursor in each, an eviction before, at and after
the cursor, and a commit across two boundaries; two crashes are enough for a
restart that acts on what a crash after a restart left. `spool_windows` and
`reporter` have `SegmentWords` 6 and five records of one size, two to a segment.

Service: two connections are the least with which one waits while another holds a
lock the worker needs; two ticks to a hang are the least that tell a wait of half
the budget from one of the whole. A process that dies is restarted with fresh
connections, so later lives need no bound of their own.

Pipe: two callers fill two instances, so the acceptor has to wait for a free one
with a connection accepted and not yet served.

Store: two agents under one name give the races on a host's row; three scans give
one that fails between two that succeed; one row of each kind lets a scan be
half-written.

Transport: two batches put one behind a rejected one; two changes let trouble
begin and end. In `transport` integers have four bits and the exponent is clamped
at 2, so that five attempts climb past the cap, the clamp and the width, as an
attempt count of 64 would in the code. `outage_kill` has the code's own numbers and
the least `Patience`.

Matching: the catalogue has versions at, below and above every bound, with
tildes, pre-release words, epochs, numbers too long for their type, an
empty upstream part, a line that is too short, equal CVEs with other scores, and
a name with version, noise and brackets.

Symmetry is used in `scan_db` only: elsewhere records, clients and packages are
numbered by age. Deadlock is checked except in `matching`, which ends with its
report, and in `transport` and `outage_kill`, where an agent that was stopped or
whose transport could not be made does nothing more.

### Fairness

- `Spool`'s `FairSpec`: weak fairness of the steps of a running call, since the
  thread that entered it keeps running. Opening, appending and crashing are not
  fair.
- `ReporterFairSpec`, `TransportFairSpec`: weak fairness of `drain`'s steps taken
  together: the calls of `post` have timeouts and the backoff sleeps are finite (a
  peer that keeps a post going for ever by sending bytes is outside this). In
  `Reporter` nothing is assumed about which answer the cloud gives; in `Transport`
  calls succeed while the weather is calm, and the agent's cycle comes round again.
- `Service`'s `FairSpec`: a thread that can run does, time passes, and a hang
  dump gets written. Nothing is assumed of the collection, the database, the
  reporter or a crash dump: they may take for ever, and the watchdog is what ends
  them.
- `PipeServer`'s `FairSpec`: the server's threads and the callers run; no timeout
  need ever expire.

## The proofs

TLC shows a property on one instance; the theorems show it for every value of the
constants that the named assumptions allow. Each module of proofs states an
inductive invariant, shows with one lemma per action (or per kind of step) that it
is kept, and draws the theorems from it. The inductive invariants were checked
with TLC on the instances of the runs before they were proved.

### Spool

`SpoolProofs` proves, for all lengths, segment sizes, budgets, bounds and platform
behaviours that satisfy `ConstantAssumption`:

- `TypeCorrect`: `Spec => []TypeOK`;
- `Listed`: `Spec => []SegmentsListed`;
- `NeverAhead`: `Spec => []StateNeverAhead`;
- `Forward`: `Spec => CursorForward`.

The inductive invariant `IInv` is the conjunction of the first three with two
strengthenings. `CallsOpen` says that a call is running only in an open spool;
without it a crash could leave a call running on an empty list. `Directory` says
that the segment files are finitely many and that their chunks carry record
numbers below `nextRec`. Finiteness is what makes the counts of pending records
natural numbers, and the bound on record numbers is what types the history
variables. `SegmentsListed` and `StateNeverAhead` need each other through `Open`:
the cursor loaded from the file is where the list is cut.

`SpoolProofs` and `SpoolContentProofs` go on to what is in the files, with the
invariant `CInv` below (`ContentInvariance`). `SpoolContentProofs` draws the first
three of these from it and `SpoolDeliveryProofs` the others:

- `NothingIsLost`: `Spec => []NothingLost`;
- `ReleasesAcked`: `Spec => []OnlyAckedReleased`;
- `CursorWithinActive`: `Spec => []ActiveNotOverrun`;
- `CountersBalance`: `Spec => []StatsBalance`;
- `ReleasesAllOrNone`: `Spec => AllOrNothing`.

`NothingLost` is far from inductive: that a record is readable now says nothing of
where the next call will put the cursor. `CInv` says where things lie. `Layout`:
chunks lie end to end from word 0, in the order of their records, within a file
and across files. `Contents`: what is complete was accepted, and what lies behind
a torn chunk is `shadowed`. `Cursors`: every due record is reached from three
places, the start of the directory, the cursor in memory and the one in the state
file, since a restart may begin at any of them; and each cursor stands at a chunk,
at the end of its file or before a later file, so that nothing will be written
before it. `ListInv`: the segments listed, and which of them may be empty.
`CommitInv`: what `commit` has still to pass was acknowledged and is still
pending, which is what its blind walk over the length fields relies on.
`BalanceInv` adds the counters.

These five carry the hypothesis `StaleSegments \subseteq {0, 1}`. `StaleSegments`
is what a state file left in a directory without segment files may name. The
program itself leaves at most 1, and 0 stands for an empty state file. A file that
names a later segment makes the theorems false, as the last section but one says.

`SpoolDeliveryProofs` ends with the budget:

- `WithinBudget`: `Spec => []DiskBudget`, where open files can be removed
  (`RemovesOpenFile`).

`BudgetInv` says that an open spool lists every file it has, that no file is
larger than one frame makes it once it had room, and that outside
`enforce_bounds` the files are within the bound. The list matters because
`total_bytes` adds up the listed files only; where a deletion may be refused a
file can leave the list and stay, and the theorem would be false. The sums are
folds over finite sets. `IsTotal` states a fold's own equation; that there is
exactly one solution, and that any element may be taken out of the sum first, is
shown by a least counterexample among the subsets (`SmallestSet`, `TotalExists`,
`TotalAdds`), and `TotalWordsIs` and `DiskWordsIs` tie the sums of the code and of
the property to it. `LengthAssumption`, that the lengths have a largest one, is
what the 32-bit length field gives.

### Reporter

`ReporterProofs` proves

- `UsesSpool`: `ReporterSpec => Spec`: each reporter step is a spool step or
  leaves the spool alone, so the spool's theorems hold of the two together;
- `CommitAfterDelivery`: `ReporterSpec => []AckedDelivered`. The strengthening
  `DeliveryInv` says that from the peek to the answer the queue's head is still
  the batch, and that the cloud has it once it arrived. The count `drain` passes
  to `commit` then names exactly the records that were sent;
- `ImplementsQueue`: `ReporterSpec => DeliversAtLeastOnce`, the refinement of
  `DeliveryQueue`, under the same hypothesis on `StaleSegments`. It rests on
  `CInv`: a frame that `commit` passes is one the cloud has, an eviction drops what
  it deletes and no more, and a crash moves nothing (`FrameSettles`, `EvictDrops`,
  `QueueStep`).

### Transport

`ConnectionProofs`, for either TLS library or none, any number of batches, attempts
and delays:

- `BodyOnlyToPinned`: `TransportSpec => []NoBodyUnpinned`, and `WaysOutClean`:
  `TransportSpec => []EveryWayOut`. `ConnInv` says which handles are open at each
  call (`Opened`): the order of the calls and what each early return closes are
  two lists in the code, and this is where they have to agree. It also counts
  refusals: a post that is about to meet one is the first of its cycle to do so;
- `PostKeepsContract`: `TransportSpec => KeepsContract`, the refinement of
  `PostCall`, from `QueueInv`: a post is about the head of the queue, and `ok`
  about a batch that is stored;
- `DrainInTime`: `TransportSpec => DrainBounded`. `EffortInv` is an account: the
  attempts and delays that are left pay for the posts and slices to come. The
  schedule of the code is a clamped shift of machine integers and the one of the
  property a capped doubling; `CeilingIs` shows them equal for any attempt, from
  `ClampAssumption`: up to the clamp no doubling overflows, and at the clamp the
  cap has been reached (`ShiftDoubles`, `BackoffDoubles`, `Climb`). The lemma
  `DelaysAddUp` says that the recursive function `DelaysAfter` satisfies its own
  equation; `Recursion` and `SumExists` find the solutions by a least
  counterexample.

### Agent and service

`ServiceProofs`, for any number of clients, any commands and any fault:

- `LockRule`: `Spec => []NeverBoth`, from `LockInv`, which says who can hold each
  mutex and in which section of the code;
- `StoppedTrue`: `Spec => []StoppedIsTrue`, and `StoppedLast`:
  `Spec => StoppedIsLast`, from `PhaseInv`: what runs in each phase, and that the
  control handler has returned before the flag can be seen;
- `CrashDumpsWhole`: `Spec => []CrashDumpWhole`, from `DumpInv`: one thread writes,
  and while the process lives there is no other crash dump;
- `DeliveriesSound`: `Spec => []DeliverySound`, from `WaiterInv` (a waiter is in
  one list, once, and freed when in none) and `ResultInv` (the scan the worker
  tells of is published);
- `WaitingNoHang` and `StatusAtOnce`:
  `Spec /\ []PromptRuns => []WaitIsNoHang` and `... => []StatusPrompt`, from
  `AgeInv`, how old a handler's scope can be at each of its steps. Time passes in
  the model only when no prompt step is enabled, and the prover does not reason
  about `ENABLED`. `PromptRuns` says what it means for the steps of a handler,
  and of a worker that holds `state_mu`: at these places, with these locks free,
  there is a step. It holds by the
  definition of `PromptStep`, and TLC finds it true in every state of the instance
  of `service`.

### Control pipe

`ConnectionProofs`, for any number of callers and any limit on instances:

- `AnswersKept`: `Spec => []AnswerKept`;
- `AlwaysFound`: `Spec => NeverNotFound`;
- `StopLeavesNone`: `Spec => []NoThreadLeft`, the safety half of `StopReturns`.

`PipeInv` ties the two ends of each connection together (`LinkInv`), says which
instances are the acceptor's own (`AcceptInv`), why a server thread may close its
end (`ServeInv`) and what `stop` has waited for (`StoppedInv`). `AlwaysFound` needs
`AcceptInv`: the acceptor makes the next instance before it hands the last one to
a thread, and the thread cannot close what it does not have.

### SQL Server store

`ScanDbProofs`, for any fleet and any host names:

- `ScansWhole`: `Spec => []NeverHalfWritten`;
- `AnswerTrue`: `Spec => []ReturnIsTrue`;
- `NeverBack`: `Spec => ReadsForward`;
- `ImplementsStore`: `Spec => StoresWhole`, the refinement of `ScanStore`.

`ScanDbInv` says what a transaction holds at each statement (`TxInv`), that one
agent has a host's row (`LockInv`), that a scan's number is given once (`IdInv`),
and that an agent with the row has a newer number than the host points to
(`StoreInv`). The last one is why `record_scan` updates the host before it inserts
the scan.

### Version comparison and CVE matching

`CveMatchProofs`, for any index, alias table, inventory and words:

- `CompareBelow`: `Compare` answers -1, 0 or 1, and -1 exactly where `Below`, the
  dictionary order of the rules, holds, for two versions whose words agree
  (`WordsAgree`; the next section says what happens where they do not);
- `CompareIsOrder`: for three such versions `Compare` changes its sign with the
  order of its arguments, and is transitive;
- `FindingsExactHolds`: `MatchSpec => []FindingsExact`;
- `ResolvesToLongestHolds`: `MatchSpec => []ResolvesToLongest`;
- `ReportAddsUpHolds`: `MatchSpec => []ReportAddsUp`.

The comparison walks two sequences of tokens together. `FirstDifference` finds the
first place where they differ, and `LetterType` gives each token, and the end of a
version, one letter, so that `Compare` is the order of the letters there; tildes
and pre-release words have letters below the end's.

`MatchInvariance` proves the inductive invariant `MInv`. `RulesFiled`: under each
product stand the complete lines of the index that name it. `AliasesLoaded`: the
prefixes are the lines of the table, longest first. `FindingsSoFar` and
`CountsSoFar`: findings and counts are those of the packages scanned so far.
`ReportMade`: a finished report is the findings, sorted. `FindingsExact` then rests
on `BestRuleOf`, which says what `match`'s loop over the rules keeps, and
`HitsRight`, which turns `Compare` into `Below`.

A loop of the code is a recursive function of the turn. `Iteration` shows, by a
least counterexample, that it satisfies its own equation, and each loop's
invariant is shown the same way; no induction rule is used.

### What stays with TLC

Liveness, which is out of the prover's reach: `CallsReturn`,
`DrainReturnsUnlessAtEnd`, `RequestServed`, `StopEnds`, `WedgedEnds`,
`CallReturns`, `StopReturns` (but for `NoThreadLeft`) and `CloudBackDrains`. Every
safety property of a passing run, and every refinement, is proved, under the
hypotheses named above. That `PromptRuns` spells out `ENABLED` is checked and not
proved.

## What the modelling brought up

Things the properties have to make exceptions for, or that a reader of the code
may want to know. None of them has a run of its own.

- A process that dies between an eviction and `save_state` forgets the dropped
  count (`spool.cpp:283`); `StatsBalance` counts losses over one life of the
  process.
- A state file left in a wiped directory makes new records invisible
  (`spool.cpp:140`): there are no segments to correct the cursor by.
- Where two frames of one segment are torn, `commit`'s jump over them can land on
  a record appended behind them, which `peek` then finds and `drain` sends. So a
  record behind a torn frame may be delivered or not; the mapping to
  `DeliveryQueue` leaves these records out.
- A segment whose deletion is refused in `commit` is no longer counted against
  the budget until a restart (`spool.cpp:399`); `DiskBudget` is checked where open
  files can be removed.
- A batch the cloud rejects for good stays at the head of the queue, and what is
  behind it waits (`main.cpp:342`); `CloudBackDrains` exempts it.
- A response that a timeout cuts inside its status line counts as permanent
  (`transport_openssl.cpp:233`), where `transport.hpp:45-48` calls a timeout
  retryable; so does a client certificate that cannot be attached. No property
  asks for more than the code does here.
- `post` has no deadline of its own (`transport_openssl.cpp:209`): it may outlast
  `hang_timeout_s` by itself, and a stop waits for it.
- `MiniDumpWriteDump` may fail after the file was made and leave a truncated `.dmp`
  (`crashdump_windows.cpp:66`), which nothing removes. `CrashDumpWhole` is about
  two threads that fail, not about the file.
- `CancelSynchronousIo` is called once per client thread (`ipc_windows.cpp:281`).
  A client that keeps its connection open while its thread was still writing makes
  `stop` wait for it; `StopReturns` assumes clients that close. For the same
  reason the refusal of a request that is too large may be lost.
- A waiter that registers while a scan is about to finish is told of that scan.
- After a failure `scan_id` names a scan that was rolled back (`db_odbc.cpp:381`),
  where `agent.cpp:31` says 0.
- The order of versions has a cycle where a pre-release word meets another word:
  1.0p2 < 1.0rc1 < 1.0 < 1.0p2. `FindingsExact` is stated for versions and
  bounds whose words agree (`WordsAgree`).
- A version such as `-1` has an empty upstream part: the package counts as mapped
  and with a version, and can match nothing (`cve.cpp:216`).
- A line of the index whose last cell is empty has 11 cells and is skipped
  (`cve.cpp:125`).
- `resolve` falls back to shorter and shorter names down to the first word.
- A stop during a start that fails can leave `STOP_PENDING` as the last status.
- A hang's exit may cut a crash dump short that another thread is writing.

## Not modelled

- Inventory and platform code, `procinfo`: they read the operating system and
  format what they find; they keep no state.
- JSON, logging, `findings_to_json`: the layout of text.
- The command line and `nsctl`'s `main`: parsing of options and printing;
  `nsctl`'s only protocol step is `call`, which `PipeServer` has.
- `install` and `uninstall`: one conversation with the service manager each; the
  restart policy they set is in `Service`.
- `exec`, `scalar` and `column` of the store: fixed SQL for the benchmark and the
  tests. `hosts_affected` reads through the same pointer as `host_findings`.
- The tools: benchmarks, test harnesses, the stand-in for the cloud, the offline
  builder of the index. Platform stubs: functions that return an error.
- Access control of the pipe, the privileges of the service, certificates beyond
  the comparison with the pin, the content of dumps.
- Two processes on one spool directory; power loss.
