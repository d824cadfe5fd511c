------------------------------ MODULE Reporter ------------------------------
(***************************************************************************)
(* struct Reporter of main.cpp: collects records into the spool and drains *)
(* the spool to the cloud, in cycles.  It is the spool's only caller, so   *)
(* the spool's steps happen where the reporter's code makes the call.      *)
(*                                                                         *)
(* The transport is seen through Transport::Result: a request reaches the  *)
(* cloud or not, and whatever came of it the answer may be lost.  Only a   *)
(* request that arrived can be answered ok.                                *)
(***************************************************************************)
EXTENDS Spool

CONSTANTS
    BatchSize,    \* opt.batch_size
    MaxAttempts   \* opt.max_attempts

ASSUME ReporterAssumption ==
    /\ BatchSize \in Nat \ {0}
    /\ MaxAttempts \in Nat \ {0}

VARIABLES
    phase,    \* where the reporter is
    attempt,  \* drain's local of that name
    batch,    \* drain's local of that name
    stop,     \* service::stop_requested()
    cloud     \* records the cloud has received

localVars    == <<phase, attempt, batch>>
reporterVars == <<localVars, stop, cloud>>
allVars      == <<vars, reporterVars>>

ReporterInit ==
    /\ Init
    /\ phase = "down"
    /\ attempt = 0
    /\ batch = {}
    /\ stop = FALSE
    /\ cloud = {}

-----------------------------------------------------------------------------
(* The process *)

\* Reporter::init.  If the transport cannot be made the process ends: Die.
Start ==
    /\ phase = "down"
    /\ Open
    /\ phase' = "collect"
    /\ UNCHANGED <<attempt, batch, stop, cloud>>

Down ==
    /\ phase' = "down"
    /\ attempt' = 0
    /\ batch' = {}
    /\ stop' = FALSE
    /\ UNCHANGED cloud

\* The process ends between two writes: killed anywhere, or done.
Die == Crash /\ Down

DieMidAppend(len, words) == phase = "collect" /\ CrashMidAppend(len, words) /\ Down

\* SIGTERM or SERVICE_CONTROL_STOP, at any time.
RequestStop ==
    /\ open /\ ~stop
    /\ stop' = TRUE
    /\ UNCHANGED <<vars, localVars, cloud>>

-----------------------------------------------------------------------------
(* collect: any number of appends, which go through enforce_bounds and     *)
(* save_state before the next                                              *)

Collect ==
    /\ phase = "collect"
    /\ \/ \E len \in Lens : AppendWrite(len)
       \/ \E len \in Lens : \E words \in 0..(Header + len - 1) : AppendFails(len, words)
       \/ AppendCannotOpen
       \/ Evict
       \/ WithinBounds
       \/ SaveSteps
    /\ UNCHANGED reporterVars

-----------------------------------------------------------------------------
(* drain *)

\* The service's next cycle, or `report` once it has collected.
StartDrain ==
    /\ phase = "collect" /\ open /\ pc = "idle"
    /\ phase' = "drain"
    /\ attempt' = 0
    /\ UNCHANGED <<vars, batch, stop, cloud>>

PeekBatch ==
    /\ phase = "drain" /\ ~stop /\ Pending # {}
    /\ batch' = Peek(BatchSize)
    /\ phase' = "post"
    /\ UNCHANGED <<vars, attempt, stop, cloud>>

DrainDone ==
    /\ phase = "drain" /\ (stop \/ Pending = {})
    /\ phase' = "ended"
    /\ UNCHANGED <<vars, attempt, batch, stop, cloud>>

\* transport->post sends the batch, which gets there ...
PostArrives ==
    /\ phase = "post"
    /\ cloud' = cloud \cup batch
    /\ phase' = "arrived"
    /\ UNCHANGED <<vars, attempt, batch, stop>>

\* ... or not.
PostLost ==
    /\ phase = "post"
    /\ phase' = "lost"
    /\ UNCHANGED <<vars, attempt, batch, stop, cloud>>

\* Mutant: a request that got no answer counts as delivered.
AnyAnswerOk ==
    /\ phase \in {"arrived", "lost"}
    /\ CommitStart(Cardinality(batch))
    /\ phase' = "commit"
    /\ UNCHANGED <<attempt, batch, stop, cloud>>

\* result.ok: a 2xx came back.  commit is entered.
AnswerOk ==
    /\ phase = "arrived"
    /\ CommitStart(Cardinality(batch))
    /\ phase' = "commit"
    /\ UNCHANGED <<attempt, batch, stop, cloud>>

\* !result.retryable
AnswerPermanent ==
    /\ phase \in {"arrived", "lost"}
    /\ phase' = "ended"
    /\ UNCHANGED <<vars, attempt, batch, stop, cloud>>

\* Mutant: a failed send is not counted.
AnswerRetryUncounted ==
    /\ phase \in {"arrived", "lost"}
    /\ phase' = "sleep"
    /\ UNCHANGED <<vars, attempt, batch, stop, cloud>>

\* A retryable failure: back off, or give up for this cycle.
AnswerRetry ==
    /\ phase \in {"arrived", "lost"}
    /\ attempt' = attempt + 1
    /\ phase' = IF attempt' >= MaxAttempts THEN "ended" ELSE "sleep"
    /\ UNCHANGED <<vars, batch, stop, cloud>>

\* sleep_interruptible returns, after the delay or because of a stop.
Wake ==
    /\ phase = "sleep"
    /\ phase' = "drain"
    /\ UNCHANGED <<vars, attempt, batch, stop, cloud>>

\* commit and its save_state run; once it returns true the loop goes on with
\* attempt reset, and when it returns false the drain gives up.
RunCommit ==
    /\ phase = "commit"
    /\ \/ /\ CommitSteps \/ SaveRemove
          /\ UNCHANGED <<phase, attempt>>
       \/ /\ SaveState \/ SaveRename
          /\ phase' = "drain"
          /\ attempt' = 0
       \/ /\ SaveFails
          /\ phase' = "ended"
          /\ UNCHANGED attempt
    /\ UNCHANGED <<batch, stop, cloud>>

\* print_stats, or the service's log line, calls stats(); then the next cycle.
EndCycle ==
    /\ phase = "ended"
    /\ ReadStats
    /\ phase' = "collect"
    /\ batch' = {}
    /\ UNCHANGED <<attempt, stop, cloud>>

-----------------------------------------------------------------------------

DrainSteps ==
    \/ PeekBatch
    \/ DrainDone
    \/ PostArrives
    \/ PostLost
    \/ AnswerOk
    \/ AnswerPermanent
    \/ AnswerRetry
    \/ Wake
    \/ RunCommit
    \/ EndCycle

ReporterNext ==
    \/ Start
    \/ Die
    \/ \E len \in Lens : \E words \in 0..(Header + len - 1) : DieMidAppend(len, words)
    \/ RequestStop
    \/ Collect
    \/ StartDrain
    \/ DrainSteps

ReporterSpec == ReporterInit /\ [][ReporterNext]_allVars

\* The thread in drain keeps running, and post returns: it has timeouts.
ReporterFairSpec == ReporterSpec /\ WF_allVars(DrainSteps)

-----------------------------------------------------------------------------
(* Properties *)

\* The kinds of values the reporter's variables hold.
ReporterTypeOK ==
    /\ phase \in {"down", "collect", "drain", "post", "arrived", "lost", "commit",
                  "sleep", "ended"}
    /\ attempt \in 0..MaxAttempts
    /\ batch \subseteq 1..(nextRec - 1)
    /\ stop \in BOOLEAN
    /\ cloud \subseteq 1..(nextRec - 1)

\* commit is asked to release only what the cloud has: the count drain passes
\* still names the records it sent ("Commit only AFTER the cloud acknowledges",
\* drain).
AckedDelivered == acked \subseteq cloud

\* The top of drain's loop with the cursor at the end of a segment and records
\* in a later one.
AtSegmentEnd ==
    /\ phase = "drain" /\ Pending # {}
    /\ readSegment \in DOMAIN disk /\ HeadersAtCursor = {}

\* drain returns, however the cloud answers and whatever fails, unless it comes
\* to a segment's end: each turn releases records or uses up an attempt.
DrainReturnsUnlessAtEnd == phase = "drain" ~> phase \in {"ended", "down"} \/ AtSegmentEnd

\* drain returns, having sent everything or given up ("cloud back -> everything
\* drains", README.md).
DrainReturns == phase = "drain" ~> phase \in {"ended", "down"}

\* The reporter over its spool implements the delivery queue: a record waits
\* from append until a commit passes it, which happens to delivered records
\* only, or an eviction deletes it.  Records appended behind a torn frame are
\* outside the promise: peek may skip them or, where commit's jump over torn
\* frames lands on one, send them after all.
Abstract == INSTANCE DeliveryQueue WITH
    Record    <- 1..MaxRecord,
    waiting   <- Due,
    delivered <- cloud \ shadowed,
    dropped   <- evicted \ (released \cup shadowed)

DeliversAtLeastOnce == Abstract!Spec

=============================================================================
