----------------------------- MODULE Transport -----------------------------
(***************************************************************************)
(* The way of a batch to the cloud: post() of the two TLS backends step by *)
(* step, the classification of its outcome, the backoff between attempts,  *)
(* and the drain loop of main.cpp that they serve.                         *)
(*                                                                         *)
(* The spool is a queue of batches here (module Spool has its files).      *)
(* Time is counted in slices of sleep_interruptible.  A call of post that  *)
(* blocks has a timeout for each thing it waits for, and no limit to how   *)
(* many those are.                                                         *)
(***************************************************************************)
EXTENDS Integers, Sequences, FiniteSets

CONSTANTS
    Backends,     \* the builds: "winhttp", "openssl", "none"
    MaxBatches,   \* bound: batches ever spooled
    MaxChanges,   \* bound: how often trouble starts or ends
    MaxAttempts,  \* opt.max_attempts
    Timeout,      \* timeout_ms
    Patience,     \* bound: timeouts that one call waits out
    BaseDelay,    \* base_ms
    CapDelay,     \* cap_ms
    MaxExponent,  \* the clamp of the exponent, 20
    MaxInt,       \* the largest 64-bit signed integer
    HangTime      \* hang_timeout_s

Batches == 1..MaxBatches

ASSUME TransportAssumption ==
    /\ Backends \subseteq {"winhttp", "openssl", "none"}
    /\ MaxBatches \in Nat \ {0} /\ MaxAttempts \in Nat \ {0}
    /\ Timeout \in Nat /\ Patience \in Nat /\ HangTime \in Nat
    /\ BaseDelay \in Nat \ {0} /\ CapDelay \in Nat /\ MaxExponent \in Nat
    /\ MaxInt \in Nat /\ BaseDelay <= MaxInt

VARIABLES
    backend,   \* the TLS library of this build
    rejected,  \* batches the cloud answers with a 4xx
    calm,      \* no trouble: every call succeeds, the peer is the pinned one
    changes,   \* how often calm has changed
    pc,        \* the step of post() or of drain
    cert,      \* a client certificate is loaded
    handles,   \* what post has opened and not closed
    peer,      \* whose certificate the server of this connection showed
    result,    \* Transport::Result: "none", "ok", "retry", "permanent"
    queue,     \* the spool: batches first..last
    stored,    \* batches the cloud has stored
    attempt,   \* drain's local
    delay,     \* what is left of the backoff
    stop,      \* service::stop_requested()
    kept,      \* history: the last commit released nothing
    refusals,  \* history: posts of this drain that met a wrong peer or a 4xx
    posts,     \* history: posts since the drain began or last had a batch accepted
    slept,     \* history: slices slept since then
    outage     \* history: time gone by since then, up to one past HangTime

env     == <<backend, rejected, cert>>
weather == <<calm, changes>>
conn    == <<handles, peer>>
drain   == <<queue, attempt, delay, kept, posts, slept>>
tvars   == <<env, weather, pc, conn, result, stored, drain, refusals, outage, stop>>

TransportInit ==
    /\ backend \in Backends
    /\ rejected \in SUBSET Batches
    /\ calm = TRUE /\ changes = 0
    /\ pc = "init" /\ cert = FALSE
    /\ handles = {} /\ peer = "none"
    /\ result = "none"
    /\ queue = [first |-> 1, last |-> 0]
    /\ stored = {} /\ attempt = 0 /\ delay = 0 /\ stop = FALSE
    /\ kept = FALSE /\ refusals = 0 /\ posts = 0 /\ slept = 0 /\ outage = 0

\* Trouble comes and goes: the network, the proxy, the cloud, the machine.
Change ==
    /\ changes < MaxChanges
    /\ calm' = ~calm /\ changes' = changes + 1
    /\ UNCHANGED <<env, pc, conn, result, stored, drain, refusals, outage, stop>>

RequestStop ==
    /\ ~stop /\ stop' = TRUE
    /\ UNCHANGED <<env, weather, pc, conn, result, stored, drain, refusals, outage>>

-----------------------------------------------------------------------------
(* make_transport *)

\* parse_url: https with a host, or nothing.
UrlAccepted(url) == url = "https"

\* A certificate file, where one is named, must load with the key that goes
\* with it.
LoadsClient(file) == file \in {"none", "usable"}

\* init of either backend: a pin of 64 digits, and the certificate.
InitAccepts(pin, file) == pin = "64 digits" /\ LoadsClient(file)

MakeTransport ==
    /\ pc = "init"
    /\ \E url \in {"https", "other scheme", "no scheme", "no host"},
         pin \in {"64 digits", "other"}, file \in {"none", "usable", "unusable"} :
         IF backend = "none" \/ (UrlAccepted(url) /\ InitAccepts(pin, file))
         THEN pc' = "idle" /\ cert' = (backend # "none" /\ file = "usable")
         ELSE pc' = "refused" /\ UNCHANGED cert
    /\ UNCHANGED <<backend, rejected, weather, conn, result, stored, drain, refusals, outage, stop>>

-----------------------------------------------------------------------------
(* post *)

Steps ==
    CASE backend = "winhttp" -> <<"session", "connect", "request", "attach", "handshake",
                                  "pin", "write", "response">>
      [] backend = "openssl" -> <<"dial", "ssl", "handshake", "pin", "write", "response">>
      [] backend = "none"    -> <<"no backend">>

Then(step) == Steps[(CHOOSE i \in DOMAIN Steps : Steps[i] = step) + 1]

Opening == {"session", "connect", "request", "dial", "ssl"}

\* Mutant: the failure of the third call leaves the second one's handle open.
ClosesTooFew(step) == IF step = "request" THEN {"session"} ELSE Opening

\* What each way out of post closes: the early ones by hand, the later ones
\* through cleanup or finish.
Closes(step) ==
    CASE step = "session" -> {}
      [] step = "connect" -> {"session"}
      [] step = "request" -> {"connect", "session"}
      [] step = "dial"    -> {}
      [] step = "ssl"     -> {"dial"}
      [] OTHER            -> IF backend = "winhttp" THEN {"request", "connect", "session"}
                             ELSE {"ssl", "dial"}

\* Which failed calls set retryable.  A wrong peer does not, and neither does
\* a certificate that cannot be attached.
Failure(step) == IF step \in {"pin", "attach", "no backend"} THEN "permanent" ELSE "retry"

\* Mutant: anything from 200 up to a server error is a success.
OkBelow500(status) ==
    IF status >= 200 /\ status < 500 THEN "ok"
    ELSE IF status >= 500 \/ status = 429 THEN "retry" ELSE "permanent"

Classify(status) ==
    IF status >= 200 /\ status < 300 THEN "ok"
    ELSE IF status >= 500 \/ status = 429 THEN "retry" ELSE "permanent"

\* Time that counts for the outage.
Spend(time) == outage' = IF outage + time > HangTime THEN HangTime + 1 ELSE outage + time

\* The calls that wait for the network: addresses that do not answer, records
\* of the handshake, parts of the body, parts of the response.
Blocking == {"dial", "handshake", "write", "response"}

Takes == \E n \in IF pc \in Blocking /\ ~calm THEN 0..Patience ELSE {0} : Spend(n * Timeout)

\* post goes on with its next call.
GoesOn == pc' = Then(pc) /\ Takes /\ UNCHANGED result

\* post returns.
Return(answer) ==
    /\ result' = answer
    /\ handles' = handles \ Closes(pc) /\ peer' = "none"
    /\ pc' = "answer" /\ Takes

\* A call that opens something, or the ones that change nothing we follow.
CallSucceeds ==
    /\ pc \in Opening \cup {"attach"}
    /\ handles' = IF pc \in Opening THEN handles \cup {pc} ELSE handles
    /\ GoesOn
    /\ UNCHANGED <<env, weather, peer, stored, drain, refusals, stop>>

CallFails ==
    /\ pc \in Opening \cup {"handshake"} \cup (IF cert THEN {"attach"} ELSE {})
    /\ ~calm
    /\ Return(Failure(pc))
    /\ UNCHANGED <<env, weather, stored, drain, refusals, stop>>

\* WinHttpSendRequest without its data, SSL_connect.
Handshake ==
    /\ pc = "handshake"
    /\ peer' \in IF calm THEN {"pinned"} ELSE {"pinned", "other"}
    /\ GoesOn
    /\ UNCHANGED <<env, weather, handles, stored, drain, refusals, stop>>

\* Mutant: a peer whose certificate cannot be read is let through.
PinUnreadable ==
    /\ pc = "pin"
    /\ \/ (peer = "pinned" \/ ~calm) /\ GoesOn /\ UNCHANGED <<conn, refusals>>
       \/ peer = "other" /\ Return(Failure("pin")) /\ refusals' = refusals + 1
    /\ UNCHANGED <<env, weather, stored, drain, stop>>

\* verify_pin: the peer's certificate is read, hashed and compared.
VerifyPin ==
    /\ pc = "pin"
    /\ \/ peer = "pinned" /\ GoesOn /\ UNCHANGED <<conn, refusals>>
       \/ (peer = "other" \/ ~calm) /\ Return(Failure("pin")) /\ refusals' = refusals + 1
    /\ UNCHANGED <<env, weather, stored, drain, stop>>

\* What the cloud makes of a whole body.
CloudStores == stored' \in
    LET with == stored \cup {queue.first}
    IN  IF queue.first \in rejected THEN {stored} ELSE IF calm THEN {with} ELSE {stored, with}

\* WinHttpWriteData, write_all.  A write that fails may have got through.
WriteBody ==
    /\ pc = "write"
    /\ CloudStores
    /\ \/ GoesOn /\ UNCHANGED conn
       \/ ~calm /\ Return(Failure("write"))
    /\ UNCHANGED <<env, weather, drain, refusals, stop>>

\* The statuses the cloud, or something on the way, may answer with.
Statuses ==
    (IF queue.first \in stored THEN {200} ELSE {})
      \cup (IF queue.first \in rejected THEN {400} ELSE {})
      \cup (IF calm THEN {} ELSE {429, 500})

Answered ==
    /\ pc = "response"
    /\ \E status \in Statuses :
         Return(Classify(status)) /\ refusals' = IF status = 400 THEN refusals + 1 ELSE refusals
    /\ UNCHANGED <<env, weather, stored, drain, stop>>

\* Nothing came: WinHttpReceiveResponse fails, or SSL_read's loop ends with
\* an empty response.
NoResponse ==
    /\ pc = "response"
    /\ ~calm \/ queue.first \notin stored \cup rejected
    /\ Return(Failure("response"))
    /\ UNCHANGED <<env, weather, stored, drain, refusals, stop>>

\* SSL_read's loop takes a timeout for the end of the response: of "HTTP/1.1
\* 200" only "HTTP/1.1 20" or less may be there, which atoi reads as 20, 2 or 0.
CutResponse ==
    /\ pc = "response" /\ ~calm /\ backend = "openssl"
    /\ \E status \in {0, 2, 20} : Return(Classify(status))
    /\ UNCHANGED <<env, weather, stored, drain, refusals, stop>>

\* transport_none.cpp
NoBackend ==
    /\ pc = "no backend"
    /\ Return(Failure(pc))
    /\ UNCHANGED <<env, weather, stored, drain, refusals, stop>>

-----------------------------------------------------------------------------
(* drain *)

\* on_inventory: one more batch is spooled, or the append fails; then drain.
StartCycle ==
    /\ pc = "idle" /\ ~stop
    /\ queue' \in {queue} \cup
         (IF queue.last < MaxBatches THEN {[queue EXCEPT !.last = @ + 1]} ELSE {})
    /\ pc' = "drain" /\ attempt' = 0
    /\ refusals' = 0 /\ posts' = 0 /\ slept' = 0 /\ outage' = 0
    /\ UNCHANGED <<env, weather, conn, result, stored, delay, kept, stop>>

\* The top of the loop.
Drain ==
    /\ pc = "drain"
    /\ IF stop \/ queue.first > queue.last
       THEN pc' = "idle" /\ UNCHANGED posts
       ELSE pc' = Steps[1] /\ posts' = posts + 1
    /\ UNCHANGED <<env, weather, conn, result, stored, queue, attempt, delay, kept, slept,
                   refusals, outage, stop>>

\* result.ok: commit.  It releases the batch, or nothing where the cursor stands
\* at a segment's end (module Spool).  When the state cannot be saved it returns
\* false, and the cycle is over; the cursor in memory has moved all the same.
Commit ==
    /\ pc = "answer" /\ result = "ok"
    /\ \E releases \in BOOLEAN, saved \in BOOLEAN :
         /\ queue' = IF releases THEN [queue EXCEPT !.first = @ + 1] ELSE queue
         /\ kept' = ~releases
         /\ IF saved
            THEN pc' = "drain" /\ attempt' = 0 /\ posts' = 0 /\ slept' = 0 /\ outage' = 0
            ELSE pc' = "idle" /\ UNCHANGED <<attempt, posts, slept, outage>>
    /\ result' = "none"
    /\ UNCHANGED <<env, weather, conn, stored, delay, refusals, stop>>

\* Mutant: a permanent failure ends the reporter, not the cycle.
GivesUpForGood ==
    /\ pc = "answer" /\ result = "permanent"
    /\ result' = "none" /\ pc' = "refused"
    /\ UNCHANGED <<env, weather, conn, stored, drain, refusals, outage, stop>>

\* !result.retryable: the batch stays, the cycle is over.
GivesUp ==
    /\ pc = "answer" /\ result = "permanent"
    /\ result' = "none" /\ pc' = "idle"
    /\ UNCHANGED <<env, weather, conn, stored, drain, refusals, outage, stop>>

\* base_ms << n in 64 bits: n doublings, of which the high bit is lost.
Shifted[n \in 0..MaxExponent] ==
    IF n = 0 THEN BaseDelay ELSE (2 * Shifted[n - 1]) % (2 * MaxInt + 2)

\* The clamp is where it belongs: up to it no doubling overflows, and at it the
\* cap has been reached.
ASSUME ClampAssumption ==
    /\ \A n \in 1..MaxExponent : 2 * Shifted[n - 1] <= MaxInt
    /\ CapDelay <= Shifted[MaxExponent]

\* Mutant: the exponent is not clamped.  A shift by the width of the integer or
\* more is undefined; x86 shifts by what is left of the count modulo the width.
CeilingUnclamped(n) ==
    LET width   == CHOOSE w \in 1..64 : 2^w = 2 * MaxInt + 2
        shifted == (BaseDelay * 2^(n % width)) % (2 * MaxInt + 2)
    IN  IF shifted > CapDelay \/ shifted > MaxInt \/ shifted = 0 THEN CapDelay ELSE shifted

\* The ceiling of backoff_delay_ms.  What is above MaxInt is a negative number.
Ceiling(n) ==
    LET shifted == Shifted[IF n < MaxExponent THEN n ELSE MaxExponent]
    IN  IF shifted > CapDelay \/ shifted > MaxInt \/ shifted = 0 THEN CapDelay ELSE shifted

\* A retryable failure: the next attempt after a jittered delay, or none.
Retry ==
    /\ pc = "answer" /\ result = "retry"
    /\ attempt' = attempt + 1
    /\ result' = "none"
    /\ IF attempt' >= MaxAttempts THEN pc' = "idle" /\ UNCHANGED delay
       ELSE pc' = "sleep" /\ delay' \in 0..Ceiling(attempt')
    /\ UNCHANGED <<env, weather, conn, stored, queue, kept, posts, slept, refusals, outage, stop>>

\* sleep_interruptible: one slice, or the end.
Sleep ==
    /\ pc = "sleep"
    /\ IF delay = 0 \/ stop
       THEN pc' = "drain" /\ delay' = 0 /\ UNCHANGED <<slept, outage>>
       ELSE delay' = delay - 1 /\ slept' = slept + 1 /\ Spend(1) /\ UNCHANGED pc
    /\ UNCHANGED <<env, weather, conn, result, stored, queue, attempt, kept, posts, refusals, stop>>

PostSteps ==
    CallSucceeds \/ CallFails \/ Handshake \/ VerifyPin \/ WriteBody
      \/ Answered \/ NoResponse \/ CutResponse \/ NoBackend

Work == PostSteps \/ StartCycle \/ Drain \/ Commit \/ GivesUp \/ Retry \/ Sleep

TransportNext == Change \/ RequestStop \/ MakeTransport \/ Work

TransportSpec == TransportInit /\ [][TransportNext]_tvars

\* The worker thread goes on: calls have timeouts, and the timer of the agent
\* starts the next cycle.
TransportFairSpec == TransportSpec /\ WF_tvars(Work)

-----------------------------------------------------------------------------
(* Properties *)

\* Every variable keeps to its values, and attempts to their limit.
TransportTypeOK ==
    /\ pc \in {"init", "refused", "idle", "drain", "answer", "sleep"} \cup
              {Steps[i] : i \in DOMAIN Steps}
    /\ handles \subseteq Opening
    /\ result \in {"none", "ok", "retry", "permanent"}
    /\ attempt \in 0..MaxAttempts /\ delay \in 0..CapDelay
    /\ stored \subseteq Batches \ rejected /\ queue.first \in 1..(queue.last + 1)

\* No byte of a batch goes to a server before its certificate has matched the
\* pin on the same connection ("there is no path through post() that sends a
\* body without it", transport_openssl.cpp).
NoBodyUnpinned == pc \in {"write", "response"} => peer = "pinned"

\* Every way out of post closes what it opened, and one refusal ends the cycle: a
\* wrong peer is offered the client certificate once ("retrying it in a loop would
\* just keep offering the client certificate", transport_winhttp.cpp:264), and a
\* batch answered with a 4xx is not sent again ("must not spin forever",
\* transport.hpp:47).
EveryWayOut == (pc = "answer" => handles = {}) /\ refusals <= 1

\* What transport.hpp:71 says of the backoff: "exponential", "capped".
Backoff[n \in 0..MaxAttempts] ==
    LET doubled == IF n = 0 THEN BaseDelay ELSE 2 * Backoff[n - 1]
    IN  IF doubled > CapDelay THEN CapDelay ELSE doubled

\* The delays that may still come after n failed attempts.
DelaysAfter[n \in 0..(MaxAttempts - 1)] ==
    IF n = MaxAttempts - 1 THEN 0 ELSE DelaysAfter[n + 1] + Backoff[n + 1]

\* An outage costs drain max_attempts posts and the delays between them, whose
\* ceilings double up to the cap however many attempts there are (the clamp of
\* backoff_delay_ms, transport.cpp:59); after a stop drain begins no post and
\* sleeps no slice more (sleep_interruptible, main.cpp:300).
DrainBounded ==
    /\ [](/\ posts <= MaxAttempts /\ slept <= DelaysAfter[0]
          /\ pc = "sleep" => Ceiling(attempt) = Backoff[attempt])
    /\ [][stop => posts' <= posts /\ slept' <= slept]_tvars

\* The call as module PostCall sees it, and the batch it is about.
calling ==
    IF pc = "answer" THEN result
    ELSE IF \E i \in DOMAIN Steps : Steps[i] = pc THEN "out" ELSE "idle"

sendingBatch == IF queue.first \in Batches THEN queue.first ELSE MaxBatches

\* post keeps what module Reporter assumes of it: ok means the cloud has the
\* batch, and anything may be behind another answer.
Contract == INSTANCE PostCall WITH call <- calling, sending <- sendingBatch

KeepsContract == Contract!PostSpec

\* Once trouble is over for good, and commits release what they are asked to,
\* every spooled batch reaches the cloud whatever was going on when the trouble
\* ended; a batch the cloud rejects stays, with those behind it.  This is what
\* "cloud back -> everything drains" (README.md) comes to: commits that release
\* nothing do occur (DrainReturns of module Reporter).
CloudBackDrains ==
    <>[](calm /\ ~stop /\ ~kept) =>
        \A b \in Batches :
            queue.last >= b ~>
                b \in stored \/ backend = "none" \/ \E a \in 1..b : a \in rejected

\* A cloud that is down does not cost the agent its life: the drain, which
\* runs inside the scan's watchdog scope, ends before hang_timeout_s ("a cloud
\* that is already down costs nothing", main.cpp:268).
OutageCostsNothing == outage <= HangTime
=============================================================================
