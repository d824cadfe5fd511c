------------------------------ MODULE PostCall ------------------------------
(***************************************************************************)
(* What the reporter relies on when it calls Transport::post: the cloud    *)
(* stores the batch or not, the answer may say less than what happened,    *)
(* and it is ok only if the batch is stored.  Module Reporter is built on  *)
(* this; module Transport implements it.                                   *)
(***************************************************************************)
CONSTANT Batches

VARIABLES
    call,    \* "idle", "out", or the answer: "ok", "retry", "permanent"
    sending, \* the batch of this call, or of the next
    stored   \* batches the cloud has stored

PostInit == call = "idle" /\ sending \in Batches /\ stored = {}

Begin ==
    /\ call # "out"
    /\ call' = "out"
    /\ sending' \in Batches
    /\ UNCHANGED stored

Store ==
    /\ call = "out"
    /\ stored' = stored \cup {sending}
    /\ UNCHANGED <<call, sending>>

Answer ==
    /\ call = "out"
    /\ call' \in {"ok", "retry", "permanent"}
    /\ stored' \in {stored, stored \cup {sending}}
    /\ call' = "ok" => sending \in stored'
    /\ UNCHANGED sending

\* The caller is done with the answer and turns to another batch, or not.
Forget ==
    /\ call # "out"
    /\ call' = "idle"
    /\ sending' \in Batches
    /\ UNCHANGED stored

PostSpec == PostInit /\ [][Begin \/ Store \/ Answer \/ Forget]_<<call, sending, stored>>
=============================================================================
