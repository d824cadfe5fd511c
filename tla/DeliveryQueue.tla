--------------------------- MODULE DeliveryQueue ---------------------------
(***************************************************************************)
(* What the sensor promises about a record once it is spooled: it waits    *)
(* until the cloud has it, and stops waiting for no other reason than a    *)
(* drop that is owned up to.  The cloud may receive it more than once.     *)
(***************************************************************************)
EXTENDS Integers

CONSTANT Record

VARIABLES
    waiting,    \* accepted and not settled
    delivered,  \* received by the cloud, at least once
    dropped     \* given up to stay within the disk budget

vars == <<waiting, delivered, dropped>>

Init ==
    /\ waiting = {}
    /\ delivered = {}
    /\ dropped = {}

Accept(r) ==
    /\ r \notin waiting \cup delivered \cup dropped
    /\ waiting' = waiting \cup {r}
    /\ UNCHANGED <<delivered, dropped>>

\* Only waiting records are sent, or ones the cloud has: a repeat.
Deliver(batch) ==
    /\ batch \subseteq waiting \cup delivered
    /\ delivered' = delivered \cup batch
    /\ UNCHANGED <<waiting, dropped>>

Settle(batch) ==
    /\ batch \subseteq waiting \cap delivered
    /\ waiting' = waiting \ batch
    /\ UNCHANGED <<delivered, dropped>>

Drop(batch) ==
    /\ batch \subseteq waiting
    /\ waiting' = waiting \ batch
    /\ dropped' = dropped \cup batch
    /\ UNCHANGED delivered

Next ==
    \/ \E r \in Record : Accept(r)
    \/ \E batch \in SUBSET Record : Deliver(batch) \/ Settle(batch) \/ Drop(batch)

Spec == Init /\ [][Next]_vars

=============================================================================
