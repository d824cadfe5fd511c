----------------------------- MODULE MCService -----------------------------
(* The service with two pipe clients. *)
EXTENDS Service

MCFaults == {"none", "uaf", "deadlock", "worker_crash", "bug"}
MCCommands == <<{"ping", "status", "scan", "findings", "affected", "dump"},
                {"status", "scan", "findings"}>>

(* For liveness: a scan and a status, with and without the lock cycle. *)
LiveFaults == {"none", "deadlock", "worker_crash"}
LiveCommands == <<{"scan"}, {"status"}>>
=============================================================================
