----------------------------- MODULE MCReporter -----------------------------
(***************************************************************************)
(* Small instances of Reporter.                                            *)
(***************************************************************************)
EXTENDS Reporter

=============================================================================
