------------------------------ MODULE MCSpool ------------------------------
(* Small instances of Spool: every constant is given in a configuration. *)
EXTENDS Spool

=============================================================================
