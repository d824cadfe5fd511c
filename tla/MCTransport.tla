---------------------------- MODULE MCTransport ----------------------------
(* Small instances of Transport, and one with the numbers of the code. *)
EXTENDS Transport
=============================================================================
