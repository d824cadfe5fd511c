---------------------------- MODULE MCPipeServer ----------------------------
(* The pipe server, for TLC. *)
EXTENDS PipeServer
=============================================================================
