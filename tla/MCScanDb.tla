------------------------------ MODULE MCScanDb ------------------------------
(* Two machines, which may have the same host name or not. *)
EXTENDS ScanDb, TLC

CONSTANTS a1, a2, h1, h2

MCAgents == {a1, a2}
MCHosts == {h1, h2}
Symmetry == Permutations(MCAgents) \cup Permutations(MCHosts)
=============================================================================
