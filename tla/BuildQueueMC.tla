---------------------------- MODULE BuildQueueMC ----------------------------
(***************************************************************************)
(* BuildQueue on small instances.                                          *)
(***************************************************************************)
EXTENDS BuildQueue, TLC

Symmetry == Permutations(Pipelines) \cup Permutations(Clients)

=============================================================================
