---------------------------- MODULE DeploymentMC ----------------------------
(***************************************************************************)
(* Deployment on small instances.                                          *)
(***************************************************************************)
EXTENDS Deployment, TLC

Symmetry == Permutations(Approvals)

=============================================================================
