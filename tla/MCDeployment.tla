---------------------------- MODULE MCDeployment ----------------------------
(* Two managers on one host. *)
EXTENDS Deployment, TLC
Symmetry == Permutations(Managers)
=============================================================================
