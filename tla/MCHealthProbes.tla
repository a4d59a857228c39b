---------------------------- MODULE MCHealthProbes ----------------------------
(* Instances of HealthProbes for TLC. *)
EXTENDS HealthProbes, TLC

JobSymmetry == Permutations(Job)
=============================================================================
