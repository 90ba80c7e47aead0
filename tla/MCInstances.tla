----------------------------- MODULE MCInstances ----------------------------
(* Instances for TLC: groups are alike.                                     *)
EXTENDS InstanceStaging, TLC

Symmetry == Permutations(Groups)
=============================================================================
