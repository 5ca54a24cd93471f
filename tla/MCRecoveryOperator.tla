------------------------- MODULE MCRecoveryOperator -------------------------
(* Instances of RecoveryOperator for TLC: pods of one workload.            *)
EXTENDS RecoveryOperator, TLC
CONSTANT w1
OneWorkload == [p \in Pods |-> w1]
Symmetry == Permutations(Pods)
=============================================================================
