---------------------------- MODULE MCStagedNode ----------------------------
(* Instances of StagedNode: the pods of one node that share a volume.      *)
EXTENDS StagedNode, TLC

CONSTANTS v1

OneVolume == [t \in Targets |-> v1]
CallSymmetry == Permutations(Calls)
=============================================================================
