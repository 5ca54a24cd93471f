---------------------------- MODULE MCDirectNode ----------------------------
(* Instances of DirectNode: the pods of one node that use the same volume. *)
EXTENDS DirectNode, TLC

CONSTANTS v1

OneVolume == [t \in Targets |-> v1]
CallSymmetry == Permutations(Calls)
=============================================================================
