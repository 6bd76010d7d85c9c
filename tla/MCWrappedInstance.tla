------------------------- MODULE MCWrappedInstance -------------------------
(***************************************************************************)
(* Instances of WrappedInstance for the model checker: threads, instances  *)
(* and values are told apart by equality alone.                            *)
(***************************************************************************)
EXTENDS WrappedInstance, TLC

InstanceSymmetry == Permutations(Threads) \cup Permutations(Objects) \cup Permutations(Values)
=============================================================================
