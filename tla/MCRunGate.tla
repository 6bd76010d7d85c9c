----------------------------- MODULE MCRunGate -----------------------------
(***************************************************************************)
(* Instances of RunGate for the model checker.  Gates are told apart by    *)
(* equality alone, and so are the contents of trees.                       *)
(***************************************************************************)
EXTENDS RunGate, TLC

GateSymmetry == Permutations(Gates) \cup Permutations(Contents)
=============================================================================
