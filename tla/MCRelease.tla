----------------------------- MODULE MCRelease -----------------------------
(***************************************************************************)
(* Instances of Release for the model checker: clones are told apart by    *)
(* equality alone.                                                         *)
(***************************************************************************)
EXTENDS Release, TLC

CloneSymmetry == Permutations(Clones)
=============================================================================
