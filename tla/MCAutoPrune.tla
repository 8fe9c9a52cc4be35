---------------------------- MODULE MCAutoPrune ----------------------------
(* Values for model-checking AutoPrune.                                     *)
EXTENDS AutoPrune, TLC

Symmetry == Permutations(Proc) \cup Permutations(Policy)
=============================================================================
