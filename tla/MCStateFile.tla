---------------------------- MODULE MCStateFile ----------------------------
(* Values for model-checking StateFile.                                     *)
EXTENDS StateFile, TLC

Symmetry == Permutations(Proc) \cup Permutations(Serial)
=============================================================================
