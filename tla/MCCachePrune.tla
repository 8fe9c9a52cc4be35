---- MODULE MCCachePrune ----
(* Instances of CachePrune for TLC.                                         *)
EXTENDS CachePrune, TLC

Symmetry == Permutations(Proc)
====
