---- MODULE MCEntryStore ----
(* Instances of EntryStore for TLC.                                         *)
EXTENDS EntryStore, TLC

Symmetry == Permutations(Proc) \cup Permutations(Build)
====
