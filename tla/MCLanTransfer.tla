---- MODULE MCLanTransfer ----
(* Instances of LanTransfer for TLC.                                        *)
EXTENDS LanTransfer, TLC

Symmetry ==
  Permutations(Machine) \cup Permutations(Op) \cup Permutations(Handler) \cup Permutations(Build)
====
