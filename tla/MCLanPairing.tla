---- MODULE MCLanPairing ----
(* Instances of LanPairing for TLC.                                         *)
EXTENDS LanPairing, TLC

Symmetry == Permutations(Client) \cup Permutations(Slot)
====
