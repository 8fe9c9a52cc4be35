---- MODULE MCEventLog ----
(* An instance of EventLog for TLC.                                         *)
EXTENDS EventLog, TLC

Symmetry == Permutations(Proc)
====
