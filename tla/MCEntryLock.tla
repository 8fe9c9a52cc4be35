---- MODULE MCEntryLock ----
(* Instances of EntryLock for TLC.                                          *)
EXTENDS EntryLock

CONSTANTS p1, p2, foreign   \* foreign is a process of another machine

MCHostOf == [p \in Proc |-> IF p = foreign THEN "h2" ELSE "h1"]
====
