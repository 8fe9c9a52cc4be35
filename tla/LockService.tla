----------------------------- MODULE LockService -----------------------------
(****************************************************************************)
(* What acquireEntryLock and releaseEntryLock promise whoever works under   *)
(* the lock: it belongs to one process at a time, is given to nobody else   *)
(* before its owner has begun to release it or has died, and survives its   *)
(* owner only until somebody looks. Once a live process has lost the lock   *)
(* (loose) nothing is promised any more. EntryStore, CachePrune, AutoPrune, *)
(* EventLog and LanTransfer are written on top of this.                     *)
(****************************************************************************)
CONSTANTS Proc, None

VARIABLES
  lock,     \* whose the lock is, or None
  granted,  \* the processes that have it and have not begun to release it
  dead,     \* the processes that have died
  loose     \* whether the lock has gone wrong

vars == <<lock, granted, dead, loose>>

Init ==
  /\ lock = None
  /\ granted = {}
  /\ dead = {}
  /\ loose = FALSE

Take(p) ==
  /\ lock = None
  /\ p \notin dead
  /\ lock' = p
  /\ UNCHANGED <<granted, dead, loose>>

(* acquireEntryLock returns with the lock.                                  *)
Grant(p) ==
  /\ lock = p
  /\ p \notin dead
  /\ granted' = granted \cup {p}
  /\ UNCHANGED <<lock, dead, loose>>

Release(p) ==
  /\ p \in granted
  /\ granted' = granted \ {p}
  /\ UNCHANGED <<lock, dead, loose>>

(* The lock is free again: its owner has removed it, after a release or a   *)
(* failure, or somebody else has, after its death.                          *)
Vacate ==
  /\ lock # None
  /\ lock \notin granted
  /\ lock' = None
  /\ UNCHANGED <<granted, dead, loose>>

Die(p) ==
  /\ p \notin dead
  /\ dead' = dead \cup {p}
  /\ granted' = granted \ {p}
  /\ UNCHANGED <<lock, loose>>

Anything ==
  /\ loose' = TRUE
  /\ lock' \in Proc \cup {None}
  /\ granted' \subseteq Proc
  /\ dead' \subseteq Proc

Next ==
  \/ \E p \in Proc : Take(p) \/ Grant(p) \/ Release(p) \/ Die(p)
  \/ Vacate
  \/ Anything

Spec == Init /\ [][Next]_vars

(* The lock is nobody else's while a process works under it, and whoever    *)
(* works under it lives.                                                    *)
Excludes == ~loose => \A p \in granted : p \in Proc /\ lock = p /\ p \notin dead
==============================================================================
