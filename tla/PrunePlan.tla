------------------------------ MODULE PrunePlan ------------------------------
(****************************************************************************)
(* Which entries a prune selects: planPrune of src/cache/cleanup.ts, stated *)
(* without its loops. PlanLoop shows that the loops compute this.           *)
(*                                                                          *)
(* A catalog is a function from entry ids to records [size, born, last,     *)
(* until]: bytes, createdAt, lastAccessedAt, and protectedUntil or None. A  *)
(* policy is a record [retention, maxEntries, maxSize], each None when      *)
(* unlimited. Times are milliseconds, or the ticks of a model.              *)
(****************************************************************************)
EXTENDS Integers, FiniteSets

CONSTANT None

(* compareLru. Ids are numbers here, for a total order.                     *)
Before(cat, e, f) ==
  \/ cat[e].last < cat[f].last
  \/ cat[e].last = cat[f].last /\ cat[e].born < cat[f].born
  \/ cat[e].last = cat[f].last /\ cat[e].born = cat[f].born /\ e < f

(* Mutant: the caller's protectedEntryIds are not consulted.                *)
LeaseAlone(cat, e, now, prot) == cat[e].until # None => cat[e].until <= now

(* canSelect: neither named by the caller nor under an access lease.        *)
CanSelect(cat, e, now, prot) ==
  /\ e \notin prot
  /\ cat[e].until # None => cat[e].until <= now

Bytes(cat, S) ==
  LET total[T \in SUBSET S] ==
        IF T = {} THEN 0
                  ELSE LET e == CHOOSE e \in T : TRUE IN cat[e].size + total[T \ {e}]
  IN  total[S]

Older(last, now, retention) == retention # None /\ last < now - retention

(* The selectable members of S that come before e.                          *)
Earlier(cat, S, e, now, prot) ==
  {f \in S : CanSelect(cat, f, now, prot) /\ Before(cat, f, e)}

Expired(cat, pol, now, prot) ==
  {e \in DOMAIN cat : /\ CanSelect(cat, e, now, prot)
                      /\ Older(cat[e].last, now, pol.retention)}

(* Those of whom, with all that stays when the ones before them have gone,  *)
(* there are too many, or too much.                                         *)
OverCount(cat, S, pol, now, prot) ==
  {e \in S :
     /\ CanSelect(cat, e, now, prot)
     /\ pol.maxEntries # None
     /\ Cardinality(S \ Earlier(cat, S, e, now, prot)) > pol.maxEntries}

OverSize(cat, S, pol, now, prot) ==
  {e \in S :
     /\ CanSelect(cat, e, now, prot)
     /\ pol.maxSize # None
     /\ Bytes(cat, S \ Earlier(cat, S, e, now, prot)) > pol.maxSize}

(* The candidates, each with its reason.                                    *)
Planned(cat, pol, now, prot) ==
  LET old   == Expired(cat, pol, now, prot)
      many  == OverCount(cat, DOMAIN cat \ old, pol, now, prot)
      large == OverSize(cat, DOMAIN cat \ (old \cup many), pol, now, prot)
  IN  {[id |-> e, reason |-> "expired"] : e \in old}
        \cup {[id |-> e, reason |-> "max-entries"] : e \in many}
        \cup {[id |-> e, reason |-> "max-size"] : e \in large}
==============================================================================
