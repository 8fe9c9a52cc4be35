------------------------------- MODULE AuxPlan -------------------------------
(****************************************************************************)
(* Which auxiliary data a prune selects before it turns to the entries:     *)
(* listAuxiliary and addAuxiliaryForSize of src/cache/cleanup-auxiliary.ts, *)
(* stated without their loops, and what pruneCache leaves the entries of    *)
(* the size limit.                                                          *)
(*                                                                          *)
(* Auxiliary data is a function from paths, numbers here, to records        *)
(* [kind, of, size, at, until]: at is modifiedAt; of is the entry it        *)
(* belongs to, or None. "work" is what staging, transfer staging and        *)
(* quarantine hold, which are handled alike; "invalid" is an entry that the *)
(* catalog cannot read, with the lease, until, of its access record. Among  *)
(* the restores, "restore" has valid metadata and "torn" has not; "stray"   *)
(* has none and is no directory of the cache's at all.                      *)
(****************************************************************************)
EXTENDS PrunePlan

(* The lease that is asked: of the entry, if the catalog lists it.          *)
LeaseOf(cat, a) ==
  IF a.kind = "invalid" THEN a.until
  ELSE IF a.of \in DOMAIN cat THEN cat[a.of].until ELSE None

LeaseOver(cat, a, now) == LeaseOf(cat, a) # None => LeaseOf(cat, a) <= now

MaySelect(cat, a, now, prot) == a.of \notin prot /\ LeaseOver(cat, a, now)

(* What its entry lists as its restore (restoreBytes > 0): whatever its     *)
(* metadata says.                                                           *)
RestoreOf(cat, a) ==
  a.kind \in {"restore", "torn"} /\ a.of \in DOMAIN cat /\ a.size > 0

(* A restore is as old as the last use of its entry.                        *)
Age(cat, a) == IF RestoreOf(cat, a) THEN cat[a.of].last ELSE a.at

(* listAuxiliary. The restore of an expired entry is selected even if the   *)
(* caller has named the entry, and with bad metadata too.                   *)
Abandoned(cat, a, now, prot) ==
  \/ a.kind = "trash"
  \/ a.kind \in {"torn", "stray"} /\ MaySelect(cat, a, now, prot)

Outlived(cat, a, pol, now, prot) ==
  /\ Older(Age(cat, a), now, pol.retention)
  /\ \/ a.kind = "work"
     \/ a.kind = "invalid" /\ MaySelect(cat, a, now, prot)
     \/ RestoreOf(cat, a) /\ LeaseOver(cat, a, now)

Listed(cat, aux, pol, now, prot) ==
  {i \in DOMAIN aux : \/ Abandoned(cat, aux[i], now, prot)
                      \/ Outlived(cat, aux[i], pol, now, prot)}

(* What else addAuxiliaryForSize may select, the oldest first: nobody is    *)
(* asked about work.                                                        *)
ForSize(cat, aux, pol, now, prot) ==
  {i \in DOMAIN aux \ Listed(cat, aux, pol, now, prot) :
     \/ aux[i].kind = "work"
     \/ /\ aux[i].kind = "invalid" \/ RestoreOf(cat, aux[i])
        /\ MaySelect(cat, aux[i], now, prot)}

AuxBefore(cat, aux, i, j) ==
  \/ Age(cat, aux[i]) < Age(cat, aux[j])
  \/ Age(cat, aux[i]) = Age(cat, aux[j]) /\ i < j

(* projectedBytes: all that is in use, without what is selected.            *)
Projected(cat, aux, gone) == Bytes(cat, DOMAIN cat) + Bytes(aux, DOMAIN aux \ gone)

OverSizeAux(cat, aux, pol, now, prot) ==
  LET listed == Listed(cat, aux, pol, now, prot)
      more == ForSize(cat, aux, pol, now, prot)
  IN  {i \in more :
         /\ pol.maxSize # None
         /\ LET earlier == {j \in more : AuxBefore(cat, aux, j, i)}
            IN  Projected(cat, aux, listed \cup earlier) > pol.maxSize}

AuxPlanned(cat, aux, pol, now, prot) ==
  {[id |-> i, reason |-> IF Abandoned(cat, aux[i], now, prot) THEN "abandoned" ELSE "expired"] :
     i \in Listed(cat, aux, pol, now, prot)}
    \cup {[id |-> i, reason |-> "max-size"] : i \in OverSizeAux(cat, aux, pol, now, prot)}

(* Mutant: the entries may fill the limit by themselves.                    *)
EntryPolicyAlone(pol, aux, gone) == pol

(* entryPolicy of pruneCache, for the dry run as for the prune itself: what *)
(* stays of the auxiliary data counts against the limit, not below zero.    *)
EntryPolicy(pol, aux, gone) ==
  LET rest == Bytes(aux, DOMAIN aux \ gone)
  IN  [pol EXCEPT !.maxSize = IF @ = None THEN None ELSE IF @ < rest THEN 0 ELSE @ - rest]
==============================================================================
