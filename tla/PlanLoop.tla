------------------------------- MODULE PlanLoop -------------------------------
(****************************************************************************)
(* What pruneCache plans, as it runs: the loops that list the auxiliary     *)
(* data, one pass over what a size limit may cost of it, then planPrune's   *)
(* three passes over the entries in order of last use, each with its own    *)
(* reason to select and its own reason to stop, on counters that every      *)
(* selection lowers.                                                        *)
(****************************************************************************)
EXTENDS AuxPlan

CONSTANTS
  Inputs, Policies,     \* the catalogs, with auxiliary data, and limits to try
  Protected,            \* the caller's protectedEntryIds
  Now,                  \* nowMs, by which auxiliary data is judged
  Dates                 \* what planPrune may draw as its own date

(* Dates and bytes are numbers; an entry holds its manifest at least, and   *)
(* the metadata of a restore are valid beside its entry alone.              *)
Optional(S) == S \cup {None}

CatalogOK(c) ==
  /\ DOMAIN c \subseteq Int /\ IsFiniteSet(DOMAIN c)
  /\ c \in [DOMAIN c -> [size : Nat \ {0}, born : Int, last : Int, until : Optional(Int)]]

AuxOK(c, a) ==
  /\ DOMAIN a \subseteq Int /\ IsFiniteSet(DOMAIN a)
  /\ \A i \in DOMAIN a :
       /\ a[i].kind \in {"trash", "work", "invalid", "restore", "torn", "stray"}
       /\ a[i].size \in Nat /\ a[i].at \in Int /\ a[i].until \in Optional(Int)
       /\ a[i].kind = "restore" => RestoreOf(c, a[i])

Policy ==
  [retention : Optional(Nat), maxEntries : Optional(Nat), maxSize : Optional(Nat)]

ASSUME NumbersAssumption == None \notin Int /\ Now \in Int /\ Dates \subseteq Int
ASSUME InputAssumption ==
  /\ \A i \in Inputs : CatalogOK(i.cat) /\ AuxOK(i.cat, i.aux)
  /\ Policies \subseteq Policy

VARIABLES
  cat, aux, pol,  \* the input
  date,         \* the date of planPrune, once it has drawn it
  pass,         \* which loop is at work
  todo,         \* what the pass has still to visit, the least recent next
  count, bytes, \* remainingCount, and projectedBytes or remainingBytes
  gone,         \* auxiliaryCandidates
  chosen        \* candidates

input == <<cat, aux, pol>>
planVars == <<input, date, pass, todo, count, bytes, gone, chosen>>

Gone == {c.id : c \in gone}
Selected == {c.id : c \in chosen}
Remaining == DOMAIN cat \ Selected

(* Whose turn it is: what is to be visited has been sorted, an order in     *)
(* which no two are equal.                                                  *)
NextItem == CHOOSE i \in todo : \A j \in todo \ {i} : AuxBefore(cat, aux, i, j)
NextEntry == CHOOSE e \in todo : \A f \in todo \ {e} : Before(cat, e, f)

(* The limits that planPrune is given.                                      *)
Limits == EntryPolicy(pol, aux, Gone)

PlanInit ==
  /\ \E i \in Inputs : cat = i.cat /\ aux = i.aux
  /\ pol \in Policies
  /\ date = Now
  /\ pass = "list"
  /\ todo = {}
  /\ count = Cardinality(DOMAIN cat)
  /\ bytes = 0
  /\ gone = {}
  /\ chosen = {}

------------------------------------------------------------------------------
(* listAuxiliary, loop by loop. None depends on another but the third, which*)
(* leaves out what the second has selected (selectedRestorePaths).          *)

OfKind(kinds) == {i \in DOMAIN aux : aux[i].kind \in kinds}
Due(last) == pol.retention # None /\ last < Now - pol.retention
Allowed(i) == aux[i].of \notin Protected
Unleased(until) == until = None \/ until <= Now

InvalidLoop ==
  {i \in OfKind({"invalid"}) : Allowed(i) /\ Unleased(aux[i].until) /\ Due(aux[i].at)}

RestoreLoop ==
  {i \in OfKind({"torn", "stray"}) :
     /\ Allowed(i)
     /\ aux[i].of \in DOMAIN cat => Unleased(cat[aux[i].of].until)}

(* What has the path that one of the entries gives its restore, and some    *)
(* size (restoreBytes), whatever its metadata.                              *)
RestoresOf(E) == {i \in OfKind({"restore", "torn"}) : aux[i].of \in E /\ aux[i].size > 0}

DueEntries == {e \in DOMAIN cat : Due(cat[e].last) /\ Unleased(cat[e].until)}

(* Mutant: the loop takes restores with valid metadata alone.               *)
EntryLoopValid(selected) == (RestoresOf(DueEntries) \cap OfKind({"restore"})) \ selected

EntryLoop(selected) == RestoresOf(DueEntries) \ selected

RootsLoop == OfKind({"trash"}) \cup {i \in OfKind({"work"}) : Due(aux[i].at)}

(* remaining, as addAuxiliaryForSize collects it from its own three loops,  *)
(* the last of which asks for no protection.                                *)
SpareEntries == {e \in DOMAIN cat : e \notin Protected /\ Unleased(cat[e].until)}

SpareLoops(selected) ==
  LET invalid == {i \in OfKind({"invalid"}) : Allowed(i) /\ Unleased(aux[i].until)}
  IN  (invalid \cup RestoresOf(SpareEntries) \cup OfKind({"work"})) \ selected

For(reason, S) == {[id |-> i, reason |-> reason] : i \in S}

List ==
  /\ pass = "list"
  /\ LET old == InvalidLoop \cup EntryLoop(RestoreLoop) \cup (RootsLoop \ OfKind({"trash"}))
         left == RestoreLoop \cup OfKind({"trash"})
     IN  /\ gone' = For("expired", old) \cup For("abandoned", left)
         /\ bytes' = Projected(cat, aux, old \cup left)
         /\ todo' = IF pol.maxSize = None THEN {} ELSE SpareLoops(old \cup left)
  /\ pass' = "auxiliary"
  /\ UNCHANGED <<input, date, count, chosen>>

------------------------------------------------------------------------------
(* addAuxiliaryForSize: the oldest first, until the limit is met.           *)

SelectAux ==
  /\ pass = "auxiliary"
  /\ todo # {}
  /\ bytes > pol.maxSize
  /\ gone' = gone \cup {[id |-> NextItem, reason |-> "max-size"]}
  /\ bytes' = bytes - aux[NextItem].size
  /\ todo' = todo \ {NextItem}
  /\ UNCHANGED <<input, date, pass, count, chosen>>

(* The entries' turn: planPrune counts them, and only them, from the start, *)
(* and draws a date of its own.                                             *)
AuxDone ==
  /\ pass = "auxiliary"
  /\ todo # {} => bytes <= pol.maxSize
  /\ pass' = "expired"
  /\ todo' = IF pol.retention = None THEN {} ELSE DOMAIN cat
  /\ bytes' = Bytes(cat, DOMAIN cat)
  /\ date' \in Dates
  /\ UNCHANGED <<input, count, gone, chosen>>

------------------------------------------------------------------------------
(* planPrune.                                                               *)

(* The condition of the loop body before it calls select, or breaks.        *)
Wanted(e) ==
  \/ pass = "expired" /\ cat[e].last < date - pol.retention
  \/ pass = "max-entries" /\ count > pol.maxEntries
  \/ pass = "max-size" /\ bytes > Limits.maxSize

(* select.                                                                  *)
Select ==
  /\ todo # {}
  /\ LET e == NextEntry
     IN  /\ Wanted(e)
         /\ CanSelect(cat, e, date, Protected)
         /\ chosen' = chosen \cup {[id |-> e, reason |-> pass]}
         /\ count' = count - 1
         /\ bytes' = bytes - cat[e].size
  /\ todo' = todo \ {NextEntry}
  /\ UNCHANGED <<input, date, pass, gone>>

(* A protected entry is passed over.                                        *)
PassOver ==
  /\ todo # {}
  /\ Wanted(NextEntry)
  /\ ~CanSelect(cat, NextEntry, date, Protected)
  /\ todo' = todo \ {NextEntry}
  /\ UNCHANGED <<input, date, pass, count, bytes, gone, chosen>>

(* The first pass goes on past an entry that is not old; the others break.  *)
Pass ==
  /\ pass \notin {"list", "auxiliary"}
  /\ todo # {}
  /\ ~Wanted(NextEntry)
  /\ todo' = IF pass = "expired" THEN todo \ {NextEntry} ELSE {}
  /\ UNCHANGED <<input, date, pass, count, bytes, gone, chosen>>

NextPass ==
  /\ todo = {}
  /\ \/ /\ pass = "expired"
        /\ pass' = "max-entries"
        /\ todo' = IF pol.maxEntries = None THEN {} ELSE Remaining
     \/ /\ pass = "max-entries"
        /\ pass' = "max-size"
        /\ todo' = IF pol.maxSize = None THEN {} ELSE Remaining
     \/ /\ pass = "max-size"
        /\ pass' = "done"
        /\ UNCHANGED todo
  /\ UNCHANGED <<input, date, count, bytes, gone, chosen>>

PlanNext == List \/ SelectAux \/ AuxDone \/ Select \/ PassOver \/ Pass \/ NextPass

PlanSpec == PlanInit /\ [][PlanNext]_planVars

------------------------------------------------------------------------------
(* Properties of a finished plan.                                           *)

(* The loops select what AuxPlan and PrunePlan say, each for its reason:    *)
(* auxiliary data by the date of the prune, entries by that of planPrune.   *)
LoopsComputePlan ==
  pass = "done" =>
    /\ gone = AuxPlanned(cat, aux, pol, Now, Protected)
    /\ chosen = Planned(cat, Limits, date, Protected)

(* Auxiliary data that no protection and no lease keeps.                    *)
Removable(a) == a.kind \in {"trash", "work"} \/ MaySelect(cat, a, Now, Protected)

RemainingAux == DOMAIN aux \ Gone
SizeWith(entries, data) == Bytes(cat, entries) + Bytes(aux, data)

(* A limit that the plan leaves exceeded cannot be met: everything that     *)
(* would be left is protected, the auxiliary data too if it is the size.    *)
LimitsMetOrProtected ==
  LET stuck == \A e \in Remaining : ~CanSelect(cat, e, date, Protected)
  IN  /\ pol.maxEntries # None /\ Cardinality(Remaining) > pol.maxEntries => stuck
      /\ pol.maxSize # None /\ SizeWith(Remaining, RemainingAux) > pol.maxSize =>
           stuck /\ \A i \in RemainingAux : ~Removable(aux[i])

(* No entry goes while a removable one that was used less recently stays,   *)
(* whichever of the three reasons it went for.                              *)
LeastRecentFirst ==
  \A e \in Selected, f \in Remaining :
    CanSelect(cat, f, date, Protected) => Before(cat, e, f)

(* Nothing goes needlessly: an entry that is young enough goes only if      *)
(* keeping it, with all that stays, would exceed a limit; auxiliary data    *)
(* goes for its size only if it would with all entries, and no entry does   *)
(* before all of it that is not protected.                                  *)
NoNeedlessRemoval ==
  /\ \A c \in chosen :
       LET kept == Remaining \cup {c.id} \cup {e \in Selected : Before(cat, c.id, e)}
       IN  CASE c.reason = "expired" -> Older(cat[c.id].last, date, pol.retention)
             [] c.reason = "max-entries" -> Cardinality(kept) > pol.maxEntries
             [] c.reason = "max-size" ->
                  /\ SizeWith(kept, RemainingAux) > pol.maxSize
                  /\ \A i \in RemainingAux : ~Removable(aux[i])
  /\ \A c \in gone : c.reason = "max-size" =>
       LET later == {d.id : d \in {d \in gone : d.reason = "max-size"
                                       /\ AuxBefore(cat, aux, c.id, d.id)}}
       IN  SizeWith(DOMAIN cat, RemainingAux \cup {c.id} \cup later) > pol.maxSize

(* README.md:207: "Cleanup protects active and recently returned entries",  *)
(* here from the size and number of what else there is, and no more.        *)
PlanSound ==
  pass = "done" => LimitsMetOrProtected /\ LeastRecentFirst /\ NoNeedlessRemoval
==============================================================================
