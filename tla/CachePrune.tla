------------------------------ MODULE CachePrune ------------------------------
(****************************************************************************)
(* pruneCache of src/cache/cleanup.ts beside the clients whose entries it   *)
(* removes. What a client does under an entry lock is one step when it      *)
(* begins and one when it ends (EntryStore has the steps between); what the *)
(* prune does is taken apart wherever it lets go of a lock or where a death *)
(* or a failed rename leaves a half-done removal behind.                    *)
(*                                                                          *)
(* The provider prunes after a hit or an upload, before it returns the path,*)
(* and names the entry it returns as protected; the command line names none.*)
(****************************************************************************)
EXTENDS PrunePlan

CONSTANTS
  Proc,        \* processes: clients, and the prunes they or a user run
  Id,          \* the entries' ids, numbers
  Retention,   \* retentionMs, or None
  MaxEntries,  \* maxEntries, or None; maxSizeBytes is left to PlanLoop
  Lease,       \* how long an access record protects: DEFAULT_ACCESS_LEASE_MS
  Unreadable,  \* ids whose access record may fail to be read
  MaxTime      \* bound on the clock

ASSUME TimeAssumption == Lease \in Nat \ {0} /\ MaxTime \in Nat
ASSUME UnreadableAssumption == Unreadable \subseteq Id

Time == 0 .. MaxTime

(* An entry: createdAt, whether its manifest is readable, and its schema.   *)
Entry == [born : Time, valid : BOOLEAN, zstd : BOOLEAN]
(* A returned path, the end of its lease, and whether it was recorded.      *)
Hit == [id : Id, at : {"entry", "restore"}, born : Time, until : Nat, leased : BOOLEAN]
AccessRecord == [last : Time, until : Nat]

ASSUME NoneAssumption ==
  None \notin Proc \cup Id \cup Time \cup Entry \cup Hit \cup AccessRecord

VARIABLES
  now,       \* the clock
  entry,     \* what stands at each entry's path
  restore,   \* what stands at each restore path: createdAt of its source
  access,    \* the access records
  lock,      \* the owner of each entry lock
  maint,     \* the owner of the maintenance lock
  pc,
  hit,       \* the path each client was given, or is about to be
  run,       \* the prune that each process runs
  spoilt,    \* history: ids whose entry went bad or whose record was not read
  stuck      \* history: ids whose removal was cut short: a death, a failed rollback

vars == <<now, entry, restore, access, lock, maint, pc, hit, run, spoilt, stuck>>

NoRun == [at |-> 0, prot |-> {}, aux |-> {}, plan |-> {}, cur |-> None,
          tomb |-> None]
Aux == [kind : {"invalid", "restore"}, id : Id]
Candidate == [id : Id, last : Time, reason : {"expired", "max-entries"}]
Run == [at : Time, prot : SUBSET Id, aux : SUBSET Aux, plan : SUBSET Candidate,
        cur : Id \cup {None}, tomb : Entry \cup {None}]

Pruning == {"maintenance", "auxiliary", "entries", "entryMoved", "recordLeft"}
Phase == Pruning \cup {"idle", "busy", "returning", "using", "dead"}

TypeOK ==
  /\ now \in Time
  /\ entry \in [Id -> Entry \cup {None}]
  /\ restore \in [Id -> Time \cup {None}]
  /\ access \in [Id -> AccessRecord \cup {None}]
  /\ lock \in [Id -> Proc \cup {None}]
  /\ maint \in Proc \cup {None}
  /\ pc \in [Proc -> Phase]
  /\ hit \in [Proc -> Hit \cup {None}]
  /\ run \in [Proc -> Run]
  /\ spoilt \in SUBSET Id
  /\ stuck \in SUBSET Id

Init ==
  /\ now = 0
  /\ entry = [e \in Id |-> None]
  /\ restore = [e \in Id |-> None]
  /\ access = [e \in Id |-> None]
  /\ lock = [e \in Id |-> None]
  /\ maint = None
  /\ pc = [p \in Proc |-> "idle"]
  /\ hit = [p \in Proc |-> None]
  /\ run = [p \in Proc |-> NoRun]
  /\ spoilt = {}
  /\ stuck = {}

Goto(p, from, to) ==
  /\ pc[p] = from
  /\ pc' = [pc EXCEPT ![p] = to]

(* A lock is free, or its owner is dead and acquireEntryLock recovers it.   *)
Free(owner) == owner # None => pc[owner] = "dead"

------------------------------------------------------------------------------
(* Clients.                                                                 *)

Begin(p, e) ==
  /\ Goto(p, "idle", "busy")
  /\ Free(lock[e])
  /\ lock' = [lock EXCEPT ![e] = p]
  /\ run' = [run EXCEPT ![p].cur = e]
  /\ UNCHANGED <<now, entry, restore, access, maint, hit, spoilt, stuck>>

Max2(a, b) == IF a < b THEN b ELSE a

(* Mutant: the two dates are swapped.                                       *)
TouchedSwapped(e) == [last |-> now + Lease, until |-> now]

(* touchAccessRecord never takes time or protection back.                   *)
Touched(e) ==
  LET old == access[e]
      last == IF old = None THEN now ELSE Max2(now, old.last)
  IN  [last |-> last,
       until |-> IF old = None THEN last + Lease ELSE Max2(last + Lease, old.until)]

(* The client's last act under the lock: the touch, which may fail without  *)
(* consequence, the release, and the path it has to return.                 *)
Return(p, at) ==
  LET e == run[p].cur
  IN  /\ pc' = [pc EXCEPT ![p] = "returning"]
      /\ lock' = [lock EXCEPT ![e] = None]
      /\ run' = [run EXCEPT ![p] = NoRun]
      /\ \E touched \in BOOLEAN :
           /\ access' = IF touched THEN [access EXCEPT ![e] = Touched(e)] ELSE access
           /\ hit' = [hit EXCEPT ![p] =
                [id |-> e, at |-> at, born |-> entry'[e].born,
                 until |-> now + Lease, leased |-> touched]]
      /\ UNCHANGED <<now, maint, spoilt, stuck>>

(* readManifest, and the files it describes: what a client accepts and the  *)
(* catalog lists as an entry.                                               *)
Readable(e) == entry[e] # None /\ entry[e].valid

(* resolveCacheEntryDetailed: a hit, from the entry or from its restore.    *)
Resolve(p) ==
  /\ pc[p] = "busy"
  /\ LET e == run[p].cur
     IN  /\ Readable(e)
         /\ restore' = IF entry[e].zstd THEN [restore EXCEPT ![e] = entry[e].born]
                                        ELSE restore
         /\ UNCHANGED entry
         /\ Return(p, IF entry[e].zstd THEN "restore" ELSE "entry")

(* uploadCacheEntry: the entry is published.                                *)
Upload(p) ==
  /\ pc[p] = "busy"
  /\ entry[run[p].cur] = None
  /\ \E zstd \in BOOLEAN :
       entry' = [entry EXCEPT ![run[p].cur] =
                   [born |-> now, valid |-> TRUE, zstd |-> zstd]]
  /\ UNCHANGED restore
  /\ Return(p, "entry")

(* The same when a valid entry is there: what it stores is returned, which  *)
(* is the payload of a compressed one. Replacement is left to EntryStore.   *)
UploadExisting(p) ==
  /\ pc[p] = "busy"
  /\ Readable(run[p].cur)
  /\ UNCHANGED <<entry, restore>>
  /\ Return(p, "entry")

(* Either of them first: an invalid entry and its restore are quarantined.  *)
Quarantine(p) ==
  /\ pc[p] = "busy"
  /\ LET e == run[p].cur
     IN  /\ entry[e] # None
         /\ ~entry[e].valid
         /\ entry' = [entry EXCEPT ![e] = None]
         /\ restore' = [restore EXCEPT ![e] = None]
  /\ UNCHANGED <<now, access, lock, maint, pc, hit, run, spoilt, stuck>>

(* A miss, or an error.                                                     *)
Leave(p) ==
  /\ Goto(p, "busy", "idle")
  /\ lock' = [lock EXCEPT ![run[p].cur] = None]
  /\ run' = [run EXCEPT ![p] = NoRun]
  /\ UNCHANGED <<now, entry, restore, access, maint, hit, spoilt, stuck>>

(* The provider returns the path without a prune: none is due.              *)
NoPrune(p) ==
  /\ Goto(p, "returning", "using")
  /\ UNCHANGED <<now, entry, restore, access, lock, maint, hit, run, spoilt, stuck>>

Done(p) ==
  /\ Goto(p, "using", "idle")
  /\ hit' = [hit EXCEPT ![p] = None]
  /\ UNCHANGED <<now, entry, restore, access, lock, maint, run, spoilt, stuck>>

------------------------------------------------------------------------------
(* The catalog, with the access records of U not readable.                  *)

Record(e, U) == IF e \in U THEN None ELSE access[e]

Lasting(e, U) == IF Record(e, U) = None THEN None ELSE Record(e, U).until

(* readEntry: an entry without a readable record counts as last used when   *)
(* it was created, and as not protected.                                    *)
Catalog(U) ==
  [e \in {f \in Id : Readable(f)} |->
     [size |-> 0, born |-> entry[e].born, until |-> Lasting(e, U),
      last |-> IF Record(e, U) = None THEN entry[e].born ELSE Record(e, U).last]]

Leased(until) == until # None /\ until > now

(* readRestores: the source entry is there and has the restore's digests.   *)
MetadataValid(e) ==
  /\ Readable(e)
  /\ entry[e].zstd
  /\ restore[e] = entry[e].born

(* listAuxiliary: expired invalid entries, abandoned restores, and the      *)
(* restores of expired entries, where protectedEntryIds is not consulted.   *)
Auxiliary(U, prot) ==
  LET cat == Catalog(U)
      invalid == {e \in Id : /\ entry[e] # None
                             /\ ~entry[e].valid
                             /\ e \notin prot
                             /\ ~Leased(Lasting(e, U))
                             /\ Older(entry[e].born, now, Retention)}
      abandoned == {e \in Id : /\ restore[e] # None
                               /\ ~MetadataValid(e)
                               /\ e \notin prot
                               /\ e \in DOMAIN cat => ~Leased(cat[e].until)}
      expired == {e \in DOMAIN cat : /\ restore[e] # None
                                     /\ ~Leased(cat[e].until)
                                     /\ Older(cat[e].last, now, Retention)}
  IN  {[kind |-> "invalid", id |-> e] : e \in invalid}
        \cup {[kind |-> "restore", id |-> e] : e \in abandoned \cup expired}

------------------------------------------------------------------------------
(* pruneCache.                                                              *)

Inventory(p) ==
  /\ \/ Goto(p, "idle", "maintenance")
     \/ Goto(p, "returning", "maintenance")
  /\ \E U \in SUBSET Unreadable :
       LET prot == IF pc[p] = "idle" THEN {} ELSE {hit[p].id}
       IN  /\ run' = [run EXCEPT ![p] = [NoRun EXCEPT !.at = now, !.prot = prot,
                                                      !.aux = Auxiliary(U, prot)]]
           /\ spoilt' = spoilt \cup U
  /\ UNCHANGED <<now, entry, restore, access, lock, maint, hit, stuck>>

TakeMaintenance(p) ==
  /\ Free(maint)
  /\ Goto(p, "maintenance", "auxiliary")
  /\ maint' = p
  /\ UNCHANGED <<now, entry, restore, access, lock, hit, run, spoilt, stuck>>

(* The end of a prune: the provider returns its path, a user is done.       *)
EndPrune(p) ==
  /\ pc' = [pc EXCEPT ![p] = IF hit[p] = None THEN "idle" ELSE "using"]
  /\ run' = [run EXCEPT ![p] = NoRun]

MaintenanceBusy(p) ==
  /\ pc[p] = "maintenance"
  /\ maint # None
  /\ EndPrune(p)
  /\ UNCHANGED <<now, entry, restore, access, lock, maint, hit, spoilt, stuck>>

(* A candidate of the first loop is moved to the trash as it stands by now, *)
(* unless the lock is taken, a lease is recorded, the record is not read, or*)
(* the move fails.                                                          *)
RemoveAuxiliary(p) ==
  /\ pc[p] = "auxiliary"
  /\ \E c \in run[p].aux :
       /\ Free(lock[c.id])
       /\ access[c.id] # None => access[c.id].until <= run[p].at
       /\ lock' = [lock EXCEPT ![c.id] = None]
       /\ \/ /\ entry' = IF c.kind = "invalid" THEN [entry EXCEPT ![c.id] = None]
                                               ELSE entry
             /\ restore' = IF c.kind = "restore" THEN [restore EXCEPT ![c.id] = None]
                                                 ELSE restore
          \/ UNCHANGED <<entry, restore>>
       /\ run' = [run EXCEPT ![p].aux = @ \ {c}]
  /\ UNCHANGED <<now, access, maint, pc, hit, spoilt, stuck>>

SkipAuxiliary(p) ==
  /\ pc[p] = "auxiliary"
  /\ \E c \in run[p].aux :
       /\ \/ ~Free(lock[c.id])
          \/ access[c.id] # None /\ access[c.id].until > run[p].at
          \/ c.id \in Unreadable
       /\ run' = [run EXCEPT ![p].aux = @ \ {c}]
  /\ UNCHANGED <<now, entry, restore, access, lock, maint, pc, hit, spoilt, stuck>>

(* The second inventory. No caller passes a date, so that planPrune draws a *)
(* new one; what is read again under the locks is still held against nowMs, *)
(* the date of the first (at).                                              *)
Replan(p) ==
  /\ run[p].aux = {}
  /\ Goto(p, "auxiliary", "entries")
  /\ \E U \in SUBSET Unreadable :
       LET cat == Catalog(U)
           pol == [retention |-> Retention, maxEntries |-> MaxEntries, maxSize |-> None]
       IN  /\ run' = [run EXCEPT ![p].plan =
                {[id |-> c.id, last |-> cat[c.id].last, reason |-> c.reason] :
                   c \in Planned(cat, pol, now, run[p].prot)}]
           /\ spoilt' = spoilt \cup U
  /\ UNCHANGED <<now, entry, restore, access, lock, maint, hit, stuck>>

(* Mutant: the access record is not read again under the lock.              *)
AsPlanned(p, c) == TRUE

(* The re-read under the lock: the entry was not used since the plan, and   *)
(* isStillEligible. A missing record counts as unchanged.                   *)
StillEligible(p, c) ==
  access[c.id] # None =>
    /\ access[c.id].last <= c.last
    /\ access[c.id].until <= run[p].at
    /\ c.reason = "expired" => Older(access[c.id].last, run[p].at, Retention)

(* The entry moves to the trash. A record that cannot be read is reported,  *)
(* and the entry goes all the same.                                         *)
RemoveEntry(p) ==
  /\ Goto(p, "entries", "entryMoved")
  /\ \E c \in run[p].plan :
       /\ entry[c.id] # None
       /\ Free(lock[c.id])
       /\ \/ /\ StillEligible(p, c)
             /\ UNCHANGED spoilt
          \/ /\ c.id \in Unreadable
             /\ spoilt' = spoilt \cup {c.id}
       /\ lock' = [lock EXCEPT ![c.id] = p]
       /\ entry' = [entry EXCEPT ![c.id] = None]
       /\ run' = [run EXCEPT ![p] = [run[p] EXCEPT !.plan = @ \ {c}, !.cur = c.id,
                                                   !.tomb = entry[c.id]]]
  /\ UNCHANGED <<now, restore, access, maint, hit, stuck>>

(* The entry is gone, locked or used since, or does not move.               *)
SkipEntry(p) ==
  /\ pc[p] = "entries"
  /\ \E c \in run[p].plan :
       /\ run' = [run EXCEPT ![p].plan = @ \ {c}]
  /\ UNCHANGED <<now, entry, restore, access, lock, maint, pc, hit, spoilt, stuck>>

RemoveRestore(p) ==
  /\ Goto(p, "entryMoved", "recordLeft")
  /\ restore' = [restore EXCEPT ![run[p].cur] = None]
  /\ UNCHANGED <<now, entry, access, lock, maint, hit, run, spoilt, stuck>>

NextCandidate(p) ==
  /\ pc' = [pc EXCEPT ![p] = "entries"]
  /\ lock' = [lock EXCEPT ![run[p].cur] = None]
  /\ run' = [run EXCEPT ![p] = [run[p] EXCEPT !.cur = None, !.tomb = None]]
  /\ UNCHANGED <<now, restore, maint, hit, spoilt>>

(* Mutant: the entry is not put back.                                       *)
RestoreStaysAlone(p) ==
  /\ pc[p] = "entryMoved"
  /\ restore[run[p].cur] # None
  /\ NextCandidate(p)
  /\ UNCHANGED <<entry, access, stuck>>

(* The restore does not move: the entry is put back, unless that fails too, *)
(* or the restore's path could not even be looked at, outside the try.      *)
RestoreStays(p) ==
  /\ pc[p] = "entryMoved"
  /\ restore[run[p].cur] # None
  /\ \/ /\ entry' = [entry EXCEPT ![run[p].cur] = run[p].tomb]
        /\ UNCHANGED stuck
     \/ /\ stuck' = stuck \cup {run[p].cur}
        /\ UNCHANGED entry
  /\ NextCandidate(p)
  /\ UNCHANGED access

(* The access record goes as well, or its removal fails and is reported.    *)
RemoveRecord(p) ==
  /\ pc[p] = "recordLeft"
  /\ access' \in {access, [access EXCEPT ![run[p].cur] = None]}
  /\ NextCandidate(p)
  /\ UNCHANGED <<entry, stuck>>

Finish(p) ==
  /\ pc[p] = "entries"
  /\ run[p].plan = {}
  /\ EndPrune(p)
  /\ maint' = IF maint = p THEN None ELSE maint
  /\ UNCHANGED <<now, entry, restore, access, lock, hit, spoilt, stuck>>

------------------------------------------------------------------------------
(* The environment.                                                         *)

Tick ==
  /\ now < MaxTime
  /\ now' = now + 1
  /\ UNCHANGED <<entry, restore, access, lock, maint, pc, hit, run, spoilt, stuck>>

(* The manifest of an entry is damaged.                                     *)
Rot(e) ==
  /\ Readable(e)
  /\ entry' = [entry EXCEPT ![e].valid = FALSE]
  /\ spoilt' = spoilt \cup {e}
  /\ UNCHANGED <<now, restore, access, lock, maint, pc, hit, run, stuck>>

Crash(p) ==
  /\ pc[p] \in Pruning \cup {"busy"}
  /\ pc' = [pc EXCEPT ![p] = "dead"]
  /\ hit' = [hit EXCEPT ![p] = None]
  /\ run' = [run EXCEPT ![p] = NoRun]
  /\ stuck' = IF pc[p] = "entryMoved" THEN stuck \cup {run[p].cur} ELSE stuck
  /\ UNCHANGED <<now, entry, restore, access, lock, maint, spoilt>>

Next ==
  \/ \E p \in Proc :
       \/ \E e \in Id : Begin(p, e)
       \/ Resolve(p) \/ Upload(p) \/ UploadExisting(p) \/ Quarantine(p) \/ Leave(p)
       \/ NoPrune(p) \/ Done(p)
       \/ Inventory(p) \/ TakeMaintenance(p) \/ MaintenanceBusy(p)
       \/ RemoveAuxiliary(p) \/ SkipAuxiliary(p) \/ Replan(p)
       \/ RemoveEntry(p) \/ SkipEntry(p)
       \/ RemoveRestore(p) \/ RestoreStays(p) \/ RemoveRecord(p) \/ Finish(p)
       \/ Crash(p)
  \/ Tick
  \/ \E e \in Id : Rot(e)

Spec == Init /\ [][Next]_vars

------------------------------------------------------------------------------
(* Properties.                                                              *)

PathThere(h) ==
  IF h.at = "entry" THEN entry[h.id] # None /\ entry[h.id].born = h.born
                    ELSE restore[h.id] = h.born

(* Cleanup keeps a path that was returned under a recorded lease until the  *)
(* lease ends, whoever prunes, from however old an inventory, by whichever  *)
(* of its two dates, unless the record of that entry could not be read or   *)
(* the entry went bad.                                                      *)
LeasedHitKept ==
  \A p \in Proc :
    LET h == hit[p]
    IN  h # None /\ h.id \notin spoilt /\ h.leased =>
          now >= h.until \/ PathThere(h)

(* The path that the provider is about to return outlives the prune that    *)
(* the provider itself runs first, within the time of a lease at least. It  *)
(* does not, when the lease was not recorded: run prune_own_hit.            *)
OwnHitKept ==
  [][\A p \in Proc :
       hit[p] # None /\ hit'[p] = hit[p] /\ run'[p] # run[p]
         => (hit[p].id \notin spoilt /\ now < hit[p].until /\ PathThere(hit[p])
              => PathThere(hit[p])')]_vars

(* What does hold: the entry itself does, also when its access record could *)
(* not be written and however long ago it was used or created.              *)
OwnEntryKept ==
  [][\A p \in Proc :
       hit[p] # None /\ run'[p] # run[p] /\ entry[hit[p].id] # None
         => entry'[hit[p].id] # None]_vars

(* A prune that is done with an entry has not separated it from its         *)
(* restore: both are gone, or the failed move of the restore brought the    *)
(* entry back.                                                              *)
NothingHalfRemoved ==
  [][\A p \in Proc :
       LET e == run[p].cur
       IN  pc[p] \in {"entryMoved", "recordLeft"} /\ pc'[p] = "entries" /\ e \notin stuck'
             => (entry'[e] = None => restore'[e] = None)]_vars
==============================================================================
