------------------------------ MODULE EntryStore ------------------------------
(****************************************************************************)
(* One versioned cache entry, as src/cache/store.ts and src/cache/restore.ts*)
(* keep it: lookup and validation, quarantine, materialization of a         *)
(* compressed entry, upload, and the replacement of an entry that a client  *)
(* cannot decode. Every rename is a step, and each may fail; a process may  *)
(* die between any two. The lock is EntryLock seen from outside. The access *)
(* record that a hit or an upload also touches, as its last act under the   *)
(* lock and without regard to success, is read by CachePrune alone and is   *)
(* modelled there.                                                          *)
(****************************************************************************)
EXTENDS Naturals

CONSTANTS
  Proc,       \* processes that resolve and upload; one that dies stays dead
  Build,      \* builds of one fingerprint, told apart by their digests
  Exclusive,  \* whether the entry lock excludes, or may be broken (EntryLock)
  None

ASSUME NoneAssumption == None \notin Build /\ None \notin Proc
ASSUME ExclusiveAssumption == Exclusive \in BOOLEAN

(* An entry: its build, whether it is stored compressed (schema 2), and     *)
(* whether its bytes still match its manifest. A restore: the digests in    *)
(* restore.json, and whether the artifact beside it has them.               *)
Entry == [gen : Build, zstd : BOOLEAN, ok : BOOLEAN]
Restore == [gen : Build, ok : BOOLEAN]
HitPath == [gen : Build, at : {"entry", "restore"}]
ASSUME AbsentAssumption == None \notin Entry \cup Restore \cup HitPath

VARIABLES
  entry,      \* what stands at the entry's path, or None
  restore,    \* what stands at its stable restore path, or None
  lock,       \* the process the entry lock belongs to, or None
  pc,         \* what each process does next
  my,         \* what each process remembers
  condemned,  \* history: builds whose entry rotted or could not be decoded
  spoilt,     \* history: builds whose restore rotted
  stuck       \* history: processes whose cleanup after a failure failed too

vars == <<entry, restore, lock, pc, my, condemned, spoilt, stuck>>

(* pend is the payload digest of a "compression-unavailable" miss, kept for *)
(* the upload that follows; src the build to upload; judged what validation *)
(* saw; staged, tomb and rtomb what the staging directory and the two       *)
(* tombstones hold; next where quarantine returns to; out the hit in use.   *)
Blank == [pend |-> None, src |-> None, judged |-> None, staged |-> None, tomb |-> None,
          rtomb |-> None, next |-> "idle", out |-> None]

AtRest == {"idle", "using", "dead"}
Materializing == {"restore", "codec", "decode", "settle"}
Quarantining == {"qrestore", "qentry"}
Moving == {"moveRestore", "moveEntry"}
Locked == {"rjudge", "ujudge", "stage", "check", "publish", "sweep", "abort"}
            \cup Materializing \cup Quarantining \cup Moving
Phase == AtRest \cup Locked \cup {"rlock", "ulock", "legacy"}

TypeOK ==
  /\ entry \in Entry \cup {None}
  /\ restore \in Restore \cup {None}
  /\ lock \in Proc \cup {None}
  /\ pc \in [Proc -> Phase]
  /\ my \in [Proc -> [pend : Build \cup {None}, src : Build \cup {None},
                      judged : Entry \cup {None}, staged : Entry \cup {None},
                      tomb : Entry \cup {None}, rtomb : Restore \cup {None},
                      next : {"idle", "legacy", "stage"}, out : HitPath \cup {None}]]
  /\ condemned \in SUBSET Build
  /\ spoilt \in SUBSET Build
  /\ stuck \in SUBSET Proc

Init ==
  /\ entry = None
  /\ restore = None
  /\ lock = None
  /\ pc = [p \in Proc |-> "idle"]
  /\ my = [p \in Proc |-> Blank]
  /\ condemned = {}
  /\ spoilt = {}
  /\ stuck = {}

------------------------------------------------------------------------------

Goto(p, from, to) ==
  /\ pc[p] = from
  /\ pc' = [pc EXCEPT ![p] = to]

(* acquireEntryLock, as far as EntryLock warrants it: a lock whose owner is *)
(* dead is recovered; any other is waited for, and the wait may time out.   *)
Acquire(p, from, to) ==
  /\ lock # None /\ Exclusive => pc[lock] = "dead"
  /\ Goto(p, from, to)
  /\ lock' = p
  /\ UNCHANGED <<entry, restore, my, condemned, spoilt, stuck>>

(* releaseEntryLock: a token that is not ours is left alone.                *)
Released(p) == IF lock = p THEN None ELSE lock

------------------------------------------------------------------------------
(* resolveCacheEntryDetailed.                                               *)

(* Whatever it finds replaces or removes the pending build of an earlier    *)
(* miss; nothing reads it in between.                                       *)
Lookup(p) ==
  /\ Goto(p, "idle", IF entry = None THEN "legacy" ELSE "rlock")
  /\ my' = [my EXCEPT ![p] = Blank]
  /\ UNCHANGED <<entry, restore, lock, condemned, spoilt, stuck>>

ResolveLock(p) == Acquire(p, "rlock", "rjudge")

ResolveBusy(p) ==
  /\ lock # None
  /\ Goto(p, "rlock", "legacy")
  /\ UNCHANGED <<entry, restore, lock, my, condemned, spoilt, stuck>>

(* The unverified artifact that old versions kept at the top level.         *)
Legacy(p) ==
  /\ \E to \in {"idle", "using"} : Goto(p, "legacy", to)
  /\ UNCHANGED <<entry, restore, lock, my, condemned, spoilt, stuck>>

(* A hit: the provider forgets the pending build and hands the path out.    *)
Answer(p, hit) ==
  /\ pc' = [pc EXCEPT ![p] = "using"]
  /\ my' = [my EXCEPT ![p] = [Blank EXCEPT !.out = hit]]
  /\ lock' = Released(p)

(* validateEntry, on what stands at the path now.                           *)
Valid == entry # None /\ entry.ok

JudgePlain(p) ==
  /\ pc[p] = "rjudge"
  /\ Valid
  /\ ~entry.zstd
  /\ Answer(p, [gen |-> entry.gen, at |-> "entry"])
  /\ UNCHANGED <<entry, restore, condemned, spoilt, stuck>>

JudgeCompressed(p) ==
  /\ Valid
  /\ entry.zstd
  /\ Goto(p, "rjudge", "restore")
  /\ my' = [my EXCEPT ![p].judged = entry]
  /\ UNCHANGED <<entry, restore, lock, condemned, spoilt, stuck>>

JudgeCorrupt(p) ==
  /\ ~Valid
  /\ Goto(p, "rjudge", "qrestore")
  /\ my' = [my EXCEPT ![p].next = "legacy"]
  /\ UNCHANGED <<entry, restore, lock, condemned, spoilt, stuck>>

------------------------------------------------------------------------------
(* materializeCompressedArtifact.                                           *)

(* validateRestore: both digests of restore.json and the artifact itself.   *)
RestoreValid(p) == restore # None /\ restore.ok /\ restore.gen = my[p].judged.gen

ReuseRestore(p) ==
  /\ pc[p] = "restore"
  /\ RestoreValid(p)
  /\ Answer(p, [gen |-> restore.gen, at |-> "restore"])
  /\ UNCHANGED <<entry, restore, condemned, spoilt, stuck>>

DiscardRestore(p) ==
  /\ Goto(p, "restore", "codec")
  /\ ~RestoreValid(p)
  /\ restore' = None
  /\ UNCHANGED <<entry, lock, my, condemned, spoilt, stuck>>

(* The codec is there and so is the space: decoding is awaited.             *)
StartDecode(p) ==
  /\ Goto(p, "codec", "decode")
  /\ UNCHANGED <<entry, restore, lock, my, condemned, spoilt, stuck>>

(* The payload at the path decodes to what the manifest read before says.   *)
Decoded(p) ==
  /\ Goto(p, "decode", "settle")
  /\ Valid
  /\ entry.zstd
  /\ entry.gen = my[p].judged.gen
  /\ UNCHANGED <<entry, restore, lock, my, condemned, spoilt, stuck>>

(* decode-malformed, archive-invalid (also before the decoder is called) or *)
(* integrity-mismatch: quarantine, and the miss is returned without a look  *)
(* at the legacy path.                                                      *)
Malformed(p) ==
  /\ entry # None
  /\ pc[p] \in {"codec", "decode"}
  /\ pc' = [pc EXCEPT ![p] = "qrestore"]
  /\ my' = [my EXCEPT ![p].next = "idle"]
  /\ condemned' = condemned \cup {entry.gen}
  /\ UNCHANGED <<entry, restore, lock, spoilt, stuck>>

SettleRestore(p) ==
  /\ pc[p] = "settle"
  /\ restore = None
  /\ restore' = [gen |-> my[p].judged.gen, ok |-> TRUE]
  /\ Answer(p, [gen |-> my[p].judged.gen, at |-> "restore"])
  /\ UNCHANGED <<entry, condemned, spoilt, stuck>>

(* Mutant: the whole manifest is kept for the upload, not its digest.       *)
UnavailableKeepsManifest(p) ==
  /\ Goto(p, "codec", "idle")
  /\ my' = [my EXCEPT ![p] = [Blank EXCEPT !.pend = my[p].judged]]
  /\ condemned' = condemned \cup {my[p].judged.gen}
  /\ lock' = Released(p)
  /\ UNCHANGED <<entry, restore, spoilt, stuck>>

(* No codec, no space, a timeout, a failed rename: a miss. Only a missing   *)
(* decoder lets the upload that follows replace the entry.                  *)
Unavailable(p) ==
  /\ pc[p] \in Materializing
  /\ pc[p] = "restore" => restore # None /\ ~RestoreValid(p)
  /\ \E digest \in {my[p].judged.gen, None} :
       /\ digest = None \/ pc[p] \in {"codec", "decode"}
       /\ my' = [my EXCEPT ![p] = [Blank EXCEPT !.pend = digest]]
       /\ condemned' = condemned \cup ({digest} \ {None})
  /\ pc' = [pc EXCEPT ![p] = "idle"]
  /\ lock' = Released(p)
  /\ UNCHANGED <<entry, restore, spoilt, stuck>>

------------------------------------------------------------------------------
(* quarantineEntry: the restore moves first, then the entry.                *)

Resume(p) ==
  /\ pc' = [pc EXCEPT ![p] = my[p].next]
  /\ lock' = IF my[p].next = "stage" THEN lock ELSE Released(p)
  /\ my' = [my EXCEPT ![p].judged = None, ![p].rtomb = None, ![p].next = "idle"]
  /\ UNCHANGED <<condemned, spoilt, stuck>>

QuarantineGone(p) ==
  /\ pc[p] = "qrestore"
  /\ entry = None
  /\ Resume(p)
  /\ UNCHANGED <<entry, restore>>

(* Mutant: quarantineEntry is called without the restore directory.         *)
QuarantineEntryOnly(p) ==
  /\ entry # None
  /\ Goto(p, "qrestore", "qentry")
  /\ UNCHANGED <<entry, restore, lock, my, condemned, spoilt, stuck>>

QuarantineRestore(p) ==
  /\ entry # None
  /\ Goto(p, "qrestore", "qentry")
  /\ restore' = None
  /\ my' = [my EXCEPT ![p].rtomb = restore]
  /\ UNCHANGED <<entry, lock, condemned, spoilt, stuck>>

QuarantineEntry(p) ==
  /\ pc[p] = "qentry"
  /\ entry # None
  /\ entry' = None
  /\ Resume(p)
  /\ UNCHANGED restore

(* What a rollback leaves at a path: what was moved away, if nothing else   *)
(* came there meanwhile.                                                    *)
Back(path, tombstone) == IF path = None THEN tombstone ELSE path

(* One of the two renames fails, here or in the replacement below: the      *)
(* restore goes back, unless that fails as well, and the error leaves.      *)
RenameFails(p) ==
  /\ pc[p] \in Quarantining \cup Moving
  /\ \/ /\ restore' = Back(restore, my[p].rtomb)
        /\ UNCHANGED stuck
     \/ /\ stuck' = stuck \cup {p}
        /\ UNCHANGED restore
  /\ pc' = [pc EXCEPT ![p] = "abort"]
  /\ UNCHANGED <<entry, lock, my, condemned, spoilt>>

------------------------------------------------------------------------------
(* uploadCacheEntry.                                                        *)

BeginUpload(p, b) ==
  /\ Goto(p, "idle", "ulock")
  /\ my' = [my EXCEPT ![p].src = b]
  /\ UNCHANGED <<entry, restore, lock, condemned, spoilt, stuck>>

UploadLock(p) == Acquire(p, "ulock", "ujudge")

(* The end of uploadBuildCache: the pending build is forgotten.             *)
End(p) ==
  /\ pc' = [pc EXCEPT ![p] = "idle"]
  /\ my' = [my EXCEPT ![p] = Blank]

(* Mutant: an upload waits for the lock without a deadline.                 *)
UploadWaits(p) == FALSE /\ UNCHANGED vars

UploadTimeout(p) ==
  /\ pc[p] = "ulock"
  /\ lock # None
  /\ End(p)
  /\ UNCHANGED <<entry, restore, lock, condemned, spoilt, stuck>>

(* Mutant: any compressed entry is replaced, whichever payload was missed.  *)
AnyCompressed(p) == my[p].pend # None /\ entry.zstd

(* The caller missed because it cannot decode this very payload.            *)
Replaceable(p) == my[p].pend # None /\ entry.zstd /\ entry.gen = my[p].pend

UploadExisting(p) ==
  /\ pc[p] = "ujudge"
  /\ Valid
  /\ ~Replaceable(p)
  /\ End(p)
  /\ lock' = Released(p)
  /\ UNCHANGED <<entry, restore, condemned, spoilt, stuck>>

UploadNew(p) ==
  /\ entry = None \/ (Valid /\ Replaceable(p))
  /\ Goto(p, "ujudge", "stage")
  /\ UNCHANGED <<entry, restore, lock, my, condemned, spoilt, stuck>>

(* Mutant: a compressed entry counts as corrupt.                            *)
UploadPrefersPlain(p) ==
  /\ entry # None
  /\ ~entry.ok \/ entry.zstd
  /\ Goto(p, "ujudge", "qrestore")
  /\ my' = [my EXCEPT ![p].next = "stage"]
  /\ UNCHANGED <<entry, restore, lock, condemned, spoilt, stuck>>

UploadCorrupt(p) ==
  /\ entry # None
  /\ ~entry.ok
  /\ Goto(p, "ujudge", "qrestore")
  /\ my' = [my EXCEPT ![p].next = "stage"]
  /\ UNCHANGED <<entry, restore, lock, condemned, spoilt, stuck>>

(* prepareCompressedEntry: "compressed", or the "fallback" to a plain entry *)
(* that every failure on the way takes; never tried when replacing.         *)
MayCompress(p, zstd) == zstd => my[p].pend = None

(* Copy, digest, compress if asked to, write the manifest. What is on the   *)
(* disk afterwards may differ from it.                                      *)
Stage(p) ==
  /\ Goto(p, "stage", "check")
  /\ \E zstd, ok \in BOOLEAN :
       /\ MayCompress(p, zstd)
       /\ my' = [my EXCEPT ![p].staged = [gen |-> my[p].src, zstd |-> zstd, ok |-> ok]]
  /\ UNCHANGED <<entry, restore, lock, condemned, spoilt, stuck>>

(* Mutant: the staged entry is not validated.                               *)
Unchecked(p) ==
  /\ Goto(p, "check", IF entry = None THEN "publish" ELSE "moveRestore")
  /\ UNCHANGED <<entry, restore, lock, my, condemned, spoilt, stuck>>

CheckStaged(p) ==
  /\ Goto(p, "check", IF entry = None THEN "publish" ELSE "moveRestore")
  /\ my[p].staged.ok
  /\ UNCHANGED <<entry, restore, lock, my, condemned, spoilt, stuck>>

(* Copying fails, or the staged entry does not validate.                    *)
StageFails(p) ==
  /\ pc[p] \in {"stage", "check"}
  /\ pc[p] = "check" => ~my[p].staged.ok
  /\ pc' = [pc EXCEPT ![p] = "abort"]
  /\ UNCHANGED <<entry, restore, lock, my, condemned, spoilt, stuck>>

MoveRestore(p) ==
  /\ Goto(p, "moveRestore", "moveEntry")
  /\ restore' = None
  /\ my' = [my EXCEPT ![p].rtomb = restore]
  /\ UNCHANGED <<entry, lock, condemned, spoilt, stuck>>

MoveEntry(p) ==
  /\ entry # None
  /\ Goto(p, "moveEntry", "publish")
  /\ entry' = None
  /\ my' = [my EXCEPT ![p].tomb = entry]
  /\ UNCHANGED <<restore, lock, condemned, spoilt, stuck>>

(* rename(2) onto a directory that is not empty fails.                      *)
Publish(p) ==
  /\ entry = None
  /\ Goto(p, "publish", "sweep")
  /\ entry' = my[p].staged
  /\ my' = [my EXCEPT ![p].staged = None]
  /\ UNCHANGED <<restore, lock, condemned, spoilt, stuck>>

(* Mutant: only the restore is put back.                                    *)
PublishFailsHalf(p) ==
  /\ Goto(p, "publish", "abort")
  /\ restore' = Back(restore, my[p].rtomb)
  /\ UNCHANGED <<entry, lock, my, condemned, spoilt, stuck>>

(* The entry goes back, then the restore; the first of the two that fails   *)
(* leaves the rest undone.                                                  *)
PublishFails(p) ==
  /\ Goto(p, "publish", "abort")
  /\ \/ /\ entry' = Back(entry, my[p].tomb)
        /\ restore' = Back(restore, my[p].rtomb)
        /\ UNCHANGED stuck
     \/ /\ entry' \in {entry, Back(entry, my[p].tomb)}
        /\ UNCHANGED restore
        /\ stuck' = stuck \cup {p}
  /\ UNCHANGED <<lock, my, condemned, spoilt>>

(* The tombstones are removed. A failure is thrown, after publication.      *)
Sweep(p) ==
  /\ pc[p] = "sweep"
  /\ End(p)
  /\ lock' = Released(p)
  /\ UNCHANGED <<entry, restore, condemned, spoilt, stuck>>

SweepFails(p) ==
  /\ Goto(p, "sweep", "abort")
  /\ UNCHANGED <<entry, restore, lock, my, condemned, spoilt, stuck>>

(* finally: the staging directory is removed and the lock released; when    *)
(* the removal throws, the release is skipped.                              *)
Abort(p) ==
  /\ pc[p] = "abort"
  /\ End(p)
  /\ \/ /\ lock' = Released(p)
        /\ UNCHANGED stuck
     \/ /\ my[p].staged # None
        /\ stuck' = stuck \cup {p}
        /\ UNCHANGED lock
  /\ UNCHANGED <<entry, restore, condemned, spoilt>>

------------------------------------------------------------------------------
(* The environment: the client is done with the path, dies, or the bytes of *)
(* the entry or of the restore change under it.                             *)

Done(p) ==
  /\ Goto(p, "using", "idle")
  /\ my' = [my EXCEPT ![p] = Blank]
  /\ UNCHANGED <<entry, restore, lock, condemned, spoilt, stuck>>

Crash(p) ==
  /\ pc[p] \in Phase \ AtRest
  /\ pc' = [pc EXCEPT ![p] = "dead"]
  /\ my' = [my EXCEPT ![p] = Blank]
  /\ UNCHANGED <<entry, restore, lock, condemned, spoilt, stuck>>

EntryRots ==
  /\ Valid
  /\ entry' = [entry EXCEPT !.ok = FALSE]
  /\ condemned' = condemned \cup {entry.gen}
  /\ UNCHANGED <<restore, lock, pc, my, spoilt, stuck>>

RestoreRots ==
  /\ restore # None
  /\ restore.ok
  /\ restore' = [restore EXCEPT !.ok = FALSE]
  /\ spoilt' = spoilt \cup {restore.gen}
  /\ UNCHANGED <<entry, lock, pc, my, condemned, stuck>>

Step(p) ==
  \/ ResolveLock(p) \/ ResolveBusy(p) \/ Legacy(p)
  \/ JudgePlain(p) \/ JudgeCompressed(p) \/ JudgeCorrupt(p)
  \/ ReuseRestore(p) \/ DiscardRestore(p) \/ StartDecode(p)
  \/ Decoded(p) \/ Malformed(p) \/ SettleRestore(p) \/ Unavailable(p)
  \/ QuarantineGone(p) \/ QuarantineRestore(p) \/ QuarantineEntry(p) \/ RenameFails(p)
  \/ UploadLock(p) \/ UploadTimeout(p)
  \/ UploadExisting(p) \/ UploadNew(p) \/ UploadCorrupt(p)
  \/ Stage(p) \/ CheckStaged(p) \/ StageFails(p)
  \/ MoveRestore(p) \/ MoveEntry(p) \/ Publish(p) \/ PublishFails(p)
  \/ Sweep(p) \/ SweepFails(p) \/ Abort(p)

Next ==
  \/ \E p \in Proc : Step(p) \/ Lookup(p) \/ Done(p) \/ Crash(p)
  \/ \E p \in Proc, b \in Build : BeginUpload(p, b)
  \/ EntryRots
  \/ RestoreRots

Spec == Init /\ [][Next]_vars

(* A live process takes its next step; nobody has to ask, finish or die.    *)
FairSpec == Spec /\ \A p \in Proc : WF_vars(Step(p))
------------------------------------------------------------------------------
(* Properties.                                                              *)

(* No step of an upload, a failed one, a quarantine or a crash puts an      *)
(* entry or a restore at its final path whose bytes are not those of its    *)
(* manifest: a bad one went bad there.                                      *)
SoundUnlessRotted ==
  /\ entry # None => entry.ok \/ entry.gen \in condemned
  /\ restore # None => restore.ok \/ restore.gen \in spoilt

(* A restore never outlives its entry, nor stands beside the entry of       *)
(* another build: both move together, in the order and with the rollbacks   *)
(* that keep it so at every step, also when a process dies half-way.        *)
RestoreBelongs == restore # None => entry # None /\ entry.zstd /\ restore.gen = entry.gen

(* The path a hit returned keeps its artifact while the client uses it,     *)
(* whatever other clients resolve, upload or fail at, unless its bytes rot  *)
(* or some client found the payload undecodable.                            *)
ReturnedPathKept ==
  \A p \in Proc :
    LET hit == my[p].out
    IN  hit # None /\ hit.gen \notin condemned \cup spoilt =>
          IF hit.at = "entry" THEN entry # None /\ ~entry.zstd /\ entry.gen = hit.gen
                              ELSE restore # None /\ restore.gen = hit.gen

(* A replacement or a quarantine that throws has put back what it moved: no *)
(* entry stays in the trash while its path is empty, no restore while a     *)
(* compressed entry lacks it, unless the rollback itself failed.            *)
FailureRollsBack ==
  \A p \in Proc \ stuck :
    pc[p] = "abort" =>
      /\ my[p].tomb # None => entry # None
      /\ my[p].rtomb # None => restore # None \/ ~entry.zstd

(* A step that empties the path of a sound entry.                           *)
Removal ==
  entry # None /\ entry' = None /\ entry.ok =>
    \E p \in Proc : /\ lock = p
                     /\ \/ pc[p] = "moveEntry" /\ my[p].pend = entry.gen
                        \/ pc[p] = "qentry" /\ entry.gen \in condemned

(* A client only ever removes a sound entry that it has itself found        *)
(* undecodable: an upload never replaces a build that some other client     *)
(* published or replaced since this one missed.                             *)
RemovesOnlyJudged == [][Removal]_vars

(* Every lookup and every upload ends, though locks time out, owners die    *)
(* with the lock, and a failed cleanup never gives it back.                 *)
RequestsEnd == \A p \in Proc : pc[p] \notin AtRest ~> pc[p] \in AtRest

(* The store implements the write-once cell: what stands at the entry's     *)
(* path is its value, and the bytes of a hit, taken from the entry or from  *)
(* the restore, are the value at the moment of the answer.                  *)
Cell == INSTANCE ArtifactCache WITH
  store <- IF entry = None THEN None ELSE entry.gen,
  answer <- [p \in Proc |-> IF my[p].out = None THEN None ELSE my[p].out.gen]

ImplementsCell == Cell!Spec
==============================================================================
