# Verification of eas-local-cache

TLA+ specifications of the build cache in `src/src`, TLC configurations that
check them on small instances, and proofs that TLAPS checks for every value of
the constants. Paths such as `cache/lock.ts` are relative to `src/src`.

## The system

The program is a build-cache provider for EAS, run inside `eas` and as a command
line tool. Every process works on one directory tree; nothing is shared but the
file system, and the LAN part adds an HTTPS server with clients on other
machines.

| Component | State | Operations | Hard behaviour |
|---|---|---|---|
| Entry lock, `cache/lock.ts` | a directory with `owner.json` | acquire with a deadline, release, inspect | stale-lock recovery renames and removes by path; dead owners, owners without a record, foreign hosts |
| Entry store, `cache/store.ts` | per fingerprint: the entry's directory, staging and trash | lookup, quarantine, upload, replacement | several renames with rollbacks; failures and deaths between them; a digest kept from a lookup to an upload |
| Restore, `cache/restore.ts` | per compressed entry: the decoded artifact | reuse, discard, decode, publish | decoding is awaited while the lock is held; leftovers of an earlier entry |
| Access records, `cache/access.ts` | per entry: last use and the end of a lease | touch, read | best effort: a hit is returned though the touch failed |
| Prune plan, `cache/cleanup.ts`, `cache/cleanup-auxiliary.ts` | none | auxiliary data by age and size, then entries by age, count and size, in order of last use | limits of zero, ties, protected entries that count, one limit shared by two kinds of data |
| Cleanup, `cache/cleanup.ts`, `cache/cleanup-auxiliary.ts` | the inventories it plans from | plan, remove auxiliary data, plan again, remove entries | works from old inventories; re-reads under each lock; two renames per entry |
| Catalog, `cache/catalog.ts` | none | inventory | reads without locks |
| Automatic prune, `provider/maintenance.ts`, `cache/automatic-prune-state.ts`, `cache/policy-state.ts` | a marker with the last claim | claim, prune, roll back | the clock is read before the lock is waited for; a rollback after another's claim; releases and rollbacks that fail |
| Provider, `index.ts`, `provider/*` | pending builds in memory and in files | resolve, upload, launch | what was missed is remembered until the upload |
| Events, `cache/events.ts` | one file per event in a directory per day, a lock | record, prune, scan | the cap is enforced before the write; dead writers leave temporary files; `stats` scans without the lock |
| Insight, doctor, timing, fingerprint, toolchain, options, paths | none of their own | pure functions and reports | — |
| LAN state, `lan/state.ts` | one file: identity, peers, clients; a directory lock of its own | read without the lock, update with it | the lock is broken by path as well; unlocked readers beside the rename |
| LAN coordinator, `lan/coordinator.ts` | reservation and use of the pairing window, in memory | pair, authenticate, acknowledge, discard | each waits for the state file between its checks and its write |
| LAN server, `lan/server.ts`, `lan/export.ts` | transfer slots, open sockets | routes, drain, close | slots, deadlines, imports that end after their deadline |
| LAN client, import, sync: `lan/client.ts`, `lan/import.ts`, `lan/sync.ts` | an entry being imported | pair, download, publish | another writer of the store, with deadlines between its renames |
| Command line, `cli/*` | none | prune, serve, pair, peers, ... | signals, timers |

What makes it correct, component by component:

- lock: one holder, whatever dies; the owner's own check succeeds; nobody waits
  for ever;
- store and restore: never unsound bytes at a final path, never a restore of
  another build, no returned path replaced under its user, what fails is undone,
  a sound entry is only removed by who judged it, every request ends;
- plan and cleanup: limits met, nothing removed without need, the most recently
  used last; a lease is honoured, a provider does not remove what it returns, an
  entry and its restore go together;
- automatic prune: one unforced claim per policy and throttle, whoever else claims or undoes; a failed
  prune does not keep others from pruning;
- LAN state: no update is lost or undone by another; an unlocked read sees the revocations in place
  when it looks at the link count;
- transfers: one at a time per entry and machine, nothing left behind whichever way one
  ends, true answers, no sound entry displaced by a peer's, every operation ends;
- events: the cap holds at every moment, a scan without the lock never sees more than
  that, nothing goes that is neither expired nor in excess;
- pairing: a window authorizes one client, once, with a credential both sides
  hold; expiry, shutdown and restart do not undo a completed pairing.

`PROJECT.json` lists the components with what is left out of each, and the
hazards of the code with the properties that cover them.

## The modules

| Module | Models | Uses |
|---|---|---|
| `LockService` | abstract: a lock that is taken, granted, released and inherited from the dead in single steps | |
| `EntryLock` | every file-system call of `acquireEntryLock` and `releaseEntryLock` | instance of `LockService` |
| `EntryLockProofs` | theorems about it | `EntryLock` |
| `ArtifactCache` | abstract: a cell per fingerprint that is written once, dropped only when condemned, and answers with its content | |
| `EntryStore` | one entry's lookups, materializations, quarantines and uploads by several processes | instance of `ArtifactCache` |
| `EntryStoreProofs` | theorems about it | `EntryStore` |
| `PrunePlan` | the plan that `planPrune` must compute, as one set expression | |
| `AuxPlan` | which auxiliary data a prune selects before it turns to entries, by age and by size, as set expressions | `PrunePlan` |
| `PlanLoop` | `listAuxiliary`, `addAuxiliaryForSize` and `planPrune` as the loops they are | `AuxPlan` |
| `CachePrune` | resolving, uploading and pruning processes over several entries with a clock | `PrunePlan` |
| `PruneProofs` | theorems about planning and pruning | `CachePrune`, `PlanLoop` |
| `AutoPrune` | claims of a provider's own prunes: throttle, marker, rollback | |
| `AutoPruneProofs` | theorems about it | `AutoPrune` |
| `StateRegister` | abstract: a register that is read and replaced in one step | |
| `StateFile` | every file-system call of the LAN state file's lock, its updates and its unlocked reads | instance of `StateRegister` |
| `StateFileProofs` | theorems about it | `StateFile` |
| `LanPairing` | coordinator, server routes and clients of pairing, with the state file | |
| `LanPairingProofs` | theorems about it | `LanPairing` |
| `LanTransfer` | an entry carried between machines: fetch, push, the server's entry routes, export and import | |
| `LanTransferProofs` | theorems about it | `LanTransfer` |
| `EventLog` | the telemetry of lookups: recorders, prunes and a scan without the lock | |
| `EventLogProofs` | theorems about it | `EventLog` |
| `MC...` | instances for TLC | |

**EntryLock.** `dir` is what stands at the lock's path, a directory of some
generation with the owner record in it. A directory and the record written to
it are told apart because the code writes, reads, renames and removes by path:
`WriteOwner` writes into whatever stands there, `Break` renames whatever stands
there, `Unlink` and `Rmdir` remove it. `Start`, `Mkdir`, `WriteOwner`,
`ReadOwner`, `Judge...`, `Break`, `Retry`, `GiveUp`, `Release`, `Unlink` and `Rmdir` are
the steps of the two functions; `Crash` is a death at any of them; `GrowOld`
lets the present directory pass the age after which `isStale` gives up on it.
`broken` is a history variable that collects breaks which went wrong: of another directory
than the one judged, or under a holder that outstayed the age for foreign hosts.
The refinement `Service` maps the creator of the directory to the lock's owner, who holds to those it is granted to,
and `broken` to the service's leave to go wrong (`loose`).

**EntryStore.** One fingerprint. `entry` and `restore` are what stands at the
two final paths (schema, build, whether the bytes are those of the manifest);
`lock` is the holder. `pc[p]` is the phase of process `p`, `my[p]` what it
holds: the entry it judged, the staged one, the tombstones, the digest that waits
for an upload, the path it returned. There is one action per stretch of code between
two awaits or two file-system effects that can fail. With `Exclusive = TRUE` the lock is
the one `EntryLockProofs` proves (a dead or stuck owner is replaced); with
`FALSE` it may be taken at any time, as after a break that went wrong. Bytes may
go bad in place (`EntryRots`, `RestoreRots`), recorded in `condemned` and `spoilt`.
Digests, manifests and the codec are abstracted to whether the bytes are right.

**CachePrune.** Holds of an entry what cleanup looks at: creation, validity,
schema, access record, restore. Lookups and uploads are one step
under the lock each, because `EntryStore` shows how they look from outside; a prune
has the code's steps: an inventory without locks, the maintenance lock, auxiliary
data one by one, a second plan by a date of its own, entries one by one with their re-reads and
two renames. What a prune planned (`run[p].aux`, `run[p].plan`) stays
as it was read while others work. The re-reads ask leases by the prune's first date (`run[p].at`, `nowMs`),
the second plan by the date that `planPrune` draws then, as no caller passes one.

**PlanLoop / AuxPlan / PrunePlan.** `PlanLoop` keeps the code's loops, counters and early exits: those of
`listAuxiliary`, each with its own questions (`InvalidLoop`, `RestoreLoop`, `EntryLoop`, `RootsLoop`), what
`addAuxiliaryForSize` collects (`SpareLoops`) and takes, the oldest first, then the three passes over the entries, whose
size limit is what the auxiliary data leaves (`EntryPolicy`). There are two dates: `Now`, by which auxiliary data is judged,
and `date`, which `planPrune` draws when it begins. `AuxPlan` and `PrunePlan` say in set terms which data is abandoned, has
outlived the retention or is over the size, and which entries are expired, over the count and over the size.
The loops ask less than one expects, and so do the plans: the restore of an expired entry goes although the caller has named
the entry, and even if the loop over bad metadata has just spared it for that reason; staging and quarantine go for their size
whoever is named or leased. A loop whose turns do not depend on each other stands as one set; one over a sorted list with a
counter as a set `todo` whose first in the order comes next (`NextItem`, `NextEntry`). `CachePrune` uses `PrunePlan`.

**AutoPrune.** `marker` is `automatic-prune.json`, `lock` who has its lock, `my[p]` what a call was made with and
the clock reading it took before it waited. `Call` to `Release` are the claim, `Prune` and `PruneFails` how
the prune ends, `UndoAcquire` to `RollbackFails` the rollback. `GoUnread` is a marker that cannot be read, `ReleaseFails` a
lock that cannot be removed, which ends the call. `latest`, `lifted` and `fate` are history: each policy's latest claim,
whether an event has lifted its throttle, and what became of the prune that the marker stands for.

**StateFile.** `dir` is what stands at `lan.lock`, as in `EntryLock` but for the differences of this lock: its owner is a
pid, an owner record is created exclusively, an age counts only where there is no owner, and it is the age that `lstat`
saw that is combined with the owner read after it (`Stale`). `WriteExists` is the case that the
`EEXIST` of the owner record is taken for that of `mkdir` after the directory has been removed. `file` is `lan.json`, `base[p]` the state
an update works on, `rd` an unlocked reader between `Open`, `Look` (the one `fstat`) and `Return`: a replacement before
the look leaves it a file without a name, which `nlink` shows and `Refuse` throws for; one between the look and the return goes
unnoticed, and the old state is returned. `rd[r].out` remembers whose revocations were in place at the look. `broken` collects how live processes have lost their directory. The refinement maps `done` and `pc` to the stages of a
call and `broken` to the register's permission to lose updates.

**LanPairing.** `file` is `authorizedClients`; `reserved`, `reservedId` and
`consumed` are the coordinator's variables; `task` holds the handlers under way,
each waiting for the state file or for the rest of its request; `phase`, `conn`,
`got`, `peer` are the client's side. `Pair` is a request up to its wait,
`CommitPair` the callback and the answer; `Ack`, `CheckAck`, `Activate` likewise for
the acknowledgement; `Expire`, `Shutdown` and `Discard` for the end of a window.
A client may give up (`GiveUp`) with its handler still under way; `Halt` ends the server
at any time.

**LanTransfer.** One entry on several machines, each with a cache, a server and provider
processes. A *worker* is a process that fetches (`fetchLanEntryToLocal`) or pushes
(`pushLanEntryToPeer`), or a request that a server handles. `tlock` is the machine's
transfer lock of the entry, held for the whole operation; the entry lock is held only
by the phases of `Publishing`, between which the code awaits nothing, so being in one
is holding it. `disk[w]` is what a worker keeps in `transfer-staging`, `active` the server's
slots, `my[w].from` whether anybody still waits for a request's answer. A deadline is the code's
`Date.now() >= deadlineMs`: it may pass before any question, so next to every step stands the one taken when it has
passed. What must not be left open is that a request that has been answered 503
(`Timeout`) never passes such a question again; that is `Late`. Export reads twice (`Read`,
`Write`); import looks once without the entry lock (`SeeExisting`), awaits an unpacking and the lock, and
judges again (`Judge...`), then moves restore, entry and staging directory one by one.
Local uploads, decoding, prunes, decay of bytes, deaths and errors are bounded by `MaxChange`,
and `Change` says which kinds of them happen.

**EventLog.** `files` are the files below the events' root, each an event, a file that does not
parse, or a temporary one. `Call` reads the clock, `Acquire` takes the telemetry lock, `Scan` is
`scanResolveEvents` with `selectRetentionCandidates` (one step: it awaits nothing, and under the lock only it
changes files), `Remove` one unlink, `Write` and `Publish` the two halves of `publishEvent`; `Fails` is
whatever throws, `Report` a dry run. The lock has `EntryLock`'s protocol, so it is abstracted to
that module's result: it excludes, or (`Overlap`) a waiter comes in beside a live holder. `crowd`
remembers an overlap until somebody has completed a retention alone. `reader` is the scan of `stats`: the days first, each
day's names, then the files one by one.

## What TLC checks

| Run | Instance | Shows |
|---|---|---|
| `lock_safety` | 2 processes of one host and 1 of another, 1 token each at a time, ageing, fairness | unless a break went wrong, the refinement `ImplementsService`, and with it one holder at most; attempts end (`AttemptEnds`); a dead owner's lock is replaced (`DeadLockRecovered`) |
| `store_safety` | 2 processes, 2 builds, fairness | `SoundUnlessRotted`, `RestoreBelongs`, `ReturnedPathKept`, `FailureRollsBack`, the refinement `ImplementsCell`, and `RequestsEnd` |
| `prune_plan` | every catalog of 3 entries over 2 sizes, 3 dates, 2 leases, and of 2 entries with up to 2 items of auxiliary data of every kind, restores with bad metadata among them, with and without an entry; a date of `planPrune` that is that of the prune or later; every policy over small limits and no limit | the loops compute the plan (`LoopsComputePlan`); limits met, order of last use, no needless removal (`PlanSound`) |
| `prune_safety` | 2 processes, 1 entry, clock up to 2, unreadable records | `LeasedHitKept`, `OwnEntryKept`, `NothingHalfRemoved` |
| `prune_own_hit` | 1 process, 1 entry | *violated*: `OwnHitKept` |
| `pairing_safety` | 2 clients, 2 handlers at a time, 3 credentials, 2 runs of the server | `OneUse`, `ActiveWasStored`, `TrustKept`, `ActivatesOnlyIssued` |
| `pairing_reuse` | 1 client, 2 handlers, 1 run | *violated*: `OneUseWindow` |
| `transfer_safety` | 2 machines, 2 fetches or pushes and 2 requests at a time, 2 builds, 1 change of any kind | `ResourcesKept`, `AnswersTrue`, `RestoreWithEntry`, `AnsweredIsFinal`, `ValidKept` |
| `transfer_liveness` | 2 machines, 2 fetches or pushes, 1 request at a time, 1 build, 1 death or lock never given back, fairness | `TransfersEnd` |
| `state_file` | 2 updaters with 2 tokens each, 1 reader, 1 peer, deaths, failures, ageing | `RevokedStaysOut`, `ReadSeesRevocations`, the refinement `ImplementsRegister` |
| `auto_prune` | 2 processes, 2 policies, throttle 2, clock up to 4 | `MarkerBacked`, `ThrottleKept` |
| `events_safety` | 2 processes, 1 scan, 2 events kept for a day, 4 events ever written, 3 days | `CountBounded`, `SummaryAccepted`, `RemovesOnlyDue` |

Each module with a state of several processes also has its type invariant, `TypeOK`, checked in its main run.

Why these bounds. The lock needs two contenders and an owner to go wrong: three processes,
two of one host and one of another so that both branches of `isStale` occur. With one token a process does
not take the lock again while somebody still judges its last directory; the proofs cover any number. In the
store each interference is between the holder and one other process, and two
builds are what it takes to tell a restore of another build from the right one; the proofs
below remove the bound for everything but liveness. Three entries in a plan give
one removed before, at and after a limit, with one of them protected; two items of auxiliary data beside two entries
give one taken and one left, of every pair of kinds, owners and ages. The clock of
`CachePrune` runs from creation through retention to the end of a lease; its
`Id` is a parameter, but entries share nothing but the clock and the maintenance
lock, so one entry and two processes have all the races about an entry. Two
credentials per client would suffice for a retry; three are needed so that both
clients draw one and one of them draws again. Two runs let a record, a
reservation and a credential of an earlier run meet a later one.
Bounds on unbounded data: `MaxTime`, `MaxGen`, `MaxSession`, `Slot`, `Serial`, each a
constant that only the guards of drawing, ticking or starting look at.

Two machines are client and server of each other, which is what mutual waiting takes; with two
builds the entry seen before an await and the one found after it can differ in
build, in schema or in both. One change suffices for one interference in any
interval; two in one interval are left out. A fetch with several peers in turn needs a third machine and is not covered by these runs.

In the event log two kept events and a third are the cap met, passed and (with a recorder's place kept) undershot;
four identifiers let a file be written, removed and replaced twice while a scan goes on, and three days make an
event expire between a recorder's clock reading and its turn. `MaxId` and `MaxTime` only stop drawing and ticking. At most one
file at a time has gone bad, one overlap at a time is in effect, and the scan without the lock is not followed through an overlap.

Two updaters and two tokens each let a directory be judged, broken and made anew with the judge still on its way; with one
peer a lost update is a revocation undone or a pairing dropped. After the first loss of a lock (`Followed`) only calls under way
go on: what the file promises holds up to that. Two policies and two processes let one claim replace, or be undone around, another's, and a clock of
twice the throttle lets a claim be refused, due and undone in each order.

Deadlock is not checked: in every model processes may be idle or dead for good.

Every property has a mutant in `PROJECT.json`: a definition of the model changed
in the way a plausible bug would change the code, which makes TLC find that property
violated. They stand beside the definition they change, marked `Mutant`.

### Fairness

Safety properties need none; `lock_safety` and `store_safety` check theirs under the fairness of their liveness properties. `FairSpec` of `EntryLock` has weak fairness for each
process's steps (the event loop runs what is due), weak fairness for the age of a
directory that stays (time passes) and strong fairness for `GiveUp`: a
waiter looks at its deadline only now and then, but when it has done so often
enough the deadline is past. No fairness is assumed of `Start`, `Release` or
`Crash`: nobody has to ask for a lock, give it back or die. Hence `AttemptEnds` is
conditional on requests ceasing: a waiter that breaks a lock or finds none goes
round without a look at its deadline. `FairSpec` of `EntryStore`
has weak fairness for each process's steps only, timeouts of waiters among them. `FairSpec` of `LanTransfer` has weak fairness for each worker's
steps, which are also the steps of a waiter whose time is up, and for a client's giving up, which its
timer brings about. Nobody has to start, die or prune.

## Where code and documentation disagree

1. **A provider's own restore** (`prune_own_hit`). When the access record of a hit
   could not be written, the automatic prune that follows may remove the restore that
   is about to be returned: the loop of `cache/cleanup-auxiliary.ts:132-154` does
   not look at the protected entries.
2. **One-use windows** (`pairing_reuse`). A pair request checks the window before it
   waits for the state file and not after (`lan/coordinator.ts:98`). An old request of
   the client that has just paired replaces its active record by a new pending one.

Beside these: `breakStaleLock` (`cache/lock.ts:151`) and its counterpart in `lan/state.ts:489` rename whatever stands at
the lock's path when they run, not what was judged. Two waiters can both come to hold the lock; it takes a dead owner and a waiter delayed between two
calls. The models follow the code there: `ImplementsService` and `ImplementsRegister` hold up to such a break (`misbreak` in `broken`), and
in the store `SoundUnlessRotted` holds whatever the lock does.

## What is proved

`tlapm` checks these from nothing, for any number of processes, hosts, builds and
lock directories. The assumptions are those of the modules: `None` is not a member of the
sets, constants have their types.

**EntryLockProofs.** `TypeCorrect`, `InductiveInvariant`, `HolderKeepsLock` (`LiveLockKept`),
`Exclusion` (`ExclusionUnlessBroken`), `Refinement` (`ImplementsService`) and `ServiceExcludes`. Exclusion alone is not inductive: that
a second process cannot create the directory depends on the first one's
still being there, which depends on nobody's removing it by path.
The invariant says, as long as no break went wrong, that the directory's generation
and record agree with the phase and token of the process that made it, and that each process past its `mkdir`
still owns what stands there. Each action is then one proof step.
In `Refinement` `Mkdir` takes the lock, `WriteOwner` grants it, `Release` ends the grant and `Rmdir` or a `Break` vacates it; that the break
finds nobody granted is `BreakIsSafe`, and every other step that breaks nothing is a stutter. `ServiceExcludes` is what this is for: in the
service itself a live owner alone is granted the lock.

**EntryStoreProofs.** In two layers.
*Whatever the lock does*: `TypeCorrect`, and `Soundness` (`SoundUnlessRotted`), by
`Sound`, which adds what must be known at each phase (`Known`) and that what was
moved away or staged is no worse than what stands at a path (`MovedIsSound`): a
rollback puts back only what was sound.
*With `Exclusive`*, the lock taken to exclude: `InductiveInvariant`, and from it
`Belonging` (`RestoreBelongs`), `HitsAreKept` (`ReturnedPathKept`), `Rollback`
(`FailureRollsBack`), `OnlyJudgedRemoved` (`RemovesOnlyJudged`) and `Refinement`
(`ImplementsCell`). The strengthening is `LockIsOwn` (who is in a locked phase
holds the lock), `Remembered` (what is held in which phase) and
`Between`, which says for each phase what stands at the two paths
half-way through a replacement or a quarantine. It is needed because
`RestoreBelongs` speaks of the paths only, while whether the next rename keeps it
depends on which of the two the process has already moved and what it will put
back. `Refinement` maps the entry's build to the cell and the returned paths to
answers; every step of `EntryStore` is a step of the cell or a stutter.

`Exclusive` is discharged by the entry lock's `Refinement` only as long as no break goes wrong. That the lock of `EntryStore`, `CachePrune`, `AutoPrune`,
`EventLog` and `LanTransfer` is `LockService` with a waiting caller in each is by reading, not by proof.

**StateFileProofs.** `TypeCorrect`; and with the strengthening `InductiveInvariant`, `RevocationKept` (`RevokedStaysOut`), `ReadsSeeRevocations`
(`ReadSeesRevocations`) and `Refinement` (`ImplementsRegister`). Reads follow from `OpenIsCurrent`, which holds whatever the lock does: a file that
is open and still has its link is the one in place. At the look it therefore lists nobody whose revocation is in place, because `RevokedStaysOut` holds of
the file; nothing is claimed of a revocation that comes between the look and the return, which the code does not notice.
The strengthening is that of the entry lock, which token stands at the path in each phase as long as nothing is `broken`, with what it is for: between its read and
its rename an updater's `base` is what the file holds. Without it neither the register's step nor the exclusion of revoked clients follows from
the step's own guard.

**AutoPruneProofs.** `TypeCorrect`, `InductiveInvariant`, `FailureLeavesNoMarker` (`MarkerBacked`) and `ThrottleHolds` (`ThrottleKept`).
That a claim respects the throttle of its policy's latest claim needs two facts that no state says by itself: the marker is that claim unless the
throttle was lifted (`MarkerIsLatest`), and what was decided still holds when the claim is written, because the lock is held in between
(`LockHeld`, `DecisionHolds`).

**LanPairingProofs.** `TypeCorrect`, `InductiveInvariant`, `OneUseHolds` (`OneUse`), `StoredFirst` (`ActiveWasStored`), `TrustHolds`
(`TrustKept`) and `IssuedOnly` (`ActivatesOnlyIssued`). The window is checked before the wait for the state file and not after it, so `OneUse` is not
kept by any guard: it holds because all handlers past that check are of the one client that holds the window, and the first to
activate leaves the others nothing to activate, as a new pending record never repeats a credential (`OneClient`). `TrustKept` needs that whoever waits, waits for a handler of
its own request with the credential it has in hand (`Connected`, `InHand`); a client that gave up and began anew is answered by nobody else's
handler. `IssuedOnly` needs that the reservation's holder has in hand only what this run sent (`HeldIssued`).

**PruneProofs, planning.** `PlanInvariant`, `LoopsCompute` (`LoopsComputePlan`) and `Sound` (`PlanSound`), for every catalog, auxiliary data and
policy. The assumptions are that inventories are finite and that sizes, limits and dates are numbers of the right sign (`NumbersAssumption`, `InputAssumption`); the date of `planPrune` is any of `Dates`, earlier or later than the prune's.
`LoopsComputePlan` speaks of the end of the loops only. `LoopsList` shows that the loops of `listAuxiliary` and those of `addAuxiliaryForSize`, each with its own
questions, list what `Listed` and `ForSize` say; above all, that what `RestoreLoop` passes over for a named entry `EntryLoop` takes. From then on the invariant `PlanInv` says for each turn that exactly what the plan says of those
already visited is selected, and that both counters are the number and the size of what stays; so the loop's question (is the counter over the
limit?) is the plan's (do those that come later leave too little room?). Afterwards `Sound` is about the plan and no longer about the loops:
at the end the limits are met or only protected entries stay (`LimitsMet`), what goes was used before what stays (`LeastFirst`), and what goes for a
limit would exceed it if it stayed with what stays and what goes after it (`NoneNeedless`).
The sizes of a set are summed by a fold, which fixes no order the provers can see. The lemmas `BytesWithout` and `BytesGrow` show that the sum is
independent of it. They rest on `SetInduction`, an induction over the parts of a finite set that is itself proved from the library's fact that inclusion
is well-founded on these parts (`SmallestSet`), with the parts that have the property given as a set: so no operator parameter is needed.

**PruneProofs, pruning.** `TypeCorrect`, `InductiveInvariant`, `LeaseHolds` (`LeasedHitKept`), `OwnEntrySpared` (`OwnEntryKept`) and
`NeverHalf` (`NothingHalfRemoved`), for any number of processes and entries, any policy and lease. A plan may be older than the lease it must respect, so
`LeasedHitKept` does not follow from what is planned: it holds because whoever removes an entry has its lock and finds an access record under it whose lease ends
after now, and a prune's date is never later than now (`Kept`, `Spares`). A restore is only replaced under a lease by a decoding of the same entry, and an entry only goes
as invalid once it is `spoilt` (`Judged`). `OwnEntryKept` has no record to lean on; it needs that neither plan of a prune contains a protected entry
(the lemmas `PlannedSpares` and `AuxiliarySpares`) and that the protected one stays the one to return. `NothingHalfRemoved` needs what stands half-way (`Moved`).

**LanTransferProofs.** `TypeCorrect`, `InductiveInvariant`, `Resources` (`ResourcesKept`), `Truth` (`AnswersTrue`), `RestoreHolds`
(`RestoreWithEntry`), `Final` (`AnsweredIsFinal`) and `ValidGivesWay` (`ValidKept`), for any number of machines, processes, requests and builds, any limits and any failures.
Who is at work on a machine's entry has its transfer lock (`Locked`), so what it keeps on disk (`Files`) and what it has seen (`Told`) is disturbed by nobody else. What a push reports
rests on both sides: a request and the process that waits for its answer agree on the package and the place (`Link`), and only probes are several at a time (`Sole`).
`RestoreWithEntry` and `ValidKept` need what stands half-way through a publication and what a rollback would put back (`Held`), and that local clients stay out of it because they take the entry lock.
The slots need the requests under way to be a finite set, counted with those that an error took (`Counted`); without it not even the type of `active` is inductive.
The lemma `Others` says what a step must respect for the workers that take no part in it; `QuietMove`, `JointMove`, `EndMove`, `CacheMove` and `Around` apply it to a worker's own step,
to two that speak to each other, to the end of a request, to a publication and to the environment.

**EventLogProofs.** `TypeCorrect`, `InductiveInvariant`, `CapHolds` (`CountBounded`), `StatsAccepted` (`SummaryAccepted`) and `OnlyDueGoes`
(`RemovesOnlyDue`), for any cap, retention and number of processes. The cap is enforced before the write, so it holds because between a scan and the write nobody else adds a
file: whoever is at work while no overlap is remembered is alone and has the lock (`Turn`), and what its plan does not name is no more than may stay (`Planned`).
`Planned` also says why a removal from an old scan is still due: the files it does not name are enough, and none of the events among them is older. What a scan without the lock can
still count are files that stood at one moment, the listing of the last day (`Pending`): what is removed later is not found, what is published later has a name that was not listed.

Every safety property of the runs that pass is stated by one of these theorems. Only model-checked are the liveness properties
(`AttemptEnds`, `DeadLockRecovered`, `RequestsEnd`, `TransfersEnd`): liveness under fairness and `ENABLED` are
beyond the prover.

## What is not modelled, and limits of what is

- Fingerprints, toolchain discovery, options, paths, insight, doctor and timing: pure
  functions and reports. The codec, the archive format and the wire format: conversions
  whose outcome (right, malformed, failed) the models choose.
- The file system is taken to rename atomically; no reordering after a power failure.
- `CachePrune` has no sizes; size limits are in `PlanLoop`. It leaves out the
  removal of trash, staging and quarantine directories and of data over the size limit, whose selection is in `AuxPlan`. A
  dry run returns the first plan; its figures are left out.
- `AutoPrune` takes the entry lock to exclude (`ServiceExcludes`), one call at a time in each process, and a clock that does not go back.
  The policy file is written as a whole by a rename and has no readers that update it.
- `StateFile` lets the program's own file pass the checks of owner, mode and links. `maxListed` stands for
  every check of the schema that an update can fail.
- A prune that dies between its two renames leaves a restore without its entry;
  that is in `CachePrune` (`stuck`), while in `EntryStore` only lookups and uploads write, so
  `RestoreBelongs` is about these.
- `LanPairing` takes signatures, nonces and the state file's lock to be right (the last is `StateFile`'s), and a failed update to have
  no effect; one whose directory could not be synced has had it. `OneUse` holds until
  a shutdown begins: a discard that ends late drops the reservation of whoever
  has come to hold it, in a window that is still open for the moment.
- `LanTransfer` takes both locks to exclude and presupposes authentication. A slot taken while
  `acquireEntryLock` throws is never given back (`lan/server.ts:269-280`); `NothingLeft` counts these
  in `leaked`. A file that cannot be removed at the end leaves the transfer lock behind
  (`lan/sync.ts:349-352`); modelled at the end of a push, as `stuck`. When the two renames of a
  replacement both fail, the restore is put back without its entry (`lan/import.ts:511-523`);
  `RestoreWithEntry` excepts these machines, in `orphaned`. Discovery, the order
  and number of peers, `Content-Length` and hash checks of a body (a body arrives whole or not) and leases in
  prunes of staging data are left out.
- `EventLog` leaves out the sums of the summary and the removal of empty day directories, which can only make a concurrent
  write fail. After an overlap of two writers the log may hold one event per writer in excess, until a retention that has
  the lock to itself; `CountBounded` says so.
- A client's own `peers revoke` is not modelled; the server's is.

## Plan

Done: the lock and the store with their refinements, planning with auxiliary data, pruning, automatic prunes,
the state file with its refinement, pairing, transfers, events; proofs for lock, store, state file, planning, pruning, automatic prunes, pairing, transfers and events. Next, in order of weight:

1. The replay guard at its limits, and drain and close of the server: a nonce is accepted once; close ends.
2. Import from a peer as a third kind of process of `EntryStore`, so that
   the store's invariants and theorems cover it.
3. Provider lifecycle: pending builds by fingerprint, expiry and ambiguity.
