------------------------------ MODULE LanTransfer ------------------------------
(****************************************************************************)
(* One cache entry carried between machines: fetchLanEntryToLocal and       *)
(* pushLanEntryToPeer of src/lan/sync.ts on the one side, the entry routes  *)
(* of src/lan/server.ts on the other, and on both createWirePackage and     *)
(* importWirePackage. A machine's transfer lock is held for the whole of a  *)
(* fetch, a push or a request; its entry lock only while an import puts the *)
(* entry in place. Each operation has a deadline of its own, a request that *)
(* ran into it is answered at once and ends later, and a client may leave   *)
(* at any time. Both locks are taken to exclude and to be recovered from    *)
(* the dead (EntryLock). Local uploads, lookups and prunes are steps of the *)
(* environment (EntryStore, CachePrune). Authentication is presupposed.     *)
(****************************************************************************)
EXTENDS Naturals, FiniteSets, FiniteSetsExt

CONSTANTS
  Machine,    \* each with its cache, its server and its provider processes
  Op,         \* provider processes, each with one fetch or push at a time
  Handler,    \* requests that the servers can have under way: a bound
  Build,      \* generations of the entry, by their digests
  PerClient,  \* perClientTransferLimit
  Global,     \* globalTransferLimit
  Change,     \* which of "error", "stuck", "death", "local", "decay" happen
  MaxChange,  \* and how many: a bound
  Part,       \* a package that is not complete
  None

ASSUME LimitAssumption ==
  PerClient \in Nat \ {0} /\ Global \in Nat \ {0} /\ MaxChange \in Nat
ASSUME WorkerAssumption == Op \cap Handler = {}

Worker == Op \cup Handler
Package == [gen : Build, zstd : BOOLEAN]
Entry == [gen : Build, zstd : BOOLEAN, ok : BOOLEAN]

ASSUME NoneAssumption ==
  None \notin Worker \cup Machine \cup Build \cup Package \cup Entry \cup {Part}
ASSUME PartAssumption == Part \notin Package

VARIABLES
  entry,     \* what stands at the entry's path on each machine
  restore,   \* the build at its restore path
  tlock,     \* holder of the machine's transfer lock
  disk,      \* what each worker keeps in transfer-staging
  pc,        \* what each worker does next
  my,        \* what each worker remembers
  active,    \* the server's count of requests, by client machine
  changes,   \* how much of MaxChange is spent
  had,       \* history: what has stood, valid, on each machine
  leaked,    \* history: slots that an error took for good
  orphaned   \* history: machines where a rollback failed as well

cache == <<entry, restore, had, orphaned>>
slots == <<active, leaked>>
vars == <<cache, tlock, disk, pc, my, slots, changes>>

Exporting == {"read", "write"}
Publishing == {"judge", "quarantine", "replace", "place", "swap"}
Importing == {"inspect", "elock"} \cup Publishing
Imported == {"created", "existing", "conflict", "failed"}
AtWork == Exporting \cup Importing \cup Imported \cup
  {"local", "probe", "choose", "get", "receive", "fetched", "put", "sent", "shared",
   "spool", "send", "stream"}
Over == {"idle", "stuck", "dead"}
Phase == AtWork \cup Over \cup {"tlock"}
(* peer is the machine that a push or a get is sent to, or that a request   *)
(* came from; from the process that waits for the request's answer; want    *)
(* the payload digest of the local entry that could not be decoded; seen    *)
(* what an export read; ask and found the peers yet to probe and to get     *)
(* from; moved and movedRestore what an import put in trash or quarantine.  *)
Blank == [kind |-> None, at |-> None, peer |-> None, from |-> None, want |-> None,
          answered |-> FALSE, seen |-> None, ask |-> {}, found |-> {},
          moved |-> None, movedRestore |-> None]
Memory ==
  [kind : {"fetch", "push", "head", "get", "put", None}, at : Machine \cup {None},
   peer : Machine \cup {None}, from : Op \cup {None}, want : Build \cup {None},
   answered : BOOLEAN, seen : Package \cup {None}, ask : SUBSET Machine,
   found : SUBSET Machine, moved : Entry \cup {None}, movedRestore : Build \cup {None}]
Nothing == [file |-> None, staged |-> FALSE]
Disk == [file : Package \cup {Part, None}, staged : BOOLEAN]

TypeOK ==
  /\ entry \in [Machine -> Entry \cup {None}]
  /\ restore \in [Machine -> Build \cup {None}]
  /\ tlock \in [Machine -> Worker \cup {None}]
  /\ disk \in [Worker -> Disk]
  /\ pc \in [Worker -> Phase]
  /\ my \in [Worker -> Memory]
  /\ active \in [Machine -> [Machine -> Nat]]
  /\ leaked \in [Machine -> [Machine -> Nat]]
  /\ changes \in 0 .. MaxChange
  /\ had \in [Machine -> SUBSET Package]
  /\ orphaned \in SUBSET Machine

Content(e) == [gen |-> e.gen, zstd |-> e.zstd]

(* What the inspection of the payload finds is what the manifest says.      *)
Intact(e) == e.ok

Init ==
  /\ entry \in [Machine -> {e \in Entry : Intact(e)} \cup {None}]
  /\ restore = [m \in Machine |-> None]
  /\ tlock = [m \in Machine |-> None]
  /\ disk = [w \in Worker |-> Nothing]
  /\ pc = [w \in Worker |-> "idle"]
  /\ my = [w \in Worker |-> Blank]
  /\ active = [m \in Machine |-> [c \in Machine |-> 0]]
  /\ leaked = active
  /\ changes = 0
  /\ had = [m \in Machine |-> IF entry[m] = None THEN {} ELSE {Content(entry[m])}]
  /\ orphaned = {}

------------------------------------------------------------------------------
At(w) == my[w].at
Valid(m) == entry[m] # None /\ Intact(entry[m])
Free(m) == tlock[m] \in {w \in Worker : pc[w] = "dead"} \cup {None}

(* A deadline may pass at any time: wherever the code asks for it, the step *)
(* that follows when it is past can be taken, and only that one once the    *)
(* timer of the request has gone off.                                       *)
Late(w) == my[w].answered

Goto(w, from, to) == pc[w] = from /\ pc' = [pc EXCEPT ![w] = to]
Spend(kind) == kind \in Change /\ changes < MaxChange /\ changes' = changes + 1

(* Requests of o that are still to be answered, and o's going away.         *)
Asked(o) == {h \in Handler : my[h].from = o}
Deserted(o) ==
  [w \in Worker |-> IF w \in Asked(o) THEN [my[w] EXCEPT !.from = None] ELSE my[w]]

Unlocked(w) == [m \in Machine |-> IF tlock[m] = w THEN None ELSE tlock[m]]
GiveSlot(w) == IF w \in Op THEN active
               ELSE [active EXCEPT ![At(w)][my[w].peer] = @ - 1]

(* The end of a fetch or push, and finishTransfer of a request: the lock    *)
(* and the slot are given back.                                             *)
Finish(w) ==
  /\ my' = [my EXCEPT ![w] = Blank]
  /\ tlock' = Unlocked(w)
  /\ active' = GiveSlot(w)
  /\ UNCHANGED <<cache, leaked, changes>>

RemoveFile(w) == disk' = [disk EXCEPT ![w].file = None]

------------------------------------------------------------------------------
(* Fetch and push begin. The provider fetches after a miss, and names the   *)
(* compressed entry that it could not decode; it pushes what it uploaded.   *)
StartFetch(o, m, want) ==
  /\ Goto(o, "idle", "tlock")
  /\ IF want = None THEN entry[m] = None
                    ELSE Valid(m) /\ entry[m].zstd /\ entry[m].gen = want
  /\ my' = [my EXCEPT ![o] = [Blank EXCEPT !.kind = "fetch", !.at = m, !.want = want]]
  /\ UNCHANGED <<cache, tlock, disk, slots, changes>>

StartPush(o, m, n) ==
  /\ Goto(o, "idle", "tlock")
  /\ entry[m] # None
  /\ n # m
  /\ my' = [my EXCEPT ![o] = [Blank EXCEPT !.kind = "push", !.at = m, !.peer = n]]
  /\ UNCHANGED <<cache, tlock, disk, slots, changes>>

First == [fetch |-> "local", push |-> "read", head |-> "read", get |-> "read",
          put |-> "spool"]

(* The request's body goes to a file of its own as it comes in.             *)
TakeLock(w) ==
  /\ pc[w] = "tlock"
  /\ Free(At(w))
  /\ pc' = [pc EXCEPT ![w] = First[my[w].kind]]
  /\ tlock' = [tlock EXCEPT ![At(w)] = w]
  /\ disk' = IF my[w].kind = "put" THEN [disk EXCEPT ![w].file = Part] ELSE disk
  /\ UNCHANGED <<cache, my, slots, changes>>

(* Mutant: a wait for the lock has no limit.                                *)
LockWaitEndless(w) == FALSE /\ Goto(w, "tlock", "idle") /\ Finish(w)

(* A server waits for requestInactivityMs, a client until its deadline.     *)
LockTimeout(w) ==
  /\ Goto(w, "tlock", "idle")
  /\ ~Free(At(w))
  /\ Finish(w)
  /\ UNCHANGED disk

(* acquireEntryLock throws: the slot has been counted, and the finally that *)
(* gives it back is not entered yet.                                        *)
LockError(h) ==
  /\ Spend("error")
  /\ Goto(h, "tlock", "idle")
  /\ my' = [my EXCEPT ![h] = Blank]
  /\ leaked' = [leaked EXCEPT ![At(h)][my[h].peer] = @ + 1]
  /\ UNCHANGED <<cache, tlock, disk, active>>

------------------------------------------------------------------------------
(* Requests and their answers.                                              *)

Total(m) == MapThenSumSet(LAMBDA c : active[m][c], Machine)

Admits(m, c) == Total(m) < Global /\ active[m][c] < PerClient

(* o sends a request to n, where h handles it; or n refuses it (429), or    *)
(* cannot be reached.                                                       *)
Send(o, h, n, kind, mine, to) ==
  /\ pc[h] = "idle"
  /\ \/ /\ Admits(n, At(o))
        /\ my' = [my EXCEPT ![o] = mine,
                    ![h] = [Blank EXCEPT !.kind = kind, !.at = n, !.peer = At(o), !.from = o]]
        /\ active' = [active EXCEPT ![n][At(o)] = @ + 1]
        /\ pc' = [pc EXCEPT ![o] = to, ![h] = "tlock"]
     \/ /\ my' = [my EXCEPT ![o] = mine]
        /\ pc' = [pc EXCEPT ![o] = to]
        /\ UNCHANGED active
  /\ UNCHANGED <<cache, tlock, disk, leaked, changes>>

(* The other side is gone, has refused, or has answered an error.           *)
Unanswered(o) == Asked(o) = {}

(* The client of h runs into its own timeout; the handler is not told.      *)
GiveUp(h) ==
  /\ my[h].from # None
  /\ my' = [my EXCEPT ![h].from = None]
  /\ UNCHANGED <<cache, tlock, disk, pc, slots, changes>>

(* awaitBeforeDeadline: the request is answered 503 while its operation     *)
(* awaits the entry lock or an archive; finishTransfer waits for the        *)
(* operation's end. Mutant: the lock is given back at once.                 *)
TimeoutFrees(h) ==
  /\ pc[h] \in {"write", "elock"}
  /\ ~my[h].answered
  /\ my' = [my EXCEPT ![h] = [my[h] EXCEPT !.answered = TRUE, !.from = None]]
  /\ tlock' = Unlocked(h)
  /\ UNCHANGED <<cache, disk, pc, slots, changes>>

(* Mutant: the slot alone is given back at once, and again in the end.      *)
TimeoutCountsDown(h) ==
  /\ pc[h] \in {"write", "elock"}
  /\ ~my[h].answered
  /\ my' = [my EXCEPT ![h] = [my[h] EXCEPT !.answered = TRUE, !.from = None]]
  /\ active' = GiveSlot(h)
  /\ UNCHANGED <<cache, tlock, disk, pc, leaked, changes>>

Timeout(h) ==
  /\ pc[h] \in {"write", "elock"}
  /\ ~my[h].answered
  /\ my' = [my EXCEPT ![h] = [my[h] EXCEPT !.answered = TRUE, !.from = None]]
  /\ UNCHANGED <<cache, tlock, disk, pc, slots, changes>>

------------------------------------------------------------------------------
(* createWirePackage: no entry lock, so the entry is validated twice, an    *)
(* app tree is archived (and awaited) in between, and the package's digests *)
(* are compared once more when it has been written.                         *)
Same(w) == Valid(At(w)) /\ Content(entry[At(w)]) = my[w].seen

Read(w) ==
  /\ Goto(w, "read", "write")
  /\ Valid(At(w))
  /\ my' = [my EXCEPT ![w].seen = Content(entry[At(w)])]
  /\ UNCHANGED <<cache, tlock, disk, slots, changes>>

Write(w) ==
  /\ Goto(w, "write", IF w \in Op THEN "put" ELSE "send")
  /\ Same(w)
  /\ ~Late(w)
  /\ disk' = [disk EXCEPT ![w].file = my[w].seen]
  /\ UNCHANGED <<cache, tlock, my, slots, changes>>

ExportFails(w) ==
  /\ pc[w] \in Exporting
  /\ pc' = [pc EXCEPT ![w] = "idle"]
  /\ RemoveFile(w)
  /\ Finish(w)

------------------------------------------------------------------------------
(* The server's side of a head or get.                                      *)

RespondHead(h) ==
  LET o == my[h].from
  IN  /\ o # None
      /\ my[h].kind = "head"
      /\ Goto(h, "send", "idle")
      /\ my' = [my EXCEPT ![h] = Blank, ![o] = [my[o] EXCEPT !.found = @ \cup {At(h)}]]
      /\ tlock' = Unlocked(h)
      /\ active' = GiveSlot(h)
      /\ RemoveFile(h)
      /\ UNCHANGED <<cache, leaked, changes>>

RespondGet(h) ==
  LET o == my[h].from
  IN  /\ o # None
      /\ my[h].kind = "get"
      /\ pc[h] = "send"
      /\ pc' = [pc EXCEPT ![h] = "stream", ![o] = "receive"]
      /\ disk' = [disk EXCEPT ![o].file = Part]
      /\ UNCHANGED <<cache, tlock, my, slots, changes>>

Streamed(h) ==
  LET o == my[h].from
  IN  /\ pc[h] = "stream"
      /\ o # None
      /\ pc' = [pc EXCEPT ![h] = "idle", ![o] = "inspect"]
      /\ disk' = [disk EXCEPT ![o].file = disk[h].file, ![h].file = None]
      /\ Finish(h)

(* Too late, or nobody there any more: 503 or a broken pipe, and cleanup,   *)
(* which comes after the export's end also when that ended late.            *)
Unsent(h) ==
  /\ pc[h] \in {"send", "stream"}
  /\ pc' = [pc EXCEPT ![h] = "idle"]
  /\ RemoveFile(h)
  /\ Finish(h)

------------------------------------------------------------------------------
(* fetchLanEntryToLocal.                                                    *)

(* localEntryIsValid: not the entry that is to be replaced.                 *)
Usable(o) ==
  LET e == entry[At(o)]
  IN  Valid(At(o)) /\ ~(e.zstd /\ e.gen = my[o].want)

FoundLocally(o) ==
  /\ Goto(o, "local", "fetched")
  /\ Usable(o)
  /\ UNCHANGED <<cache, tlock, disk, my, slots, changes>>

LookAround(o) ==
  /\ Goto(o, "local", "probe")
  /\ ~Usable(o)
  /\ my' = [my EXCEPT ![o].ask = Machine \ {At(o)}]
  /\ UNCHANGED <<cache, tlock, disk, slots, changes>>

(* probeBatch: up to MAX_PROBES peers at a time.                            *)
Probe(o, h, n) ==
  /\ pc[o] = "probe"
  /\ n \in my[o].ask
  /\ Cardinality(Asked(o)) < 3
  /\ Send(o, h, n, "head", [my[o] EXCEPT !.ask = @ \ {n}], "probe")

Probed(o) ==
  /\ Goto(o, "probe", "choose")
  /\ Unanswered(o)
  /\ UNCHANGED <<cache, tlock, disk, my, slots, changes>>

(* In the order of the probes' latency: any.                                *)
Get(o, h, n) ==
  /\ pc[o] = "choose"
  /\ n \in my[o].found
  /\ Send(o, h, n, "get", [my[o] EXCEPT !.found = @ \ {n}, !.peer = n], "get")

GetFails(o) ==
  /\ pc[o] \in {"get", "receive"}
  /\ Unanswered(o)
  /\ pc' = [pc EXCEPT ![o] = "choose"]
  /\ RemoveFile(o)
  /\ UNCHANGED <<cache, tlock, my, slots, changes>>

(* No peer, or no time: when the deadline was past at the start, nothing    *)
(* was even looked for.                                                     *)
NoneLeft(o) ==
  /\ \E from \in {"local", "choose"} : Goto(o, from, "idle")
  /\ Finish(o)
  /\ UNCHANGED disk

(* What importWirePackage returned was a success, of whatever status; only  *)
(* a fetch that was to replace an entry looks at what now stands there.     *)
(* Mutant: it does not look.                                                *)
KeepAny(o) ==
  /\ pc[o] \in {"created", "existing", "conflict"}
  /\ pc' = [pc EXCEPT ![o] = "fetched"]
  /\ RemoveFile(o)
  /\ UNCHANGED <<cache, tlock, my, slots, changes>>

Keep(o) ==
  /\ pc[o] \in {"created", "existing", "conflict"}
  /\ my[o].want = None \/ Usable(o)
  /\ pc' = [pc EXCEPT ![o] = "fetched"]
  /\ RemoveFile(o)
  /\ UNCHANGED <<cache, tlock, my, slots, changes>>

(* The next peer, or none when the deadline kept the entry from being seen. *)
TryNext(o) ==
  /\ pc[o] \in Imported
  /\ \E left \in {my[o].found, {}} :
       /\ pc[o] = "failed" \/ (my[o].want # None /\ (~Usable(o) \/ left = {}))
       /\ my' = [my EXCEPT ![o].found = left]
  /\ pc' = [pc EXCEPT ![o] = "choose"]
  /\ RemoveFile(o)
  /\ UNCHANGED <<cache, tlock, slots, changes>>

------------------------------------------------------------------------------
(* pushLanEntryToPeer, and the server's side of a put.                      *)

Put(o, h) ==
  /\ pc[o] = "put"
  /\ Send(o, h, my[o].peer, "put", my[o], "sent")

PutFails(o) ==
  /\ \E from \in {"put", "sent"} : Goto(o, from, "idle")
  /\ Unanswered(o)
  /\ RemoveFile(o)
  /\ Finish(o)

(* Imported, or there already.                                              *)
Done(o) ==
  /\ pc[o] \in {"fetched", "shared"}
  /\ pc' = [pc EXCEPT ![o] = "idle"]
  /\ RemoveFile(o)
  /\ Finish(o)

(* The file cannot be removed: the finally that would release the lock is   *)
(* left before it does.                                                     *)
EndStuck(o) ==
  /\ Spend("stuck")
  /\ disk[o].file # None
  /\ Goto(o, "shared", "stuck")
  /\ UNCHANGED <<cache, tlock, disk, my, slots>>

Spooled(h) ==
  LET o == my[h].from
  IN  /\ o # None
      /\ Goto(h, "spool", "inspect")
      /\ disk' = [disk EXCEPT ![h].file = disk[o].file]
      /\ UNCHANGED <<cache, tlock, my, slots, changes>>

SpoolFails(h) ==
  /\ Goto(h, "spool", "idle")
  /\ RemoveFile(h)
  /\ Finish(h)

(* The import of a put has ended: 201 or 204, which count as uploaded.      *)
Accept(h) ==
  LET o == my[h].from
  IN  /\ pc[h] \in {"created", "existing"}
      /\ o # None
      /\ pc' = [pc EXCEPT ![h] = "idle", ![o] = "shared"]
      /\ RemoveFile(h)
      /\ Finish(h)

(* 409, an error, a 503 although the entry was published, or no answer      *)
(* because there was one long ago or nobody waits for it.                   *)
Reject(h) ==
  /\ pc[h] \in Imported
  /\ pc' = [pc EXCEPT ![h] = "idle"]
  /\ RemoveFile(h)
  /\ Finish(h)

------------------------------------------------------------------------------
(* importWirePackage. Whatever asks for the deadline fails when it is past. *)

Offered(w) == disk[w].file

(* Only a plain package replaces, and only the entry it was fetched for.    *)
(* Mutant: whichever compressed entry is there now.                         *)
ReplaceAny(w) ==
  w \in Op /\ ~Offered(w).zstd /\ entry[At(w)].zstd /\ my[w].want # None

MayReplace(w) ==
  LET e == entry[At(w)]
  IN  w \in Op /\ ~Offered(w).zstd /\ e.zstd /\ e.gen = my[w].want
Stays(w) == Valid(At(w)) /\ ~MayReplace(w)

Compared(w) ==
  IF entry[At(w)] # None /\ Content(entry[At(w)]) = Offered(w) THEN "existing" ELSE "conflict"

(* A first look, without the entry lock; the manifest's digest is read      *)
(* after the verdict, of what stands there by then, if anything.            *)
SeeExisting(w) ==
  /\ pc[w] = "inspect"
  /\ Stays(w)
  /\ \E to \in {Compared(w), "conflict"} : pc' = [pc EXCEPT ![w] = to]
  /\ UNCHANGED <<cache, tlock, disk, my, slots, changes>>

(* The body is copied and validated in a staging directory; an app tree is  *)
(* unpacked, which is awaited like the entry lock that comes next.          *)
Stage(w) ==
  /\ Goto(w, "inspect", "elock")
  /\ ~Stays(w)
  /\ disk' = [disk EXCEPT ![w].staged = TRUE]
  /\ UNCHANGED <<cache, tlock, my, slots, changes>>

EntryLocked(m) == \E w \in Worker : At(w) = m /\ pc[w] \in Publishing

LockEntry(w) ==
  /\ Goto(w, "elock", "judge")
  /\ ~EntryLocked(At(w))
  /\ UNCHANGED <<cache, tlock, disk, my, slots, changes>>

JudgeExisting(w) ==
  /\ pc[w] = "judge"
  /\ Stays(w)
  /\ ~Late(w)
  /\ pc' = [pc EXCEPT ![w] = Compared(w)]
  /\ disk' = [disk EXCEPT ![w].staged = FALSE]
  /\ UNCHANGED <<cache, tlock, my, slots, changes>>

JudgeAbsent(w) ==
  /\ Goto(w, "judge", "place")
  /\ entry[At(w)] = None
  /\ ~Late(w)
  /\ UNCHANGED <<cache, tlock, disk, my, slots, changes>>

(* Mutant: the restore is left where it is.                                 *)
LeaveRestore(w, to) ==
  /\ Goto(w, "judge", to)
  /\ UNCHANGED <<cache, tlock, disk, my, slots, changes>>

(* The restore goes first, into the quarantine or the trash.                *)
MoveRestore(w, to) ==
  /\ Goto(w, "judge", to)
  /\ restore' = [restore EXCEPT ![At(w)] = None]
  /\ my' = [my EXCEPT ![w].movedRestore = restore[At(w)]]
  /\ UNCHANGED <<entry, had, orphaned, tlock, disk, slots, changes>>

(* validateEntry says invalid, too, when it runs into the deadline: the     *)
(* entry is condemned only if the deadline is not past after the verdict.   *)
(* Mutant: nobody asks, so that any entry may be.                           *)
CondemnsLate(w) == pc[w] = "judge"
Condemns(w) == pc[w] = "judge" /\ ~Valid(At(w)) /\ ~Late(w)

JudgeInvalid(w) ==
  /\ Condemns(w)
  /\ entry[At(w)] # None
  /\ MoveRestore(w, "quarantine")

JudgeReplaceable(w) ==
  /\ pc[w] = "judge"
  /\ Valid(At(w))
  /\ MayReplace(w)
  /\ ~Late(w)
  /\ MoveRestore(w, "replace")

TakeAway(w) ==
  /\ my' = [my EXCEPT ![w].moved = entry[At(w)]]
  /\ entry' = [entry EXCEPT ![At(w)] = None]
  /\ UNCHANGED <<restore, had, orphaned, tlock, disk, slots, changes>>

(* A quarantine does not ask for the deadline between its renames.          *)
Quarantine(w) == Goto(w, "quarantine", "place") /\ TakeAway(w)
Replace(w) == Goto(w, "replace", "swap") /\ ~Late(w) /\ TakeAway(w)

(* An import that throws: the staging directory is removed.                 *)
Fail(w, from) ==
  /\ Goto(w, from, "failed")
  /\ disk' = [disk EXCEPT ![w].staged = FALSE]
  /\ my' = [my EXCEPT ![w] = [my[w] EXCEPT !.moved = None, !.movedRestore = None]]
  /\ UNCHANGED <<tlock, slots, changes>>

PutBack(w) == [restore EXCEPT ![At(w)] = IF @ = None THEN my[w].movedRestore ELSE @]

MoveFails(w) ==
  /\ \E from \in {"quarantine", "replace"} : Fail(w, from)
  /\ restore' = PutBack(w)
  /\ UNCHANGED <<entry, had, orphaned>>

(* With nothing moved away, or a quarantine, the deadline counts once more; *)
(* in the midst of a replacement it does not.                               *)
Place(w) ==
  /\ \/ Goto(w, "place", "created") /\ ~Late(w)
     \/ Goto(w, "swap", "created")
  /\ entry' = [entry EXCEPT ![At(w)] =
                 [gen |-> Offered(w).gen, zstd |-> Offered(w).zstd, ok |-> TRUE]]
  /\ had' = [had EXCEPT ![At(w)] = @ \cup {Offered(w)}]
  /\ disk' = [disk EXCEPT ![w].staged = FALSE]
  /\ my' = [my EXCEPT ![w] = [my[w] EXCEPT !.moved = None, !.movedRestore = None]]
  /\ UNCHANGED <<restore, orphaned, tlock, slots, changes>>

(* The rename of a replacement fails: the entry is put back, then its       *)
(* restore. When the entry cannot be, the restore is put back all the same. *)
RollBack(w) ==
  /\ Fail(w, "swap")
  /\ restore' = PutBack(w)
  /\ \/ /\ entry' = [entry EXCEPT ![At(w)] = my[w].moved]
        /\ UNCHANGED orphaned
     \/ /\ orphaned' = orphaned \cup {At(w)}
        /\ UNCHANGED entry
  /\ UNCHANGED had

(* A deadline, or an error with nothing to be put back: what a quarantine   *)
(* has moved stays there.                                                   *)
ImportFails(w) ==
  /\ \E from \in {"inspect", "elock", "judge", "place"} : Fail(w, from)
  /\ UNCHANGED cache

------------------------------------------------------------------------------
(* The environment. Processes die, and what they kept on disk stays; local  *)
(* clients and prunes change the entry under the entry lock.                *)

Die(o) ==
  /\ Spend("death")
  /\ pc[o] \notin {"idle", "dead"}
  /\ pc' = [pc EXCEPT ![o] = "dead"]
  /\ my' = [Deserted(o) EXCEPT ![o] = [Blank EXCEPT !.at = At(o)]]
  /\ UNCHANGED <<cache, tlock, disk, slots>>

(* The server of m ends; another may be started, with its slots free.       *)
Stop(m) ==
  LET gone == {h \in Handler : At(h) = m /\ pc[h] \notin Over}
  IN  /\ Spend("death")
      /\ gone # {}
      /\ pc' = [w \in Worker |-> IF w \in gone THEN "dead" ELSE pc[w]]
      /\ my' = [w \in Worker |-> IF w \in gone THEN [Blank EXCEPT !.at = m] ELSE my[w]]
      /\ active' = [active EXCEPT ![m] = [c \in Machine |-> 0]]
      /\ leaked' = [leaked EXCEPT ![m] = [c \in Machine |-> 0]]
      /\ UNCHANGED <<cache, tlock, disk>>

Upload(m, p) ==
  /\ Spend("local")
  /\ ~EntryLocked(m)
  /\ Valid(m) => entry[m].zstd
  /\ entry' = [entry EXCEPT ![m] = [gen |-> p.gen, zstd |-> p.zstd, ok |-> TRUE]]
  /\ restore' = [restore EXCEPT ![m] = None]
  /\ had' = [had EXCEPT ![m] = @ \cup {p}]
  /\ UNCHANGED <<orphaned, tlock, disk, pc, my, slots>>

Materialize(m) ==
  /\ Spend("local")
  /\ ~EntryLocked(m)
  /\ Valid(m)
  /\ entry[m].zstd
  /\ restore' = [restore EXCEPT ![m] = entry[m].gen]
  /\ UNCHANGED <<entry, had, orphaned, tlock, disk, pc, my, slots>>

Prune(m) ==
  /\ Spend("local")
  /\ ~EntryLocked(m)
  /\ entry[m] # None
  /\ entry' = [entry EXCEPT ![m] = None]
  /\ restore' = [restore EXCEPT ![m] = None]
  /\ UNCHANGED <<had, orphaned, tlock, disk, pc, my, slots>>

Rot(m) ==
  /\ Spend("decay")
  /\ Valid(m)
  /\ entry' = [entry EXCEPT ![m].ok = FALSE]
  /\ UNCHANGED <<restore, had, orphaned, tlock, disk, pc, my, slots>>

(* pruneCache, of what it finds in transfer-staging: under the transfer     *)
(* lock, or not at all.                                                     *)
PruneStaging(w) ==
  /\ disk[w] # Nothing
  /\ Free(At(w))
  /\ disk' = [disk EXCEPT ![w] = Nothing]
  /\ tlock' = [tlock EXCEPT ![At(w)] = None]
  /\ UNCHANGED <<cache, pc, my, slots, changes>>

------------------------------------------------------------------------------
ImportStep(w) ==
  \/ SeeExisting(w) \/ Stage(w) \/ LockEntry(w)
  \/ JudgeExisting(w) \/ JudgeAbsent(w) \/ JudgeInvalid(w) \/ JudgeReplaceable(w)
  \/ Quarantine(w) \/ Replace(w) \/ MoveFails(w)
  \/ Place(w) \/ RollBack(w) \/ ImportFails(w)

Step(w) ==
  \/ TakeLock(w) \/ LockTimeout(w)
  \/ Read(w) \/ Write(w) \/ ExportFails(w)
  \/ ImportStep(w)

OpStep(o) ==
  \/ FoundLocally(o) \/ LookAround(o) \/ Probed(o) \/ GetFails(o) \/ NoneLeft(o)
  \/ Keep(o) \/ TryNext(o) \/ PutFails(o) \/ Done(o)
  \/ \E h \in Handler : Put(o, h) \/ (\E n \in Machine : Probe(o, h, n) \/ Get(o, h, n))

HandlerStep(h) ==
  \/ RespondHead(h) \/ RespondGet(h) \/ Streamed(h) \/ Unsent(h)
  \/ Spooled(h) \/ SpoolFails(h) \/ Accept(h) \/ Reject(h)

Next ==
  \/ \E w \in Worker : Step(w) \/ PruneStaging(w)
  \/ \E o \in Op : OpStep(o) \/ EndStuck(o) \/ Die(o)
  \/ \E h \in Handler : HandlerStep(h) \/ GiveUp(h) \/ Timeout(h) \/ LockError(h)
  \/ \E o \in Op, m \in Machine :
       (\E b \in Build \cup {None} : StartFetch(o, m, b)) \/ (\E n \in Machine : StartPush(o, m, n))
  \/ \E m \in Machine :
       Stop(m) \/ Materialize(m) \/ Prune(m) \/ Rot(m) \/ (\E p \in Package : Upload(m, p))

Spec == Init /\ [][Next]_vars

(* A worker takes its next step, and a client does not wait for ever.       *)
(* Nobody has to start or to die.                                           *)
FairSpec ==
  /\ Spec
  /\ \A w \in Worker : WF_vars(Step(w))
  /\ \A o \in Op : WF_vars(OpStep(o))
  /\ \A h \in Handler : WF_vars(HandlerStep(h)) /\ WF_vars(GiveUp(h))

------------------------------------------------------------------------------
(* Properties.                                                              *)

(* At most one worker of a machine exports, imports, sends or receives the  *)
(* entry: a request that was answered because it took too long keeps the    *)
(* transfer lock until its import has really ended.                         *)
OneAtWork ==
  \A w, v \in Worker :
    At(w) = At(v) /\ {pc[w], pc[v]} \subseteq AtWork => w = v

(* What a worker is about to read is there: neither a prune nor the end of  *)
(* a request removes a package or a staging directory that is in use.       *)
InputsKept ==
  \A w \in Worker :
    /\ pc[w] \in {"inspect", "send", "stream", "put"} => disk[w].file \in Package
    /\ pc[w] \in {"elock"} \cup Publishing => disk[w].staged

(* Whatever way an operation ended, late, refused, failed or well, it has   *)
(* left no package, no staging directory and no lock behind, and the server *)
(* counts exactly the requests that are under way, plus one for each lock   *)
(* that could not be asked for.                                             *)
NothingLeft ==
  /\ \A w \in Worker : pc[w] \in {"idle", "tlock"} =>
       disk[w] = Nothing /\ \A m \in Machine : tlock[m] # w
  /\ \A m, c \in Machine :
       active[m][c] = leaked[m][c] +
         Cardinality({h \in Handler : pc[h] \notin Over /\ At(h) = m /\ my[h].peer = c})

(* Workers share neither the entry nor their files, and give all back.      *)
ResourcesKept == OneAtWork /\ InputsKept /\ NothingLeft

(* A request whose deadline was answered changes no entry any more, however *)
(* long its archive or its wait for the entry lock goes on after the 503.   *)
Silent ==
  \A h \in Handler : my[h].answered /\ pc'[h] # pc[h] => UNCHANGED <<entry, restore>>

AnsweredIsFinal == [][Silent]_vars

(* A valid entry gives way to a peer's only in the fetch that was started   *)
(* because just this entry could not be decoded; a request never replaces   *)
(* one, whatever was seen before the entry lock, and however the deadline   *)
(* falls.                                                                   *)
Displacing ==
  \A w \in Worker :
    pc'[w] # pc[w] /\ pc[w] \in Importing /\ Valid(At(w)) /\ entry'[At(w)] # entry[At(w)] =>
      w \in Op /\ entry[At(w)].zstd /\ entry[At(w)].gen = my[w].want

ValidKept == [][Displacing]_vars

(* A push that says uploaded has its very package at the peer, now or until *)
(* it was removed; a fetch that says imported is of a machine that has had  *)
(* something else than the entry it was to replace.                         *)
AnswersTrue ==
  \A o \in Op :
    /\ pc[o] = "shared" => my[o].seen \in had[my[o].peer]
    /\ pc[o] = "fetched" => had[At(o)] \ {[gen |-> my[o].want, zstd |-> TRUE]} # {}

(* No import leaves a restore at its path without the compressed entry it   *)
(* was made of, but where the rollback of a replacement failed as well.     *)
RestoreWithEntry ==
  \A m \in Machine \ orphaned :
    restore[m] # None => entry[m] # None /\ entry[m].zstd /\ entry[m].gen = restore[m]

(* Every fetch, push and request ends, though machines wait for each        *)
(* other's locks, a lock is never given back, or a peer dies.               *)
TransfersEnd == \A w \in Worker : pc[w] \notin Over ~> pc[w] \in Over
==============================================================================
