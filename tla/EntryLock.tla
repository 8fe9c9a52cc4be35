------------------------------ MODULE EntryLock ------------------------------
(****************************************************************************)
(* The advisory writer lock of src/cache/lock.ts: a directory that mkdir    *)
(* creates atomically, an owner.json inside it, the staleness rule that a   *)
(* waiter applies, the rename that breaks a stale lock, and the release.    *)
(* Every file-system call is a step of its own, so any two processes        *)
(* interleave between any two calls, and a process may die between any two. *)
(****************************************************************************)
EXTENDS Naturals

CONSTANTS
  Proc,      \* processes that use the cache; one that dies does not come back
  HostOf,    \* the machine of each process: os.hostname()
  Serial,    \* serial numbers that tell the tokens of one process apart
  Ages,      \* whether a lock may get older than foreignHostStaleMs
  None       \* no token: no directory, no owner.json, nothing read

(* crypto.randomUUID() gives a token its identity, and the owner record     *)
(* carries the pid and the hostname of the process that drew it.            *)
Token == [proc : Proc, serial : Serial]

ASSUME NoneAssumption == None \notin Token \cup Proc
ASSUME AgesAssumption == Ages \in BOOLEAN

VARIABLES
  dir,       \* what stands at the lock's path: which directory, its owner, its age
  pc,        \* what each process does next
  mine,      \* the token of the attempt or of the lock a process has
  seen,      \* what a waiter read: the directory and the owner.json in it
  broken     \* history: how a live process has lost its directory

vars == <<dir, pc, mine, seen, broken>>

NoDir == [gen |-> None, owner |-> None, old |-> FALSE]
Unread == [gen |-> None, owner |-> None]

Trying == {"mkdir", "write", "readOwner", "judge", "break", "wait"}
Phase == Trying \cup {"idle", "held", "unlink", "rmdir", "dead"}
Cause == {"misbreak", "overstay"}

TypeOK ==
  /\ dir \in [gen : Token \cup {None}, owner : Token \cup {None}, old : BOOLEAN]
  /\ pc \in [Proc -> Phase]
  /\ mine \in [Proc -> Token \cup {None}]
  /\ seen \in [Proc -> [gen : Token \cup {None}, owner : Token \cup {None}]]
  /\ broken \in SUBSET Cause

Init ==
  /\ dir = NoDir
  /\ pc = [p \in Proc |-> "idle"]
  /\ mine = [p \in Proc |-> None]
  /\ seen = [p \in Proc |-> Unread]
  /\ broken = {}

------------------------------------------------------------------------------

Goto(p, from, to) ==
  /\ pc[p] = from
  /\ pc' = [pc EXCEPT ![p] = to]

Alive(p) == pc[p] # "dead"

(* A UUID drawn now differs from every token that anyone still refers to.   *)
Fresh(t) ==
  /\ t \notin {dir.gen, dir.owner}
  /\ \A p \in Proc : t # mine[p] /\ t \notin {seen[p].gen, seen[p].owner}

------------------------------------------------------------------------------
(* acquireEntryLock.                                                        *)

(* A caller asks for the lock.                                              *)
Start(p) ==
  /\ Goto(p, "idle", "mkdir")
  /\ UNCHANGED <<dir, mine, seen, broken>>

Mkdir(p) ==
  /\ dir.gen = None
  /\ Goto(p, "mkdir", "write")
  /\ \E t \in Token :
       /\ t.proc = p
       /\ Fresh(t)
       /\ dir' = [gen |-> t, owner |-> None, old |-> FALSE]
       /\ mine' = [mine EXCEPT ![p] = t]
  /\ UNCHANGED <<seen, broken>>

(* EEXIST.                                                                  *)
MkdirExists(p) ==
  /\ dir.gen # None
  /\ Goto(p, "mkdir", "readOwner")
  /\ UNCHANGED <<dir, mine, seen, broken>>

(* Mutant: the owner record has the pid where the token belongs.            *)
WriteOwnerPid(p) ==
  /\ dir.gen # None
  /\ Goto(p, "write", "held")
  /\ dir' = [dir EXCEPT !.owner = p]
  /\ UNCHANGED <<mine, seen, broken>>

(* owner.json goes to the path, whatever directory stands there by now.     *)
(* Creating the file renews the directory's mtime; replacing one does not.  *)
WriteOwner(p) ==
  /\ dir.gen # None
  /\ Goto(p, "write", "held")
  /\ dir' = [dir EXCEPT !.owner = mine[p], !.old = @ /\ dir.owner # None]
  /\ UNCHANGED <<mine, seen, broken>>

(* The write fails, as it must when the directory is gone: the path is      *)
(* removed recursively and the error leaves acquireEntryLock.               *)
WriteFails(p) ==
  /\ Goto(p, "write", "unlink")
  /\ UNCHANGED <<dir, mine, seen, broken>>

(* isStale, its first call: readOwner. A missing directory or file and a    *)
(* file not written yet all read as no owner.                               *)
ReadOwner(p) ==
  /\ Goto(p, "readOwner", "judge")
  /\ seen' = [seen EXCEPT ![p] = [gen |-> dir.gen, owner |-> dir.owner]]
  /\ UNCHANGED <<dir, mine, broken>>

SameHost(p, t) == HostOf[t.proc] = HostOf[p]

(* Mutants: age alone decides; a dead owner of this machine never is stale. *)
AgeAlone(p) == dir.old

DeadCounts(p) ==
  dir.old /\ (seen[p].owner # None => ~SameHost(p, seen[p].owner))

(* isStale, the rest: the age of the directory at the path by now, and      *)
(* process.kill(pid, 0) for an owner of this machine.                       *)
IsStale(p) ==
  LET owner == seen[p].owner
  IN  IF owner # None /\ SameHost(p, owner) THEN ~Alive(owner.proc) ELSE dir.old

JudgeGone(p) ==
  /\ dir.gen = None
  /\ Goto(p, "judge", "mkdir")
  /\ seen' = [seen EXCEPT ![p] = Unread]
  /\ UNCHANGED <<dir, mine, broken>>

JudgeStale(p) ==
  /\ dir.gen # None
  /\ IsStale(p)
  /\ Goto(p, "judge", "break")
  /\ UNCHANGED <<dir, mine, seen, broken>>

JudgeLive(p) ==
  /\ dir.gen # None
  /\ ~IsStale(p)
  /\ Goto(p, "judge", "wait")
  /\ seen' = [seen EXCEPT ![p] = Unread]
  /\ UNCHANGED <<dir, mine, broken>>

(* breakStaleLock renames what the path holds by now to a tombstone of its  *)
(* own name and removes that; ENOENT is ignored. The history notes when the *)
(* directory taken is not the one the verdict was about, and when its live  *)
(* owner merely held it longer than foreignHostStaleMs.                     *)
Break(p) ==
  /\ Goto(p, "break", "mkdir")
  /\ LET owner == seen[p].owner
         cause == CASE dir.gen = None -> {}
                    [] dir.gen # None /\ dir.gen # seen[p].gen -> {"misbreak"}
                    [] dir.gen # None /\ dir.gen = seen[p].gen ->
                         {c \in {"overstay"} : /\ Alive(dir.gen.proc)
                                               /\ owner = None \/ ~SameHost(p, owner)}
     IN  broken' = broken \cup cause
  /\ dir' = NoDir
  /\ seen' = [seen EXCEPT ![p] = Unread]
  /\ UNCHANGED mine

(* The clock is read here, and only here: before the deadline the waiter    *)
(* sleeps and tries again, after it acquireEntryLock returns null. With     *)
(* maxWaitMs = 0 the first look is already late.                            *)
Retry(p) ==
  /\ Goto(p, "wait", "mkdir")
  /\ UNCHANGED <<dir, mine, seen, broken>>

(* Mutant: no deadline.                                                     *)
WaitForEver(p) == FALSE /\ UNCHANGED vars

GiveUp(p) ==
  /\ Goto(p, "wait", "idle")
  /\ UNCHANGED <<dir, mine, seen, broken>>

------------------------------------------------------------------------------
(* releaseEntryLock: the owner is read, and the path is removed if the      *)
(* token is ours: rmSync unlinks owner.json, then removes the directory.    *)

Release(p) ==
  /\ dir.owner = mine[p]
  /\ Goto(p, "held", "unlink")
  /\ UNCHANGED <<dir, mine, seen, broken>>

ReleaseLost(p) ==
  /\ dir.owner # mine[p]
  /\ Goto(p, "held", "idle")
  /\ mine' = [mine EXCEPT ![p] = None]
  /\ UNCHANGED <<dir, seen, broken>>

UnlinkGone(p) ==
  /\ dir.gen = None
  /\ Goto(p, "unlink", "idle")
  /\ mine' = [mine EXCEPT ![p] = None]
  /\ UNCHANGED <<dir, seen, broken>>

Unlink(p) ==
  /\ dir.gen # None
  /\ Goto(p, "unlink", "rmdir")
  /\ dir' = [dir EXCEPT !.owner = None, !.old = @ /\ dir.owner = None]
  /\ UNCHANGED <<mine, seen, broken>>

(* A directory that has an owner.json again is not empty, and stays.        *)
Rmdir(p) ==
  /\ Goto(p, "rmdir", "idle")
  /\ dir' = IF dir.owner = None THEN NoDir ELSE dir
  /\ mine' = [mine EXCEPT ![p] = None]
  /\ UNCHANGED <<seen, broken>>

------------------------------------------------------------------------------
(* The environment: a process dies, a directory grows older than            *)
(* foreignHostStaleMs.                                                      *)

Crash(p) ==
  /\ pc[p] \in Phase \ {"idle", "dead"}
  /\ pc' = [pc EXCEPT ![p] = "dead"]
  /\ mine' = [mine EXCEPT ![p] = None]
  /\ seen' = [seen EXCEPT ![p] = Unread]
  /\ UNCHANGED <<dir, broken>>

GrowOld ==
  /\ Ages
  /\ dir.gen # None
  /\ ~dir.old
  /\ dir' = [dir EXCEPT !.old = TRUE]
  /\ UNCHANGED <<pc, mine, seen, broken>>

(* The steps that acquireEntryLock and rmSync take by themselves.           *)
Step(p) ==
  \/ Mkdir(p) \/ MkdirExists(p)
  \/ WriteOwner(p) \/ WriteFails(p)
  \/ ReadOwner(p)
  \/ JudgeGone(p) \/ JudgeStale(p) \/ JudgeLive(p)
  \/ Break(p)
  \/ Retry(p) \/ GiveUp(p)
  \/ UnlinkGone(p) \/ Unlink(p) \/ Rmdir(p)

Next ==
  \/ \E p \in Proc :
       Step(p) \/ Start(p) \/ Release(p) \/ ReleaseLost(p) \/ Crash(p)
  \/ GrowOld

Spec == Init /\ [][Next]_vars

(* The event loop runs every pending step of a live process, and time       *)
(* passes: a lock that stays grows old, and a waiter that looks at its      *)
(* deadline again and again finds it passed. Nobody has to ask for the      *)
(* lock, to release it, or to die.                                          *)
Fairness ==
  /\ \A p \in Proc : WF_vars(Step(p)) /\ SF_vars(GiveUp(p))
  /\ WF_vars(GrowOld)

FairSpec == Spec /\ Fairness

------------------------------------------------------------------------------
(* Properties.                                                              *)

Holds(p) == pc[p] = "held"

(* At most one live process is between the return of acquireEntryLock and   *)
(* its release. Stale-lock recovery as isStale and breakStaleLock do it     *)
(* does not keep this: when two have judged the lock of a dead process, the *)
(* second one's rename may take the lock that the first one has by then.    *)
MutualExclusion == \A p, q \in Proc : Holds(p) /\ Holds(q) => p = q

(* What does hold: two holders need a break that took another directory     *)
(* than the one judged, or a holder that outstayed foreignHostStaleMs. With *)
(* neither, deaths, write failures, slow starts and releases in any order   *)
(* never give the lock to two processes.                                    *)
ExclusionUnlessBroken == broken = {} => MutualExclusion

(* And the directory of a live holder stays at the path with its token, so  *)
(* that the check of releaseEntryLock succeeds for the true owner.          *)
LiveLockKept ==
  broken = {} => \A p \in Proc : Holds(p) => dir.gen = mine[p] /\ dir.owner = mine[p]

(* Whoever works under the lock may rely on LockService, in which it is     *)
(* taken, granted, released and inherited from the dead in single steps: a  *)
(* directory is its creator's from mkdir until it is removed or renamed.    *)
Service == INSTANCE LockService WITH
  lock <- IF dir.gen = None THEN None ELSE dir.gen.proc,
  granted <- {p \in Proc : Holds(p)},
  dead <- {p \in Proc : ~Alive(p)},
  loose <- broken # {}

ImplementsService == Service!Spec

(* Once new requests stop arriving, every attempt ends: with the lock, with *)
(* null at the deadline, with an error, or with the process. No dead or     *)
(* ownerless directory makes a waiter loop for ever.                        *)
AttemptEnds ==
  <>[][\A p \in Proc : ~Start(p)]_vars =>
    \A p \in Proc : [](pc[p] \in Trying => <>(pc[p] \notin Trying))

(* A waiter that looks at the lock of a dead process of its own machine     *)
(* does not come away empty-handed at the deadline: the lock is replaced,   *)
(* unless the waiter dies as well.                                          *)
DeadOwner(p) ==
  dir.owner # None /\ ~Alive(dir.owner.proc) /\ SameHost(p, dir.owner)

DeadLockRecovered ==
  \A p \in Proc : (pc[p] = "readOwner" /\ DeadOwner(p)) ~> (~DeadOwner(p) \/ ~Alive(p))
==============================================================================
