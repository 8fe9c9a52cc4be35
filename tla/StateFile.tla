------------------------------ MODULE StateFile ------------------------------
(****************************************************************************)
(* The LAN state file of src/lan/state.ts: lan.json, replaced by a rename   *)
(* under the directory lock lan.lock, read with the lock and without. Every *)
(* call to the file system is a step. What stands at the lock's path has an *)
(* identity; a waiter looks at its age, then at its owner, and breaks it by *)
(* path. The program's checks of owners, modes and links let the program's  *)
(* own file pass, but for a file that has just been replaced.               *)
(****************************************************************************)
EXTENDS Naturals, FiniteSets

CONSTANTS
  Proc,       \* whoever updates the file; one that dies does not come back
  Serial,     \* serial numbers that tell the tokens of one of them apart
  Peer,       \* clients and peers that the file may list
  MaxListed,  \* MAX_COLLECTION_ENTRIES
  Reader,     \* whoever reads it without the lock
  None

(* crypto.randomUUID(). The clientId that createEmptyState draws is as      *)
(* random; nobody draws a second one that matters, so that it stands here   *)
(* under the name of who drew it.                                           *)
Token == [proc : Proc, serial : Serial]

State == [clientId : Proc, listed : SUBSET Peer]
(* ensureLanState, or the first "serve": the identity is all they want; a   *)
(* pairing, or a peer added; a revocation.                                  *)
Update == [kind : {"ensure"}] \cup [kind : {"put", "drop"}, peer : Peer]

ASSUME NoneAssumption == None \notin Token \cup State \cup Update
ASSUME LimitAssumption == MaxListed \in Nat

VARIABLES
  dir,     \* what stands at lan.lock: which directory, its owner, its age
  file,    \* lan.json, or None
  pc,      \* what each updater does next
  mine,    \* the token of its attempt or lock
  seen,    \* the directory that a waiter looked at; whether it was old, then
           \* whether that made it stale
  update,  \* what it was called for
  base,    \* the state that its update is based on
  done,    \* history: its state is in place
  rd,      \* a read without the lock: how far it is, what it has opened, and
           \* history: whose revocations were in place when it looked at that
  broken,  \* history: how a live process has lost its directory
  gone     \* history: whose revocation is in place, with no pairing called since

lock == <<dir, mine, seen, broken>>
call == <<update, base, done>>
vars == <<lock, call, file, pc, rd, gone>>

NoDir == [gen |-> None, owner |-> None, old |-> FALSE]
Unread == [gen |-> None, old |-> FALSE]
Closed == [step |-> "closed", got |-> None, out |-> {}]

Trying == {"mkdir", "write", "lstat", "owner", "break"}
Inside == {"read", "commit", "release"}
Leaving == {"unlink", "rmdir"}
ReadPhase == {"closed", "opened", "unlinked", "accepted"}
Phase == Trying \cup Inside \cup Leaving \cup {"idle", "dead"}

TypeOK ==
  /\ dir \in [gen : Token \cup {None}, owner : Token \cup {None}, old : BOOLEAN]
  /\ file \in State \cup {None}
  /\ pc \in [Proc -> Phase]
  /\ mine \in [Proc -> Token \cup {None}]
  /\ seen \in [Proc -> [gen : Token \cup {None}, old : BOOLEAN]]
  /\ update \in [Proc -> Update \cup {None}]
  /\ base \in [Proc -> State \cup {None}]
  /\ done \in [Proc -> BOOLEAN]
  /\ rd \in [Reader -> [step : ReadPhase, got : State \cup {None}, out : SUBSET Peer]]
  /\ broken \in SUBSET {"misbreak", "overstay"}
  /\ gone \in SUBSET Peer

Init ==
  /\ dir = NoDir
  /\ file = None
  /\ pc = [p \in Proc |-> "idle"]
  /\ mine = [p \in Proc |-> None]
  /\ seen = [p \in Proc |-> Unread]
  /\ update = [p \in Proc |-> None]
  /\ base = [p \in Proc |-> None]
  /\ done = [p \in Proc |-> FALSE]
  /\ rd = [r \in Reader |-> Closed]
  /\ broken = {}
  /\ gone = {}

------------------------------------------------------------------------------

Goto(p, from, to) ==
  /\ pc[p] = from
  /\ pc' = [pc EXCEPT ![p] = to]

Alive(p) == pc[p] # "dead"

(* A UUID drawn now differs from every one that anybody still refers to.    *)
Fresh(t) ==
  /\ t \notin {dir.gen, dir.owner}
  /\ \A p \in Proc : t \notin {mine[p], seen[p].gen}

(* A call ends, with a result or by a throw.                                *)
Ends(p) ==
  /\ mine' = [mine EXCEPT ![p] = None]
  /\ seen' = [seen EXCEPT ![p] = Unread]
  /\ update' = [update EXCEPT ![p] = None]
  /\ base' = [base EXCEPT ![p] = None]
  /\ done' = [done EXCEPT ![p] = FALSE]

------------------------------------------------------------------------------
(* acquireStateLock.                                                        *)

(* Bound: after a loss only the calls under way are followed.               *)
Followed == broken = {}

Call(p, u) ==
  /\ Followed
  /\ Goto(p, "idle", "mkdir")
  /\ update' = [update EXCEPT ![p] = u]
  /\ gone' = IF u.kind = "put" THEN gone \ {u.peer} ELSE gone
  /\ UNCHANGED <<lock, file, base, done, rd>>

(* Mutant: mkdir with recursive: true, which does not fail with EEXIST.     *)
MkdirRecursive(p) ==
  /\ Goto(p, "mkdir", "write")
  /\ \E t \in Token :
       /\ t.proc = p
       /\ Fresh(t)
       /\ dir' = [gen |-> t, owner |-> None, old |-> FALSE]
       /\ mine' = [mine EXCEPT ![p] = t]
  /\ UNCHANGED <<seen, broken, call, file, rd, gone>>

Mkdir(p) ==
  /\ dir.gen = None
  /\ Goto(p, "mkdir", "write")
  /\ \E t \in Token :
       /\ t.proc = p
       /\ Fresh(t)
       /\ dir' = [gen |-> t, owner |-> None, old |-> FALSE]
       /\ mine' = [mine EXCEPT ![p] = t]
  /\ UNCHANGED <<seen, broken, call, file, rd, gone>>

(* EEXIST.                                                                  *)
MkdirExists(p) ==
  /\ dir.gen # None
  /\ Goto(p, "mkdir", "lstat")
  /\ UNCHANGED <<lock, call, file, rd, gone>>

(* Mutant: the owner record has the pid where the token belongs.            *)
WriteOwnerPid(p) ==
  /\ dir.gen # None
  /\ dir.owner = None
  /\ Goto(p, "write", "read")
  /\ dir' = [dir EXCEPT !.owner = p, !.old = FALSE]
  /\ UNCHANGED <<mine, seen, broken, call, file, rd, gone>>

(* owner.json is created (wx) in whatever stands at the path by now.        *)
WriteOwner(p) ==
  /\ dir.gen # None
  /\ dir.owner = None
  /\ Goto(p, "write", "read")
  /\ dir' = [dir EXCEPT !.owner = mine[p], !.old = FALSE]
  /\ UNCHANGED <<mine, seen, broken, call, file, rd, gone>>

(* It cannot be: the path is removed recursively, and the error is thrown.  *)
WriteFails(p) ==
  /\ Goto(p, "write", "unlink")
  /\ UNCHANGED <<lock, call, file, rd, gone>>

(* Another's is there: the path is removed all the same, but this EEXIST is *)
(* taken for that of mkdir, and the attempt goes on with a token to draw.   *)
WriteExists(p) ==
  /\ dir.owner # None
  /\ Goto(p, "write", "unlink")
  /\ mine' = [mine EXCEPT ![p] = None]
  /\ UNCHANGED <<dir, seen, broken, call, file, rd, gone>>

LstatGone(p) ==
  /\ dir.gen = None
  /\ Goto(p, "lstat", "mkdir")
  /\ UNCHANGED <<lock, call, file, rd, gone>>

Lstat(p) ==
  /\ dir.gen # None
  /\ Goto(p, "lstat", "owner")
  /\ seen' = [seen EXCEPT ![p] = [gen |-> dir.gen, old |-> dir.old]]
  /\ UNCHANGED <<dir, mine, broken, call, file, rd, gone>>

(* owner.json of whatever stands at the path by now. Without one, the age   *)
(* that lstat saw decides; with one, whether its process lives. Mutant: age *)
(* decides in any case.                                                     *)
StaleByAge(p) == seen[p].old

Stale(p) == IF dir.owner = None THEN seen[p].old ELSE ~Alive(dir.owner.proc)

JudgeStale(p) ==
  /\ Stale(p)
  /\ Goto(p, "owner", "break")
  /\ seen' = [seen EXCEPT ![p] = [gen |-> seen[p].gen, old |-> (dir.owner = None)]]
  /\ UNCHANGED <<dir, mine, broken, call, file, rd, gone>>

(* The rename takes what stands at the path by now. The history notes when  *)
(* that is not the directory that lstat saw, and when its live creator has  *)
(* not come to write owner.json, or to remove the directory, in two minutes.*)
Break(p) ==
  /\ dir.gen # None
  /\ Goto(p, "break", "mkdir")
  /\ dir' = NoDir
  /\ broken' = broken \cup
       {c \in {"misbreak"} : dir.gen # seen[p].gen} \cup
       {c \in {"overstay"} : dir.gen = seen[p].gen /\ seen[p].old /\ Alive(dir.gen.proc)}
  /\ seen' = [seen EXCEPT ![p] = Unread]
  /\ UNCHANGED <<mine, call, file, rd, gone>>

(* The lock is not stale, or somebody else has broken it (ENOENT): the      *)
(* deadline is looked at, here only.                                        *)
Busy(p) ==
  \/ pc[p] = "owner" /\ ~Stale(p)
  \/ pc[p] = "break" /\ dir.gen = None

Retry(p) ==
  /\ Busy(p)
  /\ pc' = [pc EXCEPT ![p] = "mkdir"]
  /\ seen' = [seen EXCEPT ![p] = Unread]
  /\ UNCHANGED <<dir, mine, broken, call, file, rd, gone>>

TimesOut(p) ==
  /\ Busy(p)
  /\ pc' = [pc EXCEPT ![p] = "idle"]
  /\ Ends(p)
  /\ UNCHANGED <<dir, broken, file, rd, gone>>

(* A call to the file system fails in another way than is expected.         *)
AcquireFails(p) ==
  /\ \E from \in {"mkdir", "lstat", "break"} : Goto(p, from, "idle")
  /\ Ends(p)
  /\ UNCHANGED <<dir, broken, file, rd, gone>>

------------------------------------------------------------------------------
(* updateLanState, with the lock.                                           *)

Empty(p) == [clientId |-> p, listed |-> {}]

Applied(u, s) ==
  IF u.kind = "ensure" THEN s
  ELSE [clientId |-> s.clientId,
        listed |-> IF u.kind = "put" THEN s.listed \cup {u.peer} ELSE s.listed \ {u.peer}]

(* parseLanState, as far as an update can run into it.                      *)
Accepts(s) == Cardinality(s.listed) <= MaxListed

(* readLanState, or createEmptyState.                                       *)
Read(p) ==
  /\ Goto(p, "read", "commit")
  /\ base' = [base EXCEPT ![p] = IF file = None THEN Empty(p) ELSE file]
  /\ UNCHANGED <<lock, file, update, done, rd, gone>>

(* What p was called for and has not done yet.                              *)
Is(p, kind, c) == update[p] = [kind |-> kind, peer |-> c] /\ ~done[p]

(* The updater's result is validated and renamed into place: the file that  *)
(* a reader has open by then has lost its link. Who has looked at the links *)
(* already does not look again.                                             *)
Commit(p) ==
  /\ Goto(p, "commit", "release")
  /\ Accepts(Applied(update[p], base[p]))
  /\ file' = Applied(update[p], base[p])
  /\ done' = [done EXCEPT ![p] = TRUE]
  /\ rd' = [r \in Reader |->
              IF rd[r].step = "opened" THEN [rd[r] EXCEPT !.step = "unlinked"] ELSE rd[r]]
  /\ gone' = gone \cup {c \in Peer : Is(p, "drop", c) /\ ~\E q \in Proc : Is(q, "put", c)}
  /\ UNCHANGED <<lock, update, base>>

(* The updater throws, its result is refused, or a call to the file system  *)
(* fails; when the directory cannot be synced, the new file is in place.    *)
UpdateFails(p) ==
  /\ \E from \in {"read", "commit"} : Goto(p, from, "release")
  /\ UNCHANGED <<lock, call, file, rd, gone>>

------------------------------------------------------------------------------
(* releaseStateLock, in the end: errors are swallowed, whatever the path    *)
(* holds then.                                                              *)

Release(p) ==
  /\ dir.owner = mine[p]
  /\ Goto(p, "release", "unlink")
  /\ UNCHANGED <<lock, call, file, rd, gone>>

ReleaseLost(p) ==
  /\ Goto(p, "release", "idle")
  /\ Ends(p)
  /\ UNCHANGED <<dir, broken, file, rd, gone>>

Unlink(p) ==
  /\ dir.gen # None
  /\ Goto(p, "unlink", "rmdir")
  /\ dir' = [dir EXCEPT !.owner = None, !.old = @ /\ dir.owner = None]
  /\ UNCHANGED <<mine, seen, broken, call, file, rd, gone>>

(* After a removal the call is over, but for WriteExists.                   *)
Removed(p, from) ==
  \/ Goto(p, from, "idle") /\ Ends(p)
  \/ mine[p] = None /\ Goto(p, from, "lstat") /\ UNCHANGED <<mine, seen, call>>

(* A directory that has an owner.json again is not empty, and stays.        *)
Rmdir(p) ==
  /\ Removed(p, "rmdir")
  /\ dir' = IF dir.owner = None THEN NoDir ELSE dir
  /\ UNCHANGED <<broken, file, rd, gone>>

(* There is nothing to remove, or it cannot be.                             *)
RemoveFails(p) ==
  /\ Removed(p, "unlink")
  /\ UNCHANGED <<dir, broken, file, rd, gone>>

------------------------------------------------------------------------------
(* readLanState without the lock: opened by its name, looked at by its      *)
(* descriptor, once, then read by it and returned.                          *)

Open(r) ==
  /\ rd[r] = Closed
  /\ file # None
  /\ rd' = [rd EXCEPT ![r] = [step |-> "opened", got |-> file, out |-> {}]]
  /\ UNCHANGED <<lock, call, file, pc, gone>>

(* Mutant: nlink is not asked.                                              *)
LookAnyway(r) ==
  /\ rd[r].step \in {"opened", "unlinked"}
  /\ rd' = [rd EXCEPT ![r] = [step |-> "accepted", got |-> @.got, out |-> gone]]
  /\ UNCHANGED <<lock, call, file, pc, gone>>

(* fstat: a file that has been replaced since it was opened has no link any *)
(* more (nlink is not 1), which Refuse is for.                              *)
Look(r) ==
  /\ rd[r].step = "opened"
  /\ rd' = [rd EXCEPT ![r] = [step |-> "accepted", got |-> @.got, out |-> gone]]
  /\ UNCHANGED <<lock, call, file, pc, gone>>

(* The read throws: for the links, or because a call to the file system     *)
(* fails.                                                                   *)
Refuse(r) ==
  /\ rd[r].step # "closed"
  /\ rd' = [rd EXCEPT ![r] = Closed]
  /\ UNCHANGED <<lock, call, file, pc, gone>>

(* The descriptor is read, and its state returned, whatever has been        *)
(* renamed into place since the look.                                       *)
Return(r) ==
  /\ rd[r].step = "accepted"
  /\ rd' = [rd EXCEPT ![r] = Closed]
  /\ UNCHANGED <<lock, call, file, pc, gone>>

------------------------------------------------------------------------------
Crash(p) ==
  /\ pc[p] \notin {"idle", "dead"}
  /\ pc' = [pc EXCEPT ![p] = "dead"]
  /\ Ends(p)
  /\ UNCHANGED <<dir, broken, file, rd, gone>>

GrowOld ==
  /\ dir.gen # None
  /\ ~dir.old
  /\ dir' = [dir EXCEPT !.old = TRUE]
  /\ UNCHANGED <<mine, seen, broken, call, file, pc, rd, gone>>

Step(p) ==
  \/ Mkdir(p) \/ MkdirExists(p) \/ WriteOwner(p) \/ WriteFails(p) \/ WriteExists(p)
  \/ LstatGone(p) \/ Lstat(p) \/ JudgeStale(p)
  \/ Break(p) \/ Retry(p) \/ TimesOut(p) \/ AcquireFails(p)
  \/ Read(p) \/ Commit(p) \/ UpdateFails(p)
  \/ Release(p) \/ ReleaseLost(p) \/ Unlink(p) \/ Rmdir(p) \/ RemoveFails(p)

Next ==
  \/ \E p \in Proc : Step(p) \/ Crash(p) \/ (\E u \in Update : Call(p, u))
  \/ \E r \in Reader : Open(r) \/ Look(r) \/ Refuse(r) \/ Return(r)
  \/ GrowOld

Spec == Init /\ [][Next]_vars
------------------------------------------------------------------------------
(* Properties.                                                              *)

(* lan-state.test.ts:38 "preserves concurrent updates": each update works   *)
(* on the file as the one before left it, and once, whoever dies, waits in  *)
(* vain or fails; unless a break took a directory it had not judged, or one *)
(* whose owner was slow.                                                    *)
Register == INSTANCE StateRegister WITH
  Identity <- Proc,
  value <- file,
  stage <- [p \in Proc |-> IF done[p] THEN "done"
                           ELSE IF pc[p] \in {"idle", "dead"} THEN pc[p] ELSE "called"],
  lost <- broken # {}

ImplementsRegister == Register!Spec

(* Who was revoked is not in the file again before somebody calls for a     *)
(* pairing with it, whatever else is updated in the meantime.               *)
RevokedStaysOut ==
  broken = {} /\ file # None => file.listed \cap gone = {}

(* A read without the lock that its look at the links lets through lists    *)
(* nobody whose revocation was in place at that look, although the read had *)
(* begun before. (A revocation that is renamed into place after the look is *)
(* missed, until the next read.)                                            *)
ReadSeesRevocations ==
  broken = {} =>
    \A r \in Reader : rd[r].step = "accepted" => rd[r].got.listed \cap rd[r].out = {}
==============================================================================
