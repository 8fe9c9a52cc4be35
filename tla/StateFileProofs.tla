--------------------------- MODULE StateFileProofs ---------------------------
(****************************************************************************)
(* Theorems about StateFile for any set of updaters, readers and peers. As  *)
(* long as no live process has lost its directory (broken = {}), whoever is *)
(* between mkdir and the end of the release has the directory at the path,  *)
(* so that the state it has read is still in place when it commits. That    *)
(* makes every commit an atomic update of the register that StateRegister   *)
(* specifies; afterwards a commit is one upon some state.                   *)
(****************************************************************************)
EXTENDS StateFile, TLAPS

Using == {"write"} \cup Inside \cup Leaving

(* What a call keeps: its token, what it is for, and how far it is.         *)
CallKept ==
  \A p \in Proc :
    /\ mine[p] # None => mine[p].proc = p
    /\ pc[p] \in {"idle", "dead"} => update[p] = None /\ ~done[p]
    /\ pc[p] \notin {"idle", "dead"} => update[p] \in Update
    /\ pc[p] \in {"write"} \cup Inside => mine[p] # None
    /\ done[p] => pc[p] \in {"release", "unlink", "rmdir"} /\ mine[p] # None
    /\ pc[p] = "commit" => base[p] \in State

(* Nobody who is to be paired counts as revoked.                            *)
PendingNotGone == \A p \in Proc, c \in Peer : Is(p, "put", c) => c \notin gone

PathIsMine(p) ==
  /\ pc[p] \in Using => mine[p] # None /\ dir.gen = mine[p]
  /\ pc[p] \in {"write", "rmdir"} => dir.owner = None
  /\ pc[p] \in Inside => dir.owner = mine[p]

(* What a waiter judged by its owner, and still finds, is a dead one's.     *)
VerdictHolds(p) ==
  pc[p] = "break" /\ ~seen[p].old /\ dir.gen # None /\ dir.gen = seen[p].gen
    => ~Alive(dir.gen.proc)

BaseIsCurrent(p) ==
  pc[p] = "commit" => base[p] = IF file = None THEN Empty(p) ELSE file

Unbroken ==
  /\ dir.owner # None => dir.owner = dir.gen
  /\ \A p \in Proc : PathIsMine(p) /\ VerdictHolds(p) /\ BaseIsCurrent(p)
  /\ file # None => file.listed \cap gone = {}

(* The link count tells whether what a reader has open is still in place.   *)
OpenIsCurrent == \A r \in Reader : rd[r].step = "opened" => rd[r].got = file /\ file # None

IInv ==
  /\ TypeOK /\ CallKept /\ PendingNotGone /\ OpenIsCurrent
  /\ broken = {} => Unbroken
  /\ ReadSeesRevocations

LEMMA InitIInv == Init => IInv
  BY NoneAssumption DEF Init, IInv, TypeOK, CallKept, PendingNotGone, OpenIsCurrent,
     ReadSeesRevocations, Unbroken, PathIsMine, VerdictHolds, BaseIsCurrent, NoDir, Unread,
     Closed, ReadPhase, Phase, Trying, Inside,
     Leaving, Using, Is, Update

(* An update makes a state of a state.                                      *)
LEMMA AppliedType ==
  ASSUME NEW u \in Update, NEW s \in State
  PROVE  Applied(u, s) \in State
  BY DEF Applied, State, Update

LEMMA EmptyType == ASSUME NEW p \in Proc PROVE Empty(p) \in State
  BY DEF Empty, State

(* What a removal leaves behind.                                            *)
LEMMA RemovedType ==
  ASSUME TypeOK, NEW p \in Proc, NEW from, Removed(p, from)
  PROVE  /\ pc' \in [Proc -> Phase]
         /\ mine' \in [Proc -> Token \cup {None}]
         /\ seen' \in [Proc -> [gen : Token \cup {None}, old : BOOLEAN]]
         /\ update' \in [Proc -> Update \cup {None}]
         /\ base' \in [Proc -> State \cup {None}]
         /\ done' \in [Proc -> BOOLEAN]
<1> USE DEF TypeOK, Phase, Trying, Inside, Leaving
<1>1. CASE Goto(p, from, "idle") /\ Ends(p)
  BY <1>1 DEF Goto, Ends, Unread
<1>2. CASE Goto(p, from, "lstat") /\ UNCHANGED <<mine, seen, call>>
  BY <1>2 DEF Goto, call
<1> QED
  BY <1>1, <1>2 DEF Removed

(* Type correctness of every variable is kept by every step.                *)
LEMMA TypeStep == TypeOK /\ CallKept /\ [Next]_vars => TypeOK'
<1> SUFFICES ASSUME TypeOK, CallKept, [Next]_vars PROVE TypeOK'
  OBVIOUS
<1> USE DEF TypeOK, Goto, Phase, Trying, Inside, Leaving, lock, call
<1>1. ASSUME NEW p \in Proc, NEW u \in Update, Call(p, u) PROVE TypeOK'
  BY <1>1 DEF Call
<1>2. ASSUME NEW p \in Proc, Mkdir(p) PROVE TypeOK'
  <2>1. PICK t \in Token : /\ dir' = [gen |-> t, owner |-> None, old |-> FALSE]
                           /\ mine' = [mine EXCEPT ![p] = t]
    BY <1>2 DEF Mkdir
  <2> QED
    BY <1>2, <2>1 DEF Mkdir
<1>3. ASSUME NEW p \in Proc, MkdirExists(p) \/ WriteFails(p) \/ LstatGone(p) \/ Release(p)
      PROVE  TypeOK'
  BY <1>3 DEF MkdirExists, WriteFails, LstatGone, Release
<1>4. ASSUME NEW p \in Proc, WriteOwner(p) PROVE TypeOK'
  BY <1>4 DEF WriteOwner
<1>5. ASSUME NEW p \in Proc, Lstat(p) PROVE TypeOK'
  BY <1>5 DEF Lstat
<1>6. ASSUME NEW p \in Proc, JudgeStale(p) PROVE TypeOK'
  BY <1>6 DEF JudgeStale
<1>7. ASSUME NEW p \in Proc, Break(p) PROVE TypeOK'
  BY <1>7 DEF Break, NoDir, Unread
<1>8. ASSUME NEW p \in Proc, Retry(p) PROVE TypeOK'
  BY <1>8 DEF Retry, Unread
<1>9. ASSUME NEW p \in Proc, AcquireFails(p) \/ ReleaseLost(p) \/ Crash(p) PROVE TypeOK'
  <2>1. CASE AcquireFails(p)
    BY <2>1 DEF AcquireFails, Ends, Unread
  <2>2. CASE ReleaseLost(p)
    BY <2>2 DEF ReleaseLost, Ends, Unread
  <2>3. CASE Crash(p)
    BY <2>3 DEF Crash, Ends, Unread
  <2> QED
    BY <1>9, <2>1, <2>2, <2>3
<1>18. ASSUME NEW p \in Proc, TimesOut(p) PROVE TypeOK'
  BY <1>18 DEF TimesOut, Ends, Unread
<1>19. ASSUME NEW p \in Proc, RemoveFails(p) PROVE TypeOK'
  BY <1>19, RemovedType DEF RemoveFails
<1>20. ASSUME NEW p \in Proc, WriteExists(p) PROVE TypeOK'
  BY <1>20 DEF WriteExists
<1>10. ASSUME NEW p \in Proc, Read(p) PROVE TypeOK'
  BY <1>10, EmptyType DEF Read
<1>11. ASSUME NEW p \in Proc, Commit(p) PROVE TypeOK'
  <2>1. file' \in State
    <3>1. pc[p] = "commit" /\ file' = Applied(update[p], base[p])
      BY <1>11 DEF Commit
    <3>2. update[p] \in Update /\ base[p] \in State
      BY <3>1 DEF CallKept
    <3> QED
      BY <3>1, <3>2, AppliedType
  <2>2. rd' \in [Reader -> [step : ReadPhase, got : State \cup {None}, out : SUBSET Peer]]
    <3> DEFINE next(r) == IF rd[r].step = "opened" THEN [rd[r] EXCEPT !.step = "unlinked"]
                          ELSE rd[r]
    <3>1. rd' = [r \in Reader |-> next(r)]
      BY <1>11 DEF Commit
    <3>2. ASSUME NEW r \in Reader
          PROVE  next(r) \in [step : ReadPhase, got : State \cup {None}, out : SUBSET Peer]
      BY DEF ReadPhase
    <3> HIDE DEF next
    <3> QED
      BY <3>1, <3>2
  <2>3. gone' \in SUBSET Peer
    BY <1>11 DEF Commit
  <2> QED
    BY <1>11, <2>1, <2>2, <2>3 DEF Commit
<1>12. ASSUME NEW p \in Proc, UpdateFails(p) PROVE TypeOK'
  BY <1>12 DEF UpdateFails
<1>13. ASSUME NEW p \in Proc, Unlink(p) PROVE TypeOK'
  BY <1>13 DEF Unlink
<1>14. ASSUME NEW p \in Proc, Rmdir(p) PROVE TypeOK'
  <2>1. dir' \in [gen : Token \cup {None}, owner : Token \cup {None}, old : BOOLEAN]
    BY <1>14 DEF Rmdir, NoDir
  <2> QED
    BY <1>14, <2>1, RemovedType DEF Rmdir
<1>15. ASSUME NEW r \in Reader, Open(r) \/ Look(r) \/ Refuse(r) \/ Return(r) PROVE TypeOK'
  <2> DEFINE ReadType == [step : ReadPhase, got : State \cup {None}, out : SUBSET Peer]
  <2>1. PICK v \in ReadType : rd' = [rd EXCEPT ![r] = v]
    <3>1. CASE Open(r)
      BY <3>1 DEF Open, ReadPhase
    <3>2. CASE Look(r)
      BY <3>2 DEF Look, ReadPhase
    <3>3. CASE Refuse(r) \/ Return(r)
      BY <3>3 DEF Refuse, Return, Closed, ReadPhase
    <3> QED
      BY <1>15, <3>1, <3>2, <3>3
  <2>2. UNCHANGED <<lock, call, file, pc, gone>>
    BY <1>15 DEF Open, Look, Refuse, Return
  <2>3. rd' \in [Reader -> ReadType]
    <3>1. rd \in [Reader -> ReadType]
      OBVIOUS
    <3> HIDE DEF ReadType
    <3> QED
      BY <2>1, <3>1
  <2> QED
    BY <2>2, <2>3
<1>16. CASE GrowOld
  BY <1>16 DEF GrowOld
<1>17. CASE UNCHANGED vars
  BY <1>17 DEF vars
<1> HIDE DEF TypeOK, Goto, Phase, Trying, Inside, Leaving, lock, call
<1> QED
  BY <1>1, <1>2, <1>3, <1>4, <1>5, <1>6, <1>7, <1>8, <1>9, <1>10, <1>11, <1>12,
     <1>13, <1>14, <1>15, <1>16, <1>17, <1>18, <1>19, <1>20
  DEF Next, Step

LEMMA CallStep == TypeOK /\ CallKept /\ [Next]_vars => CallKept'
<1> SUFFICES ASSUME TypeOK, CallKept, [Next]_vars PROVE CallKept'
  OBVIOUS
<1> USE NoneAssumption
    DEF TypeOK, CallKept, Goto, Phase, Trying, Inside, Leaving, Using, lock, call
<1>1. ASSUME NEW p \in Proc, NEW u \in Update, Call(p, u) PROVE CallKept'
  BY <1>1 DEF Call
<1>2. ASSUME NEW p \in Proc, Mkdir(p) PROVE CallKept'
  <2>1. PICK t \in Token : t.proc = p /\ mine' = [mine EXCEPT ![p] = t]
    BY <1>2 DEF Mkdir
  <2> QED
    BY <1>2, <2>1 DEF Mkdir
<1>3. ASSUME NEW p \in Proc,
             \/ MkdirExists(p) \/ WriteFails(p) \/ LstatGone(p) \/ Release(p)
             \/ WriteOwner(p) \/ Lstat(p) \/ JudgeStale(p) \/ UpdateFails(p) \/ Unlink(p)
      PROVE  CallKept'
  BY <1>3 DEF MkdirExists, WriteFails, LstatGone, Release, WriteOwner, Lstat, JudgeStale,
     UpdateFails, Unlink
<1>4. ASSUME NEW p \in Proc, Break(p) \/ Retry(p) PROVE CallKept'
  BY <1>4 DEF Break, Retry, Busy
<1>5. ASSUME NEW p \in Proc,
             TimesOut(p) \/ AcquireFails(p) \/ ReleaseLost(p) \/ Crash(p)
      PROVE  CallKept'
  <2>1. CASE TimesOut(p)
    BY <2>1 DEF TimesOut, Busy, Ends
  <2>2. CASE AcquireFails(p)
    BY <2>2 DEF AcquireFails, Ends
  <2>3. CASE ReleaseLost(p)
    BY <2>3 DEF ReleaseLost, Ends
  <2>4. CASE Crash(p)
    BY <2>4 DEF Crash, Ends
  <2> QED
    BY <1>5, <2>1, <2>2, <2>3, <2>4
<1>10. ASSUME NEW p \in Proc, Rmdir(p) \/ RemoveFails(p) PROVE CallKept'
  BY <1>10 DEF Rmdir, RemoveFails, Removed, Ends
<1>11. ASSUME NEW p \in Proc, WriteExists(p) PROVE CallKept'
  BY <1>11 DEF WriteExists
<1>6. ASSUME NEW p \in Proc, Read(p) PROVE CallKept'
  BY <1>6, EmptyType DEF Read
<1>7. ASSUME NEW p \in Proc, Commit(p) PROVE CallKept'
  BY <1>7 DEF Commit
<1>8. ASSUME NEW r \in Reader, Open(r) \/ Look(r) \/ Refuse(r) \/ Return(r) PROVE CallKept'
  BY <1>8 DEF Open, Look, Refuse, Return
<1>9. CASE GrowOld \/ UNCHANGED vars
  BY <1>9 DEF GrowOld, vars
<1> HIDE DEF TypeOK, CallKept, Goto, Phase, Trying, Inside, Leaving, Using, lock, call
<1> QED
  BY <1>1, <1>2, <1>3, <1>4, <1>5, <1>6, <1>7, <1>8, <1>9, <1>10, <1>11 DEF Next, Step

(* A commit does not count as revoked whom somebody is about to pair.       *)
LEMMA PendingStep ==
  TypeOK /\ CallKept /\ PendingNotGone /\ [Next]_vars => PendingNotGone'
<1> SUFFICES ASSUME TypeOK, CallKept, PendingNotGone, [Next]_vars PROVE PendingNotGone'
  OBVIOUS
<1> USE NoneAssumption DEF PendingNotGone, Is, lock, call
<1>1. ASSUME NEW p \in Proc, NEW u \in Update, Call(p, u) PROVE PendingNotGone'
  <2>1. /\ update' = [update EXCEPT ![p] = u]
        /\ gone' = IF u.kind = "put" THEN gone \ {u.peer} ELSE gone
        /\ done' = done
    BY <1>1 DEF Call
  <2> SUFFICES ASSUME NEW q \in Proc, NEW c \in Peer, Is(q, "put", c)' PROVE c \notin gone'
    OBVIOUS
  <2>2. CASE q = p
    BY <2>1, <2>2 DEF TypeOK
  <2>3. CASE q # p
    BY <2>1, <2>3 DEF TypeOK
  <2> QED
    BY <2>2, <2>3
<1>2. ASSUME NEW p \in Proc, Commit(p) PROVE PendingNotGone'
  BY <1>2 DEF Commit, TypeOK
<1>3. ASSUME NEW p \in Proc,
             \/ Mkdir(p) \/ MkdirExists(p) \/ WriteOwner(p) \/ WriteFails(p) \/ WriteExists(p)
             \/ LstatGone(p) \/ Lstat(p) \/ JudgeStale(p) \/ Break(p) \/ Retry(p)
             \/ Read(p) \/ UpdateFails(p) \/ Release(p) \/ Unlink(p)
      PROVE  PendingNotGone'
  BY <1>3 DEF Mkdir, MkdirExists, WriteOwner, WriteFails, WriteExists, LstatGone, Lstat,
     JudgeStale, Break, Retry, Read, UpdateFails, Release, Unlink
<1>4. ASSUME NEW p \in Proc, Ends(p), gone' = gone PROVE PendingNotGone'
  <2> SUFFICES ASSUME NEW q \in Proc, NEW c \in Peer, Is(q, "put", c)' PROVE Is(q, "put", c)
    BY <1>4
  <2>1. update' = [update EXCEPT ![p] = None] /\ done' = [done EXCEPT ![p] = FALSE]
    BY <1>4 DEF Ends
  <2>2. q # p
    BY <2>1 DEF TypeOK, Update
  <2> QED
    BY <2>1, <2>2 DEF TypeOK
<1>5. ASSUME NEW p \in Proc,
             TimesOut(p) \/ AcquireFails(p) \/ ReleaseLost(p) \/ Crash(p)
      PROVE  PendingNotGone'
  <2>1. Ends(p) /\ gone' = gone
    BY <1>5 DEF TimesOut, AcquireFails, ReleaseLost, Crash
  <2> QED
    BY <1>4, <2>1
<1>6. ASSUME NEW p \in Proc, Rmdir(p) \/ RemoveFails(p) PROVE PendingNotGone'
  <2>1. gone' = gone /\ (Ends(p) \/ UNCHANGED call)
    BY <1>6 DEF Rmdir, RemoveFails, Removed
  <2> QED
    BY <1>4, <2>1
<1>7. ASSUME NEW r \in Reader, Open(r) \/ Look(r) \/ Refuse(r) \/ Return(r) PROVE PendingNotGone'
  BY <1>7 DEF Open, Look, Refuse, Return
<1>8. CASE GrowOld \/ UNCHANGED vars
  BY <1>8 DEF GrowOld, vars
<1> HIDE DEF PendingNotGone, Is, lock, call
<1> QED
  BY <1>1, <1>2, <1>3, <1>5, <1>6, <1>7, <1>8 DEF Next, Step

(* Every step but a commit leaves the file, and who has it open.            *)
LEMMA FileKept ==
  ASSUME [Next]_vars
  PROVE  \/ UNCHANGED <<file, rd>>
         \/ \E p \in Proc : Commit(p)
         \/ \E r \in Reader : Open(r) \/ Look(r) \/ Refuse(r) \/ Return(r)
BY DEF Next, Step, vars, Call, Mkdir, MkdirExists, WriteOwner, WriteFails, WriteExists,
   LstatGone, Lstat, JudgeStale, Break, Retry, TimesOut, AcquireFails, Read, UpdateFails,
   Release, ReleaseLost, Unlink, Rmdir, RemoveFails, Crash, GrowOld

LEMMA OpenStep == TypeOK /\ OpenIsCurrent /\ [Next]_vars => OpenIsCurrent'
<1> SUFFICES ASSUME TypeOK, OpenIsCurrent, [Next]_vars PROVE OpenIsCurrent'
  OBVIOUS
<1> USE DEF OpenIsCurrent
<1>1. ASSUME NEW p \in Proc, Commit(p) PROVE OpenIsCurrent'
  BY <1>1 DEF Commit, TypeOK
<1>2. ASSUME NEW r \in Reader, Open(r) PROVE OpenIsCurrent'
  BY <1>2 DEF Open, Closed, TypeOK
<1>3. ASSUME NEW r \in Reader, Look(r) PROVE OpenIsCurrent'
  BY <1>3 DEF Look, TypeOK
<1>4. ASSUME NEW r \in Reader, Refuse(r) \/ Return(r) PROVE OpenIsCurrent'
  <2>1. /\ file' = file
        /\ rd'[r].step = "closed"
        /\ \A q \in Reader \ {r} : rd'[q] = rd[q]
    BY <1>4 DEF Refuse, Return, Closed, TypeOK
  <2> QED
    BY <2>1
<1>5. CASE UNCHANGED <<file, rd>>
  BY <1>5
<1> QED
  BY <1>1, <1>2, <1>3, <1>4, <1>5, FileKept

(* What a look lets through is in place at that look, and lists nobody whose*)
(* revocation is; what it lets through, and whom it saw revoked, are kept.  *)
LEMMA AcceptedStep ==
  ASSUME TypeOK, OpenIsCurrent, broken = {}, Unbroken, ReadSeesRevocations, [Next]_vars
  PROVE  ReadSeesRevocations'
<1> SUFFICES ASSUME NEW q \in Reader, rd'[q].step = "accepted"
             PROVE  rd'[q].got.listed \cap rd'[q].out = {}
  BY DEF ReadSeesRevocations
<1>1. CASE rd'[q] = rd[q]
  BY <1>1 DEF ReadSeesRevocations
<1>2. ASSUME NEW p \in Proc, Commit(p) PROVE rd'[q] = rd[q]
  <2>1. rd'[q] = IF rd[q].step = "opened" THEN [rd[q] EXCEPT !.step = "unlinked"] ELSE rd[q]
    BY <1>2 DEF Commit
  <2>2. CASE rd[q].step = "opened"
    BY <2>1, <2>2 DEF TypeOK
  <2> QED
    BY <2>1, <2>2
<1>3. ASSUME NEW r \in Reader, Open(r) PROVE rd'[q] = rd[q]
  BY <1>3 DEF Open, Closed, TypeOK
<1>4. ASSUME NEW r \in Reader, Refuse(r) \/ Return(r) PROVE rd'[q] = rd[q]
  BY <1>4 DEF Refuse, Return, Closed, TypeOK
<1>5. ASSUME NEW r \in Reader, Look(r), rd'[q] # rd[q]
      PROVE  rd'[q].got.listed \cap rd'[q].out = {}
  <2>1. rd[q].step = "opened" /\ rd'[q].got = rd[q].got /\ rd'[q].out = gone
    BY <1>5 DEF Look, TypeOK
  <2>2. rd[q].got = file /\ file # None
    BY <1>5, <2>1 DEF OpenIsCurrent
  <2> QED
    BY <2>1, <2>2 DEF Unbroken
<1> QED
  BY <1>1, <1>2, <1>3, <1>4, <1>5, FileKept

(* While nothing is broken, two updaters never both need the path.          *)
LEMMA OneUser ==
  ASSUME CallKept, Unbroken, NEW p \in Proc, NEW q \in Proc, pc[p] \in Using, pc[q] \in Using
  PROVE  p = q
  BY DEF CallKept, Unbroken, PathIsMine

(* A break that leaves broken empty removes a directory whose creator is    *)
(* dead, or nothing: nobody alive needs the path.                           *)
LEMMA BreakIsSafe ==
  ASSUME TypeOK, CallKept, Unbroken, NEW p \in Proc, Break(p), broken' = {}, NEW q \in Proc
  PROVE  pc[q] \notin Using
<1> SUFFICES ASSUME pc[q] \in Using PROVE FALSE
  OBVIOUS
<1>1. dir.gen = mine[q] /\ mine[q] # None /\ mine[q].proc = q /\ Alive(q)
  BY DEF Unbroken, PathIsMine, CallKept, Alive, Using, Inside, Leaving
<1>2. dir.gen = seen[p].gen /\ ~seen[p].old
  BY <1>1 DEF Break, TypeOK
<1>3. ~Alive(dir.gen.proc)
  BY <1>1, <1>2 DEF Unbroken, VerdictHolds, Break, Goto
<1> QED
  BY <1>1, <1>3

(* What a commit puts in place lists nobody who counts as revoked then.     *)
LEMMA CommitKeepsOut ==
  ASSUME TypeOK, CallKept, PendingNotGone, Unbroken, NEW p \in Proc, Commit(p)
  PROVE  file'.listed \cap gone' = {}
<1>1. /\ pc[p] = "commit"
      /\ file' = Applied(update[p], base[p])
      /\ gone' = gone \cup {c \in Peer : Is(p, "drop", c) /\ ~\E q \in Proc : Is(q, "put", c)}
  BY DEF Commit, Goto
<1>2. update[p] \in Update /\ base[p] \in State /\ ~done[p]
  BY <1>1 DEF CallKept
<1>3. base[p].listed \cap gone = {}
  <2>1. base[p] = IF file = None THEN Empty(p) ELSE file
    BY <1>1 DEF Unbroken, BaseIsCurrent
  <2>2. Empty(p).listed = {}
    BY DEF Empty
  <2> QED
    BY <2>1, <2>2 DEF Unbroken
<1>4. CASE update[p].kind = "ensure"
  <2>1. gone' = gone
    BY <1>1, <1>4 DEF Is
  <2> QED
    BY <1>1, <1>3, <1>4, <2>1 DEF Applied
<1>5. CASE update[p].kind = "put"
  <2>1. gone' = gone
    BY <1>1, <1>5 DEF Is
  <2>2. update[p].peer \in Peer /\ update[p] = [kind |-> "put", peer |-> update[p].peer]
    BY <1>2, <1>5 DEF Update
  <2>3. update[p].peer \notin gone
    BY <1>2, <2>2 DEF PendingNotGone, Is
  <2> QED
    BY <1>1, <1>3, <1>5, <2>1, <2>3 DEF Applied
<1>6. CASE update[p].kind = "drop"
  <2>1. gone' \subseteq gone \cup {update[p].peer}
    BY <1>1, <1>6 DEF Is
  <2> QED
    BY <1>1, <1>3, <1>6, <2>1 DEF Applied
<1> QED
  BY <1>2, <1>4, <1>5, <1>6 DEF Update

(* Every step that leaves broken empty keeps Unbroken.                      *)
LEMMA UnbrokenStep ==
  TypeOK /\ CallKept /\ PendingNotGone /\ Unbroken /\ [Next]_vars /\ broken' = {} => Unbroken'
<1> SUFFICES ASSUME TypeOK, CallKept, PendingNotGone, Unbroken, [Next]_vars, broken' = {}
             PROVE  Unbroken'
  OBVIOUS
<1>20. ASSUME NEW p \in Proc, pc[p] \in Using PROVE \A q \in Proc : pc[q] \in Using => q = p
  BY <1>20, OneUser
<1> USE NoneAssumption
    DEF TypeOK, CallKept, Unbroken, PathIsMine, VerdictHolds, BaseIsCurrent, Goto, Alive,
        Using, Inside, Leaving, lock, call
<1>1. ASSUME NEW p \in Proc, NEW u \in Update, Call(p, u) PROVE Unbroken'
  BY <1>1 DEF Call
<1>2. ASSUME NEW p \in Proc, Mkdir(p) PROVE Unbroken'
  <2>1. PICK t \in Token : /\ dir' = [gen |-> t, owner |-> None, old |-> FALSE]
                           /\ mine' = [mine EXCEPT ![p] = t]
                           /\ Fresh(t)
    BY <1>2 DEF Mkdir
  <2>2. \A q \in Proc : pc[q] \notin Using
    BY <1>2 DEF Mkdir
  <2>3. \A q \in Proc : seen[q].gen # t
    BY <2>1 DEF Fresh
  <2> QED
    BY <1>2, <2>1, <2>2, <2>3 DEF Mkdir
<1>3. ASSUME NEW p \in Proc, WriteOwner(p) PROVE Unbroken'
  <2>1. \A q \in Proc : pc[q] \in Using => q = p
    BY <1>3, <1>20 DEF WriteOwner
  <2>2. dir'.gen = mine[p] /\ dir'.owner = mine[p]
    BY <1>3 DEF WriteOwner
  <2> QED
    BY <1>3, <2>1, <2>2 DEF WriteOwner
<1>4. ASSUME NEW p \in Proc, Break(p) PROVE Unbroken'
  <2>1. \A q \in Proc : pc[q] \notin Using
    <3> HIDE DEF TypeOK, CallKept, Unbroken, Using
    <3> QED
      BY <1>4, BreakIsSafe
  <2> QED
    BY <1>4, <2>1 DEF Break, NoDir, Unread
<1>5. ASSUME NEW p \in Proc, Unlink(p) PROVE Unbroken'
  <2>1. \A q \in Proc : pc[q] \in Using => q = p
    BY <1>5, <1>20 DEF Unlink
  <2>2. dir'.gen = dir.gen /\ dir'.owner = None
    BY <1>5 DEF Unlink
  <2> QED
    BY <1>5, <2>1, <2>2 DEF Unlink
<1>6. ASSUME NEW p \in Proc, Rmdir(p) PROVE Unbroken'
  <2>1. /\ \A q \in Proc : pc[q] \in Using => q = p
        /\ mine[p] # None
    BY <1>6, <1>20 DEF Rmdir, Removed
  <2> QED
    BY <1>6, <2>1 DEF Rmdir, Removed, NoDir, Ends
<1>7. ASSUME NEW p \in Proc, Commit(p) PROVE Unbroken'
  <2>1. \A q \in Proc : pc[q] \in Using => q = p
    BY <1>7, <1>20 DEF Commit
  <2>2. file'.listed \cap gone' = {}
    <3> HIDE DEF TypeOK, CallKept, Unbroken
    <3> QED
      BY <1>7, CommitKeepsOut
  <2> QED
    BY <1>7, <2>1, <2>2 DEF Commit
<1>8. ASSUME NEW p \in Proc, Read(p) PROVE Unbroken'
  BY <1>8 DEF Read
<1>9. ASSUME NEW p \in Proc, JudgeStale(p) PROVE Unbroken'
  BY <1>9 DEF JudgeStale, Stale
<1>10. ASSUME NEW p \in Proc,
             MkdirExists(p) \/ WriteFails(p) \/ LstatGone(p) \/ UpdateFails(p) \/ Release(p)
      PROVE  Unbroken'
  <2>1. CASE MkdirExists(p)
    BY <2>1 DEF MkdirExists
  <2>5. CASE LstatGone(p)
    BY <2>5 DEF LstatGone
  <2>2. CASE WriteFails(p)
    BY <2>2 DEF WriteFails
  <2>3. CASE UpdateFails(p)
    <3>1. pc[p] \in {"read", "commit"} /\ pc' = [pc EXCEPT ![p] = "release"]
      BY <2>3 DEF UpdateFails
    <3> QED
      BY <2>3, <3>1 DEF UpdateFails
  <2>4. CASE Release(p)
    BY <2>4 DEF Release
  <2> QED
    BY <1>10, <2>1, <2>2, <2>3, <2>4, <2>5
<1>11. ASSUME NEW p \in Proc, Lstat(p) PROVE Unbroken'
  BY <1>11 DEF Lstat
<1>12. ASSUME NEW p \in Proc, Retry(p) PROVE Unbroken'
  BY <1>12 DEF Retry, Busy
<1>13. ASSUME NEW p \in Proc, WriteExists(p) PROVE Unbroken'
  BY <1>13 DEF WriteExists
<1>14. ASSUME NEW p \in Proc, TimesOut(p) PROVE Unbroken'
  BY <1>14 DEF TimesOut, Busy, Ends
<1>15. ASSUME NEW p \in Proc, AcquireFails(p) PROVE Unbroken'
  BY <1>15 DEF AcquireFails, Ends
<1>16. ASSUME NEW p \in Proc, ReleaseLost(p) PROVE Unbroken'
  BY <1>16 DEF ReleaseLost, Ends
<1>17. ASSUME NEW p \in Proc, RemoveFails(p) PROVE Unbroken'
  <2>1. CASE Goto(p, "unlink", "idle") /\ Ends(p)
    BY <1>17, <2>1 DEF RemoveFails, Ends
  <2>2. CASE mine[p] = None /\ Goto(p, "unlink", "lstat") /\ UNCHANGED <<mine, seen, call>>
    BY <1>17, <2>2 DEF RemoveFails
  <2> QED
    BY <1>17, <2>1, <2>2 DEF RemoveFails, Removed
<1>18. ASSUME NEW p \in Proc, Crash(p) PROVE Unbroken'
  BY <1>18 DEF Crash, Ends, Unread
<1>19. ASSUME NEW r \in Reader, Open(r) \/ Look(r) \/ Refuse(r) \/ Return(r) PROVE Unbroken'
  BY <1>19 DEF Open, Look, Refuse, Return
<1>21. CASE GrowOld \/ UNCHANGED vars
  BY <1>21 DEF GrowOld, vars
<1> HIDE DEF TypeOK, CallKept, Unbroken, PathIsMine, VerdictHolds, BaseIsCurrent, Goto, Alive,
        Using, Inside, Leaving, lock, call
<1> QED
  BY <1>1, <1>2, <1>3, <1>4, <1>5, <1>6, <1>7, <1>8, <1>9, <1>10, <1>11, <1>12,
     <1>13, <1>14, <1>15, <1>16, <1>17, <1>18, <1>19, <1>21
  DEF Next, Step

LEMMA BrokenGrows == TypeOK /\ [Next]_vars => broken \subseteq broken'
BY DEF Next, Step, vars, lock, Call, Mkdir, MkdirExists, WriteOwner, WriteFails, WriteExists,
   LstatGone, Lstat, JudgeStale, Break, Retry, TimesOut, AcquireFails, Read, Commit, UpdateFails,
   Release, ReleaseLost, Unlink, Rmdir, RemoveFails, Removed, Crash, GrowOld, Open,
   Look, Refuse, Return

(* Every variable keeps its type.                                           *)
THEOREM TypeCorrect == Spec => []TypeOK
<1>1. TypeOK /\ CallKept /\ [Next]_vars => (TypeOK /\ CallKept)'
  BY TypeStep, CallStep
<1>2. Init => TypeOK /\ CallKept
  BY InitIInv DEF IInv
<1> QED
  BY <1>1, <1>2, PTL DEF Spec

(* The strengthening of the properties below is inductive.                  *)
THEOREM InductiveInvariant == Spec => []IInv
<1>1. IInv /\ [Next]_vars => IInv'
  <2> SUFFICES ASSUME IInv, [Next]_vars PROVE IInv'
    OBVIOUS
  <2>1. (TypeOK /\ CallKept /\ PendingNotGone /\ OpenIsCurrent)'
    BY TypeStep, CallStep, PendingStep, OpenStep DEF IInv
  <2>2. broken' = {} => broken = {}
    BY BrokenGrows DEF IInv
  <2>3. (broken = {} => Unbroken)'
    BY <2>2, UnbrokenStep DEF IInv
  <2>4. CASE broken = {}
    BY <2>1, <2>3, <2>4, AcceptedStep DEF IInv
  <2>5. CASE broken # {}
    BY <2>1, <2>2, <2>3, <2>5 DEF IInv, ReadSeesRevocations
  <2> QED
    BY <2>4, <2>5
<1> QED
  BY InitIInv, <1>1, PTL DEF Spec

(* updateLanState: a revocation is not undone by an update that overlaps it,*)
(* as long as no live process has lost the lock.                            *)
THEOREM RevocationKept == Spec => []RevokedStaysOut
<1>1. IInv => RevokedStaysOut
  BY DEF IInv, Unbroken, RevokedStaysOut
<1> QED
  BY <1>1, InductiveInvariant, PTL

(* readLanState: a look at the link count that lets a read through lets     *)
(* nobody back in whose revocation is in place by then.                     *)
THEOREM ReadsSeeRevocations == Spec => []ReadSeesRevocations
<1>1. IInv => ReadSeesRevocations
  BY DEF IInv
<1> QED
  BY <1>1, InductiveInvariant, PTL

------------------------------------------------------------------------------
(* The refinement.                                                          *)

stageOf == [p \in Proc |-> IF done[p] THEN "done"
                           ELSE IF pc[p] \in {"idle", "dead"} THEN pc[p] ELSE "called"]

(* A step that moves p within its call is no step of the register.          *)
LEMMA StageKept ==
  ASSUME TypeOK, NEW p \in Proc, NEW to \in Phase \ {"idle", "dead"},
         pc[p] \notin {"idle", "dead"}, pc' = [pc EXCEPT ![p] = to], done' = done
  PROVE  stageOf' = stageOf
BY DEF stageOf, TypeOK

(* The end of a call is a return.                                           *)
LEMMA EndReturns ==
  ASSUME TypeOK, CallKept, NEW p \in Proc, pc[p] \notin {"idle", "dead"},
         pc' = [pc EXCEPT ![p] = "idle"], Ends(p), UNCHANGED <<file, broken>>
  PROVE  Register!Return(p)
<1>1. stageOf[p] \in {"called", "done"} /\ stageOf' = [stageOf EXCEPT ![p] = "idle"]
  BY DEF stageOf, TypeOK, Ends
<1>2. update' = [update EXCEPT ![p] = None]
  BY DEF Ends
<1> QED
  BY <1>1, <1>2 DEF Register!Return, stageOf

(* A commit replaces the register by its update of what is in place, or of  *)
(* some state once the lock has been lost.                                  *)
LEMMA CommitCommits == ASSUME IInv, NEW p \in Proc, Commit(p) PROVE Register!Commit(p)
<1>1. /\ pc[p] = "commit"
      /\ ~done[p]
      /\ base[p] \in State
      /\ Accepts(Applied(update[p], base[p]))
      /\ file' = Applied(update[p], base[p])
      /\ UNCHANGED <<update, broken>>
  BY DEF Commit, Goto, IInv, CallKept, lock
<1>2. stageOf[p] = "called" /\ stageOf' = [stageOf EXCEPT ![p] = "done"]
  BY <1>1 DEF stageOf, Commit, Goto, IInv, TypeOK
<1>3. base[p] \in IF broken # {} THEN Register!State ELSE Register!Current
  <2>1. CASE broken # {}
    BY <1>1, <2>1 DEF State, Register!State
  <2>2. CASE broken = {} /\ file = None
    BY <1>1, <2>2 DEF IInv, Unbroken, BaseIsCurrent, Empty, Register!Current, Register!Empty
  <2>3. CASE broken = {} /\ file # None
    BY <1>1, <2>3 DEF IInv, Unbroken, BaseIsCurrent, Register!Current
  <2> QED
    BY <2>1, <2>2, <2>3
<1>4. Register!Applied(update[p], base[p]) = Applied(update[p], base[p])
  BY DEF Register!Applied, Applied
<1>5. Register!Accepts(Applied(update[p], base[p]))
  BY <1>1 DEF Register!Accepts, Accepts, Cardinality, Register!Cardinality
<1> QED
  BY <1>1, <1>2, <1>3, <1>4, <1>5 DEF Register!Commit, stageOf

LEMMA RegisterStep == ASSUME IInv, [Next]_vars PROVE [Register!Next]_(Register!vars)
<1> USE DEF Goto
<1>1. ASSUME UNCHANGED <<file, stageOf, update, broken>> PROVE UNCHANGED Register!vars
  BY <1>1 DEF Register!vars, stageOf
<1>2. ASSUME NEW p \in Proc, NEW u \in Update, Call(p, u) PROVE Register!Call(p, u)
  <2>1. stageOf[p] = "idle" /\ stageOf' = [stageOf EXCEPT ![p] = "called"]
    BY <1>2 DEF stageOf, Call, IInv, TypeOK, CallKept
  <2> QED
    BY <1>2, <2>1 DEF Register!Call, stageOf, Call, lock
<1>3. ASSUME NEW p \in Proc,
             \/ MkdirExists(p) \/ WriteOwner(p) \/ WriteFails(p) \/ WriteExists(p)
             \/ LstatGone(p) \/ Lstat(p) \/ JudgeStale(p) \/ Retry(p)
             \/ Read(p) \/ UpdateFails(p) \/ Release(p) \/ Unlink(p) \/ Mkdir(p)
      PROVE  UNCHANGED <<file, stageOf, update, broken>>
  <2>1. /\ pc[p] \notin {"idle", "dead"}
        /\ \E to \in Phase \ {"idle", "dead"} : pc' = [pc EXCEPT ![p] = to]
        /\ UNCHANGED <<file, update, done, broken>>
    <3> USE DEF Phase, Trying, Inside, Leaving, lock, call
    <3>1. CASE MkdirExists(p) \/ WriteOwner(p) \/ WriteFails(p) \/ WriteExists(p) \/ Mkdir(p)
      BY <3>1 DEF MkdirExists, WriteOwner, WriteFails, WriteExists, Mkdir
    <3>2. CASE LstatGone(p) \/ Lstat(p) \/ JudgeStale(p) \/ Retry(p)
      BY <3>2 DEF LstatGone, Lstat, JudgeStale, Retry, Busy
    <3>3. CASE Read(p) \/ UpdateFails(p) \/ Release(p) \/ Unlink(p)
      BY <3>3 DEF Read, UpdateFails, Release, Unlink
    <3> QED
      BY <1>3, <3>1, <3>2, <3>3
  <2> QED
    BY <2>1, StageKept DEF IInv
<1>4. ASSUME NEW p \in Proc, Break(p) PROVE [Register!Next]_(Register!vars)
  <2>1. UNCHANGED <<file, stageOf, update>>
    <3>1. pc' = [pc EXCEPT ![p] = "mkdir"] /\ pc[p] = "break" /\ done' = done
      BY <1>4 DEF Break, call
    <3> QED
      BY <1>4, <3>1, StageKept DEF Break, call, IInv, Phase, Trying
  <2>2. CASE (broken' # {}) = (broken # {})
    BY <2>1, <2>2 DEF Register!vars, stageOf
  <2>3. CASE (broken' # {}) # (broken # {})
    <3>1. broken' # {}
      BY <1>4, <2>3 DEF Break
    <3> QED
      BY <2>1, <3>1 DEF Register!Next, Register!Lose, stageOf
  <2> QED
    BY <2>2, <2>3
<1>5. ASSUME NEW p \in Proc, TimesOut(p) \/ AcquireFails(p) \/ ReleaseLost(p)
      PROVE  Register!Return(p)
  <2>1. /\ pc[p] \notin {"idle", "dead"}
        /\ pc' = [pc EXCEPT ![p] = "idle"]
        /\ Ends(p)
        /\ UNCHANGED <<file, broken>>
    BY <1>5 DEF TimesOut, Busy, AcquireFails, ReleaseLost
  <2> QED
    BY <2>1, EndReturns DEF IInv
<1>6. ASSUME NEW p \in Proc, Rmdir(p) \/ RemoveFails(p)
      PROVE  Register!Return(p) \/ UNCHANGED Register!vars
  <2>1. UNCHANGED <<file, broken>> /\ \E from \in {"rmdir", "unlink"} : Removed(p, from)
    BY <1>6 DEF Rmdir, RemoveFails
  <2>2. PICK from \in {"rmdir", "unlink"} : Removed(p, from)
    BY <2>1
  <2>3. CASE pc' = [pc EXCEPT ![p] = "idle"] /\ pc[p] = from /\ Ends(p)
    BY <2>1, <2>3, EndReturns DEF IInv
  <2>4. CASE pc' = [pc EXCEPT ![p] = "lstat"] /\ pc[p] = from /\ UNCHANGED call
    <3>1. stageOf' = stageOf
      BY <2>4, StageKept DEF call, IInv, Phase, Trying
    <3> QED
      BY <1>1, <2>1, <2>4, <3>1 DEF call
  <2> QED
    BY <2>2, <2>3, <2>4 DEF Removed
<1>7. ASSUME NEW p \in Proc, Crash(p) PROVE Register!Die(p)
  <2>1. stageOf[p] \in {"called", "done"} /\ stageOf' = [stageOf EXCEPT ![p] = "dead"]
    BY <1>7 DEF stageOf, Crash, Ends, IInv, TypeOK
  <2> QED
    BY <1>7, <2>1 DEF Register!Die, stageOf, Crash, Ends
<1>8. ASSUME \/ \E r \in Reader : Open(r) \/ Look(r) \/ Refuse(r) \/ Return(r)
             \/ GrowOld \/ UNCHANGED vars
      PROVE  UNCHANGED <<file, stageOf, update, broken>>
  BY <1>8 DEF Open, Look, Refuse, Return, GrowOld, vars, lock, call, stageOf
<1> QED
  BY <1>1, <1>2, <1>3, <1>4, <1>5, <1>6, <1>7, <1>8, CommitCommits
  DEF Next, Step, Register!Next, Update, Register!Update

(* lan-state.test.ts "preserves concurrent updates", for any number of      *)
(* updaters: updateLanState implements an update in one step.               *)
THEOREM Refinement == Spec => ImplementsRegister
<1>1. Init => Register!Init
  BY DEF Init, Register!Init
<1>2. IInv /\ [Next]_vars => [Register!Next]_(Register!vars)
  BY RegisterStep
<1> QED
  BY <1>1, <1>2, InductiveInvariant, PTL DEF Spec, ImplementsRegister, Register!Spec
=============================================================================
