--------------------------- MODULE EntryLockProofs ---------------------------
(****************************************************************************)
(* Theorems about EntryLock for any set of processes, any machines and any  *)
(* supply of tokens. The argument: as long as no live process has lost its  *)
(* directory (broken = {}), whoever is between mkdir and the end of the     *)
(* release has the directory that stands at the path, and directories are   *)
(* told apart by tokens that name their creator. So there is one such       *)
(* process, and a break that follows the staleness rule removes the         *)
(* directory of a dead one only.                                            *)
(****************************************************************************)
EXTENDS EntryLock, TLAPS

(* A token names the process that drew it, and exists from mkdir on.        *)
TokenIsOwn ==
  \A p \in Proc :
    /\ mine[p] # None => mine[p].proc = p
    /\ pc[p] \in {"write", "held", "unlink", "rmdir"} => mine[p] # None

(* Which directory and which owner stand at the path while p needs them.    *)
PathIsMine(p) ==
  /\ pc[p] \in {"write", "held", "unlink", "rmdir"} => dir.gen = mine[p]
  /\ pc[p] \in {"write", "rmdir"} => dir.owner = None
  /\ pc[p] = "held" => dir.owner = mine[p]

OwnerIsCreator ==
  /\ dir.owner # None => dir.owner = dir.gen
  /\ \A p \in Proc : seen[p].owner # None => seen[p].owner = seen[p].gen

(* A process of this machine that was judged dead is dead.                  *)
VerdictHolds(p) ==
  pc[p] = "break" /\ seen[p].owner # None /\ SameHost(p, seen[p].owner)
    => ~Alive(seen[p].owner.proc)

Unbroken ==
  /\ OwnerIsCreator
  /\ \A p \in Proc : PathIsMine(p) /\ VerdictHolds(p)

IInv == TypeOK /\ TokenIsOwn /\ (broken = {} => Unbroken)

LEMMA InitIInv == Init => IInv
  BY NoneAssumption DEF Init, IInv, TypeOK, TokenIsOwn, Unbroken, OwnerIsCreator,
     PathIsMine, VerdictHolds, NoDir, Unread, Phase, Trying, Cause, Token

(* Type correctness of every variable is kept by every step.                *)
LEMMA TypeStep == TypeOK /\ [Next]_vars => TypeOK'
<1> SUFFICES ASSUME TypeOK, [Next]_vars PROVE TypeOK'
  OBVIOUS
<1> USE DEF TypeOK, Goto, Phase, Trying
<1>1. ASSUME NEW p \in Proc, Mkdir(p) PROVE TypeOK'
  <2>1. PICK t \in Token : /\ dir' = [gen |-> t, owner |-> None, old |-> FALSE]
                           /\ mine' = [mine EXCEPT ![p] = t]
    BY <1>1 DEF Mkdir
  <2> QED
    BY <1>1, <2>1 DEF Mkdir
<1>2. ASSUME NEW p \in Proc, MkdirExists(p) PROVE TypeOK'
  BY <1>2 DEF MkdirExists
<1>3. ASSUME NEW p \in Proc, WriteOwner(p) PROVE TypeOK'
  BY <1>3 DEF WriteOwner
<1>4. ASSUME NEW p \in Proc, WriteFails(p) PROVE TypeOK'
  BY <1>4 DEF WriteFails
<1>5. ASSUME NEW p \in Proc, ReadOwner(p) PROVE TypeOK'
  BY <1>5 DEF ReadOwner
<1>6. ASSUME NEW p \in Proc, JudgeGone(p) PROVE TypeOK'
  BY <1>6 DEF JudgeGone, Unread
<1>7. ASSUME NEW p \in Proc, JudgeStale(p) PROVE TypeOK'
  BY <1>7 DEF JudgeStale
<1>8. ASSUME NEW p \in Proc, JudgeLive(p) PROVE TypeOK'
  BY <1>8 DEF JudgeLive, Unread
<1>9. ASSUME NEW p \in Proc, Break(p) PROVE TypeOK'
  BY <1>9 DEF Break, Unread, NoDir, Cause
<1>10. ASSUME NEW p \in Proc, Retry(p) PROVE TypeOK'
  BY <1>10 DEF Retry
<1>11. ASSUME NEW p \in Proc, GiveUp(p) PROVE TypeOK'
  BY <1>11 DEF GiveUp
<1>12. ASSUME NEW p \in Proc, UnlinkGone(p) PROVE TypeOK'
  BY <1>12 DEF UnlinkGone
<1>13. ASSUME NEW p \in Proc, Unlink(p) PROVE TypeOK'
  BY <1>13 DEF Unlink
<1>14. ASSUME NEW p \in Proc, Rmdir(p) PROVE TypeOK'
  BY <1>14 DEF Rmdir, NoDir
<1>15. ASSUME NEW p \in Proc, Start(p) PROVE TypeOK'
  BY <1>15 DEF Start
<1>16. ASSUME NEW p \in Proc, Release(p) PROVE TypeOK'
  BY <1>16 DEF Release
<1>17. ASSUME NEW p \in Proc, ReleaseLost(p) PROVE TypeOK'
  BY <1>17 DEF ReleaseLost
<1>18. ASSUME NEW p \in Proc, Crash(p) PROVE TypeOK'
  BY <1>18 DEF Crash, Unread
<1>19. CASE GrowOld
  BY <1>19 DEF GrowOld
<1>20. CASE UNCHANGED vars
  BY <1>20 DEF vars
<1> HIDE DEF TypeOK, Goto, Phase, Trying
<1> QED
  BY <1>1, <1>2, <1>3, <1>4, <1>5, <1>6, <1>7, <1>8, <1>9, <1>10,
     <1>11, <1>12, <1>13, <1>14, <1>15, <1>16, <1>17, <1>18, <1>19, <1>20
  DEF Next, Step

LEMMA TokenStep == TypeOK /\ TokenIsOwn /\ [Next]_vars => TokenIsOwn'
<1> SUFFICES ASSUME TypeOK, TokenIsOwn, [Next]_vars PROVE TokenIsOwn'
  OBVIOUS
<1> USE NoneAssumption DEF TypeOK, TokenIsOwn, Goto, Phase, Trying
<1>1. ASSUME NEW p \in Proc, Mkdir(p) PROVE TokenIsOwn'
  BY <1>1 DEF Mkdir
<1>2. ASSUME NEW p \in Proc,
             \/ MkdirExists(p) \/ WriteOwner(p) \/ WriteFails(p) \/ ReadOwner(p)
             \/ JudgeGone(p) \/ JudgeStale(p) \/ JudgeLive(p) \/ Break(p)
             \/ Retry(p) \/ GiveUp(p)
      PROVE TokenIsOwn'
  BY <1>2 DEF MkdirExists, WriteOwner, WriteFails, ReadOwner, JudgeGone, JudgeStale,
     JudgeLive, Break, Retry, GiveUp
<1>3. ASSUME NEW p \in Proc,
             \/ UnlinkGone(p) \/ Unlink(p) \/ Rmdir(p)
             \/ Start(p) \/ Release(p) \/ ReleaseLost(p) \/ Crash(p)
      PROVE TokenIsOwn'
  BY <1>3 DEF UnlinkGone, Unlink, Rmdir, Start, Release, ReleaseLost, Crash
<1>4. CASE GrowOld \/ UNCHANGED vars
  BY <1>4 DEF GrowOld, vars
<1> QED
  BY <1>1, <1>2, <1>3, <1>4 DEF Next, Step

(* While nothing is broken, two processes never both need the path.         *)
LEMMA OneUser ==
  ASSUME TokenIsOwn, Unbroken, NEW p \in Proc, NEW q \in Proc,
         pc[p] \in {"write", "held", "unlink", "rmdir"},
         pc[q] \in {"write", "held", "unlink", "rmdir"}
  PROVE  p = q
  BY DEF TokenIsOwn, Unbroken, PathIsMine

(* A break that leaves broken empty removes a directory whose creator is    *)
(* dead, or nothing: nobody alive needs the path.                           *)
LEMMA BreakIsSafe ==
  ASSUME TypeOK, TokenIsOwn, Unbroken, NEW p \in Proc, Break(p), broken' = {},
         NEW q \in Proc
  PROVE  pc[q] \notin {"write", "held", "unlink", "rmdir"}
<1> SUFFICES ASSUME pc[q] \in {"write", "held", "unlink", "rmdir"} PROVE FALSE
  OBVIOUS
<1>1. dir.gen = mine[q] /\ mine[q] # None /\ mine[q].proc = q /\ Alive(q)
  BY DEF Unbroken, PathIsMine, TokenIsOwn, Alive
<1>2. dir.gen = seen[p].gen
  BY <1>1 DEF Break
<1>3. /\ seen[p].owner # None
      /\ SameHost(p, seen[p].owner)
  BY <1>1, <1>2 DEF Break
<1>4. seen[p].owner = dir.gen
  BY <1>2, <1>3 DEF Unbroken, OwnerIsCreator
<1>5. ~Alive(seen[p].owner.proc)
  BY <1>3 DEF Unbroken, VerdictHolds, Break, Goto
<1> QED
  BY <1>1, <1>4, <1>5
(* Every step that leaves broken empty keeps Unbroken.                      *)
LEMMA UnbrokenStep ==
  TypeOK /\ TokenIsOwn /\ Unbroken /\ [Next]_vars /\ broken' = {} => Unbroken'
<1> SUFFICES ASSUME TypeOK, TokenIsOwn, Unbroken, [Next]_vars, broken' = {}
             PROVE Unbroken'
  OBVIOUS
<1> USE NoneAssumption
    DEF TypeOK, TokenIsOwn, Unbroken, OwnerIsCreator, PathIsMine, VerdictHolds, Goto,
        Alive, SameHost
<1>1. ASSUME NEW p \in Proc, Mkdir(p) PROVE Unbroken'
  <2>1. PICK t \in Token : /\ dir' = [gen |-> t, owner |-> None, old |-> FALSE]
                           /\ mine' = [mine EXCEPT ![p] = t]
    BY <1>1 DEF Mkdir
  <2>2. \A q \in Proc : pc[q] \notin {"write", "held", "unlink", "rmdir"}
    BY <1>1 DEF Mkdir
  <2> QED
    BY <1>1, <2>1, <2>2 DEF Mkdir
<1>2. ASSUME NEW p \in Proc, WriteOwner(p) PROVE Unbroken'
  <2>1. \A q \in Proc : pc[q] \in {"write", "held", "unlink", "rmdir"} => q = p
    BY <1>2, OneUser DEF WriteOwner
  <2>2. dir' = [dir EXCEPT !.owner = mine[p], !.old = @ /\ dir.owner # None]
    BY <1>2 DEF WriteOwner
  <2>3. dir'.gen = mine[p] /\ dir'.owner = mine[p]
    BY <1>2, <2>2 DEF WriteOwner
  <2> QED
    BY <1>2, <2>1, <2>3 DEF WriteOwner
<1>3. ASSUME NEW p \in Proc, Break(p) PROVE Unbroken'
  <2>1. \A q \in Proc : pc[q] \notin {"write", "held", "unlink", "rmdir"}
    <3> HIDE DEF TypeOK, TokenIsOwn, Unbroken
    <3> QED
      BY <1>3, BreakIsSafe
  <2> QED
    BY <1>3, <2>1 DEF Break, NoDir, Unread
<1>4. ASSUME NEW p \in Proc, Unlink(p) PROVE Unbroken'
  <2>1. \A q \in Proc : pc[q] \in {"write", "held", "unlink", "rmdir"} => q = p
    BY <1>4, OneUser DEF Unlink
  <2>2. dir'.gen = dir.gen /\ dir'.owner = None
    BY <1>4 DEF Unlink
  <2> QED
    BY <1>4, <2>1, <2>2 DEF Unlink
<1>5. ASSUME NEW p \in Proc, Rmdir(p) PROVE Unbroken'
  <2>1. \A q \in Proc : pc[q] \in {"write", "held", "unlink", "rmdir"} => q = p
    BY <1>5, OneUser DEF Rmdir
  <2> QED
    BY <1>5, <2>1 DEF Rmdir, NoDir
<1>6. ASSUME NEW p \in Proc, Start(p) PROVE Unbroken'
  BY <1>6 DEF Start
<1>7. ASSUME NEW p \in Proc, MkdirExists(p) PROVE Unbroken'
  BY <1>7 DEF MkdirExists
<1>8. ASSUME NEW p \in Proc, WriteFails(p) PROVE Unbroken'
  BY <1>8 DEF WriteFails
<1>9. ASSUME NEW p \in Proc, ReadOwner(p) PROVE Unbroken'
  BY <1>9 DEF ReadOwner
<1>10. ASSUME NEW p \in Proc, JudgeGone(p) PROVE Unbroken'
  BY <1>10 DEF JudgeGone, Unread
<1>11. ASSUME NEW p \in Proc, JudgeStale(p) PROVE Unbroken'
  BY <1>11 DEF JudgeStale, IsStale
<1>12. ASSUME NEW p \in Proc, JudgeLive(p) PROVE Unbroken'
  BY <1>12 DEF JudgeLive, Unread
<1>13. ASSUME NEW p \in Proc, Retry(p) PROVE Unbroken'
  BY <1>13 DEF Retry
<1>14. ASSUME NEW p \in Proc, GiveUp(p) PROVE Unbroken'
  BY <1>14 DEF GiveUp
<1>15. ASSUME NEW p \in Proc, UnlinkGone(p) PROVE Unbroken'
  BY <1>15 DEF UnlinkGone
<1>16. ASSUME NEW p \in Proc, Release(p) PROVE Unbroken'
  BY <1>16 DEF Release
<1>17. ASSUME NEW p \in Proc, ReleaseLost(p) PROVE Unbroken'
  BY <1>17 DEF ReleaseLost
<1>18. ASSUME NEW p \in Proc, Crash(p) PROVE Unbroken'
  BY <1>18 DEF Crash, Unread
<1>19. CASE GrowOld \/ UNCHANGED vars
  BY <1>19 DEF GrowOld, vars
<1> HIDE DEF TypeOK, TokenIsOwn, Unbroken, OwnerIsCreator, PathIsMine, VerdictHolds, Goto,
        Alive, SameHost
<1> QED
  BY <1>1, <1>2, <1>3, <1>4, <1>5, <1>6, <1>7, <1>8, <1>9, <1>10,
     <1>11, <1>12, <1>13, <1>14, <1>15, <1>16, <1>17, <1>18, <1>19
  DEF Next, Step

LEMMA BrokenGrows == TypeOK /\ [Next]_vars => broken \subseteq broken'
BY DEF Next, Step, vars, Mkdir, MkdirExists, WriteOwner, WriteFails, ReadOwner, JudgeGone,
   JudgeStale, JudgeLive, Break, Retry, GiveUp, UnlinkGone, Unlink, Rmdir, Start, Release,
   ReleaseLost, Crash, GrowOld

(* Every variable keeps its type.                                           *)
THEOREM TypeCorrect == Spec => []TypeOK
<1>1. Init => TypeOK
  BY InitIInv DEF IInv
<1> QED
  BY <1>1, TypeStep, PTL DEF Spec

(* The strengthening of the two properties below is inductive.              *)
THEOREM InductiveInvariant == Spec => []IInv
<1>1. IInv /\ [Next]_vars => IInv'
  BY TypeStep, TokenStep, UnbrokenStep, BrokenGrows DEF IInv
<1> QED
  BY InitIInv, <1>1, PTL DEF Spec

(* lock.ts: a live holder keeps its directory and its owner.json as long as *)
(* no break took a directory it had not judged and no holder outstayed the  *)
(* limit for locks whose owner cannot be probed.                            *)
THEOREM HolderKeepsLock == Spec => []LiveLockKept
<1>1. IInv => LiveLockKept
  BY DEF IInv, Unbroken, PathIsMine, LiveLockKept, Holds
<1> QED
  BY <1>1, InductiveInvariant, PTL

(* lock.ts: under the same condition two processes never hold the lock.     *)
THEOREM Exclusion == Spec => []ExclusionUnlessBroken
<1>1. IInv => ExclusionUnlessBroken
  <2> SUFFICES ASSUME IInv, broken = {}, NEW p \in Proc, NEW q \in Proc,
                      Holds(p), Holds(q)
               PROVE  p = q
    BY DEF ExclusionUnlessBroken, MutualExclusion
  <2> QED
    BY OneUser DEF IInv, Holds
<1> QED
  BY <1>1, InductiveInvariant, PTL
------------------------------------------------------------------------------
(* What the service sees of a state.                                        *)
Owner == IF dir.gen = None THEN None ELSE dir.gen.proc
Granted == {p \in Proc : Holds(p)}
Dead == {p \in Proc : ~Alive(p)}

(* As long as nothing is broken, whoever is between mkdir and the end of    *)
(* its release owns the lock, and so nobody else has been granted it.       *)
LEMMA OwnerOf ==
  ASSUME TypeOK, TokenIsOwn, Unbroken, NEW p \in Proc,
         pc[p] \in {"write", "held", "unlink", "rmdir"}
  PROVE  Owner = p /\ Granted \subseteq {p} /\ p \notin Dead
<1>1. dir.gen = mine[p] /\ mine[p] # None /\ mine[p].proc = p
  BY DEF TokenIsOwn, Unbroken, PathIsMine
<1>2. \A q \in Proc : Holds(q) => q = p
  BY OneUser DEF Holds
<1> QED
  BY <1>1, <1>2 DEF Owner, Granted, Dead, Alive

(* The owner is a process.                                                  *)
LEMMA OwnerType == TypeOK => Owner \in Proc \cup {None} /\ (Owner = None <=> dir.gen = None)
  BY NoneAssumption DEF TypeOK, Owner, Token

(* Every step of EntryLock that breaks nothing is a step of the service or  *)
(* none: the lock is taken with mkdir, granted with the owner record, and   *)
(* vacated when the directory goes, by a release, a failure or a break.     *)
LEMMA ServiceStep ==
  ASSUME TypeOK, TypeOK', TokenIsOwn, Unbroken, [Next]_vars, broken = {}, broken' = {}
  PROVE  [Service!Next]_(Service!vars)
<1>1. ASSUME Owner' = Owner, Granted' = Granted, Dead' = Dead PROVE UNCHANGED Service!vars
  BY <1>1 DEF Service!vars, Owner, Granted, Dead
<1>2. ASSUME Owner # None, Owner \notin Granted, Owner' = None, Granted' = Granted, Dead' = Dead
      PROVE  Service!Next
  BY <1>2 DEF Service!Next, Service!Vacate, Owner, Granted, Dead
<1>3. ASSUME NEW p \in Proc, Mkdir(p) PROVE Service!Next
  <2>1. PICK t \in Token : t.proc = p /\ dir' = [gen |-> t, owner |-> None, old |-> FALSE]
    BY <1>3 DEF Mkdir
  <2>2. Owner = None /\ Owner' = p
    BY <1>3, <2>1, NoneAssumption DEF Mkdir, Owner
  <2>3. p \notin Dead /\ Granted' = Granted /\ Dead' = Dead
    BY <1>3 DEF Mkdir, Goto, Granted, Dead, Holds, Alive, TypeOK
  <2>4. Service!Take(p)
    BY <2>2, <2>3 DEF Service!Take, Owner, Granted, Dead
  <2> QED
    BY <2>4 DEF Service!Next
<1>4. ASSUME NEW p \in Proc, WriteOwner(p) PROVE Service!Next
  <2>1. Owner = p /\ p \notin Dead
    BY <1>4, OwnerOf DEF WriteOwner, Goto
  <2>2. Owner' = Owner
    BY <1>4 DEF WriteOwner, Owner, TypeOK
  <2>3. Granted' = Granted \cup {p} /\ Dead' = Dead
    BY <1>4 DEF WriteOwner, Goto, Granted, Dead, Holds, Alive, TypeOK
  <2>4. Service!Grant(p)
    BY <2>1, <2>2, <2>3 DEF Service!Grant, Owner, Granted, Dead
  <2> QED
    BY <2>4 DEF Service!Next
<1>5. ASSUME NEW p \in Proc, Release(p) PROVE Service!Next
  <2>1. p \in Granted /\ Granted' = Granted \ {p} /\ Dead' = Dead
    BY <1>5 DEF Release, Goto, Granted, Dead, Holds, Alive, TypeOK
  <2>2. Owner' = Owner
    BY <1>5 DEF Release, Owner
  <2>3. Service!Release(p)
    BY <2>1, <2>2 DEF Service!Release, Owner, Granted, Dead
  <2> QED
    BY <2>3 DEF Service!Next
<1>6. ASSUME NEW p \in Proc, Crash(p) PROVE Service!Next
  <2>1. p \notin Dead /\ Granted' = Granted \ {p} /\ Dead' = Dead \cup {p}
    BY <1>6 DEF Crash, Granted, Dead, Holds, Alive, TypeOK
  <2>2. Owner' = Owner
    BY <1>6 DEF Crash, Owner
  <2>3. Service!Die(p)
    BY <2>1, <2>2 DEF Service!Die, Owner, Granted, Dead
  <2> QED
    BY <2>3 DEF Service!Next
<1>7. ASSUME NEW p \in Proc, Break(p) PROVE [Service!Next]_(Service!vars)
  <2>1. Owner' = None /\ Granted' = Granted /\ Dead' = Dead
    BY <1>7 DEF Break, Goto, NoDir, Owner, Granted, Dead, Holds, Alive, TypeOK
  <2>2. Granted = {}
    BY <1>7, BreakIsSafe DEF Granted, Holds
  <2> QED
    BY <1>1, <1>2, <2>1, <2>2
<1>8. ASSUME NEW p \in Proc, Rmdir(p) PROVE Service!Next
  <2>1. Owner = p /\ Granted \subseteq {p} /\ p \notin Granted
    BY <1>8, OwnerOf DEF Rmdir, Goto, Granted, Holds
  <2>2. dir.owner = None /\ p # None
    BY <1>8, NoneAssumption DEF Rmdir, Goto, Unbroken, PathIsMine
  <2>3. Owner' = None /\ Granted' = Granted /\ Dead' = Dead
    BY <1>8, <2>2 DEF Rmdir, Goto, NoDir, Owner, Granted, Dead, Holds, Alive, TypeOK
  <2> QED
    BY <1>2, <2>1, <2>2, <2>3
<1>9. ASSUME NEW p \in Proc, ReleaseLost(p) PROVE FALSE
  BY <1>9 DEF ReleaseLost, Goto, Unbroken, PathIsMine
<1>10. ASSUME NEW p \in Proc,
              \/ Start(p) \/ MkdirExists(p) \/ WriteFails(p) \/ ReadOwner(p) \/ JudgeGone(p)
              \/ JudgeStale(p) \/ JudgeLive(p) \/ Retry(p) \/ GiveUp(p) \/ UnlinkGone(p) \/ Unlink(p)
       PROVE  UNCHANGED Service!vars
  <2>1. dir'.gen = dir.gen
    BY <1>10 DEF Start, MkdirExists, WriteFails, ReadOwner, JudgeGone, JudgeStale, JudgeLive,
       Retry, GiveUp, UnlinkGone, Unlink, TypeOK
  <2>2. \E s, t \in Phase \ {"held", "dead"} : Goto(p, s, t)
    BY <1>10 DEF Start, MkdirExists, ReadOwner, JudgeGone, JudgeStale, JudgeLive,
       Retry, GiveUp, UnlinkGone, Unlink, WriteFails, Phase, Trying
  <2>3. Granted' = Granted /\ Dead' = Dead
    BY <2>2 DEF Goto, Granted, Dead, Holds, Alive, TypeOK
  <2> QED
    BY <1>1, <2>1, <2>3 DEF Owner
<1>11. CASE GrowOld \/ UNCHANGED vars
  <2>1. dir'.gen = dir.gen /\ pc' = pc
    BY <1>11 DEF GrowOld, vars, TypeOK
  <2>2. Owner' = Owner /\ Granted' = Granted /\ Dead' = Dead
    BY <2>1 DEF Owner, Granted, Dead, Holds, Alive
  <2> QED
    BY <1>1, <2>2
<1> QED
  BY <1>3, <1>4, <1>5, <1>6, <1>7, <1>8, <1>9, <1>10, <1>11 DEF Next, Step

(* lock.ts: for whoever works under it, the lock is LockService until a     *)
(* live process has lost its directory: taken by one, granted to none but   *)
(* its owner, vacated only by its owner or after its owner's death.         *)
THEOREM Refinement == Spec => ImplementsService
<1>1. Init => Service!Init
  BY DEF Init, NoDir, Holds, Alive, Service!Init
<1>2. IInv /\ IInv' /\ [Next]_vars => [Service!Next]_(Service!vars)
  <2> SUFFICES ASSUME IInv, IInv', [Next]_vars PROVE [Service!Next]_(Service!vars)
    OBVIOUS
  <2>1. broken \subseteq broken' /\ TypeOK /\ TypeOK'
    BY BrokenGrows DEF IInv
  <2>2. CASE broken' # {}
    <3>1. Owner' \in Proc \cup {None}
      BY <2>1, OwnerType DEF TypeOK, Owner, Token
    <3>2. Granted' \subseteq Proc /\ Dead' \subseteq Proc
      BY DEF Granted, Dead
    <3>3. Service!Anything
      BY <2>2, <3>1, <3>2 DEF Service!Anything, Owner, Granted, Dead
    <3> QED
      BY <3>3 DEF Service!Next
  <2>3. CASE broken' = {}
    BY <2>1, <2>3, ServiceStep DEF IInv
  <2> QED
    BY <2>2, <2>3
<1> QED
  BY <1>1, <1>2, InductiveInvariant, PTL DEF Spec, ImplementsService, Service!Spec

(* LockService: what those who rely on the service want of it. While the    *)
(* lock has not gone wrong it belongs to whoever it is granted to, who is   *)
(* alive; so there is one at most.                                          *)
THEOREM ServiceExcludes == ImplementsService => []Service!Excludes
<1>1. Service!Init => Service!Excludes
  BY DEF Service!Init, Service!Excludes
<1>2. Service!Excludes /\ [Service!Next]_(Service!vars) => Service!Excludes'
  BY NoneAssumption DEF Service!Excludes, Service!Next, Service!vars, Service!Take,
     Service!Grant, Service!Release, Service!Vacate, Service!Die, Service!Anything
<1> QED
  BY <1>1, <1>2, PTL DEF ImplementsService, Service!Spec
==============================================================================
