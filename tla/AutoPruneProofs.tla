--------------------------- MODULE AutoPruneProofs ---------------------------
(****************************************************************************)
(* Theorems about AutoPrune for any number of processes and policies, any   *)
(* throttle and any clock. The argument: whoever is between acquiring and   *)
(* releasing has the lock, so that what a claim was decided upon is still   *)
(* so when it is written; and of a policy that nothing has lifted, the      *)
(* marker is the latest claim.                                              *)
(****************************************************************************)
EXTENDS AutoPrune, TLAPS

LockHeld == \A p \in Proc : pc[p] \in Holding => lock = p

(* The marker is the latest claim of a policy whose throttle is in force.   *)
MarkerIsLatest ==
  \A d \in Policy : latest[d] # None /\ d \notin lifted =>
    marker # None /\ marker.policy = d /\ marker.at = latest[d]

(* The decision to claim still holds when the claim is written.             *)
DecisionHolds == \A p \in Proc : pc[p] = "write" => ~Throttled(p)

(* Whoever is at work was called with a policy.                             *)
CallKept == \A p \in Proc : pc[p] \notin {"idle", "dead"} => my[p].policy \in Policy

IInv == TypeOK /\ CallKept /\ LockHeld /\ MarkerIsLatest /\ DecisionHolds /\ MarkerBacked

LEMMA InitIInv == Init => IInv
  BY BoundAssumption DEF Init, IInv, TypeOK, CallKept, LockHeld, MarkerIsLatest,
     DecisionHolds, MarkerBacked, Time, Blank, Phase, Holding, Undoing

LEMMA CallStep == TypeOK /\ CallKept /\ [Next]_vars => CallKept'
<1> SUFFICES ASSUME TypeOK, CallKept, [Next]_vars PROVE CallKept'
  OBVIOUS
<1> USE DEF TypeOK, CallKept, Goto, Ends
<1>1. ASSUME NEW p \in Proc, NEW d \in Policy, NEW f \in BOOLEAN, Call(p, d, f)
      PROVE  CallKept'
  BY <1>1 DEF Call
<1>2. ASSUME NEW p \in Proc, Acquire(p) \/ Refuse(p) \/ Go(p) \/ GoUnread(p)
      PROVE  CallKept'
  BY <1>2 DEF Acquire, Refuse, Go, GoUnread
<1>3. ASSUME NEW p \in Proc, AcquireFails(p) \/ Prune(p) \/ UndoGivesUp(p)
      PROVE  CallKept'
  BY <1>3 DEF AcquireFails, Prune, UndoGivesUp
<1>4. ASSUME NEW p \in Proc, Busy(p) PROVE CallKept'
  BY <1>4 DEF Busy
<1>5. ASSUME NEW p \in Proc, Write(p) PROVE CallKept'
  <2>1. my[p].policy \in Policy /\ my'[p].policy = my[p].policy
    BY <1>5 DEF Write
  <2>2. \A q \in Proc : q # p => pc'[q] = pc[q] /\ my'[q] = my[q]
    BY <1>5 DEF Write
  <2> QED
    BY <2>1, <2>2
<1>6. ASSUME NEW p \in Proc, WriteFails(p) PROVE CallKept'
  BY <1>6 DEF WriteFails
<1>7. ASSUME NEW p \in Proc, Release(p) PROVE CallKept'
  <2>1. CASE Goto(p, "claimed", "prune") /\ UNCHANGED my
    BY <2>1
  <2>2. CASE Ends(p, "refused")
    BY <2>2
  <2>3. CASE Ends(p, "undone")
    BY <2>3
  <2> QED
    BY <1>7, <2>1, <2>2, <2>3 DEF Release
<1>8. ASSUME NEW p \in Proc, ReleaseFails(p) PROVE CallKept'
  BY <1>8 DEF ReleaseFails
<1>9. ASSUME NEW p \in Proc, PruneFails(p) PROVE CallKept'
  <2>1. CASE Goto(p, "prune", "undo") /\ UNCHANGED my
    BY <2>1
  <2>2. CASE Ends(p, "prune")
    BY <2>2
  <2> QED
    BY <1>9, <2>1, <2>2 DEF PruneFails
<1>10. ASSUME NEW p \in Proc, UndoAcquire(p) \/ NotMine(p) \/ Rollback(p) \/ RollbackFails(p)
       PROVE  CallKept'
  BY <1>10 DEF UndoAcquire, NotMine, Rollback, RollbackFails
<1>11. ASSUME NEW p \in Proc, Crash(p) PROVE CallKept'
  BY <1>11 DEF Crash
<1>12. CASE Tick \/ UNCHANGED vars
  BY <1>12 DEF Tick, vars
<1> HIDE DEF TypeOK, CallKept, Goto, Ends
<1> QED
  BY <1>1, <1>2, <1>3, <1>4, <1>5, <1>6, <1>7, <1>8, <1>9, <1>10, <1>11, <1>12
  DEF Next, Step

LEMMA TypeStep == TypeOK /\ CallKept /\ [Next]_vars => TypeOK'
<1> SUFFICES ASSUME TypeOK, CallKept, [Next]_vars PROVE TypeOK'
  OBVIOUS
<1> USE BoundAssumption
    DEF TypeOK, Goto, Ends, Blank, Phase, Holding, Undoing, history, Abandoned
<1>1. ASSUME NEW p \in Proc, NEW d \in Policy, NEW f \in BOOLEAN, Call(p, d, f) PROVE TypeOK'
  BY <1>1 DEF Call
<1>2. ASSUME NEW p \in Proc, Acquire(p) PROVE TypeOK'
  BY <1>2 DEF Acquire
<1>3. ASSUME NEW p \in Proc, AcquireFails(p) PROVE TypeOK'
  BY <1>3 DEF AcquireFails, Time
<1>4. ASSUME NEW p \in Proc, Busy(p) PROVE TypeOK'
  <2>1. CASE Goto(p, "claim", "prune") /\ UNCHANGED my
    BY <1>4, <2>1 DEF Busy
  <2>2. CASE Ends(p, "claim")
    BY <1>4, <2>2 DEF Busy, Time
  <2> QED
    BY <1>4, <2>1, <2>2 DEF Busy
<1>5. ASSUME NEW p \in Proc, Refuse(p) \/ Go(p) \/ GoUnread(p) \/ WriteFails(p) PROVE TypeOK'
  BY <1>5 DEF Refuse, Go, GoUnread, WriteFails
<1>6. ASSUME NEW p \in Proc, Write(p) PROVE TypeOK'
  <2> DEFINE claim == [attempt |-> p, policy |-> my[p].policy, at |-> my[p].at]
  <2>1. claim \in Claim
    BY <1>6 DEF Write, Claim, CallKept
  <2>2. claim.policy \in Policy /\ claim.at \in Time
    BY <2>1 DEF Claim
  <2>3. marker' = claim /\ my' = [my EXCEPT ![p].claim = claim]
    BY <1>6 DEF Write
  <2>4. latest' = [latest EXCEPT ![claim.policy] =
                     IF @ = None \/ @ < claim.at THEN claim.at ELSE @]
    BY <1>6 DEF Write
  <2>5. my' \in [Proc -> [policy : Policy \cup {None}, force : BOOLEAN, at : Time,
                         claim : Claim \cup {None}]]
    BY <2>1, <2>3
  <2>6. latest' \in [Policy -> Time \cup {None}]
    BY <2>2, <2>4
  <2>7. lifted' \subseteq Policy /\ pc' = [pc EXCEPT ![p] = "claimed"] /\ fate' = "open"
        /\ UNCHANGED <<now, lock>>
    BY <1>6 DEF Write
  <2> QED
    BY <2>1, <2>3, <2>5, <2>6, <2>7
<1>7. ASSUME NEW p \in Proc, Release(p) PROVE TypeOK'
  <2>1. CASE Goto(p, "claimed", "prune") /\ UNCHANGED my
    BY <1>7, <2>1 DEF Release
  <2>2. CASE Ends(p, "refused")
    BY <1>7, <2>2 DEF Release, Time
  <2>3. CASE Ends(p, "undone")
    BY <1>7, <2>3 DEF Release, Time
  <2> QED
    BY <1>7, <2>1, <2>2, <2>3 DEF Release
<1>8. ASSUME NEW p \in Proc, ReleaseFails(p) PROVE TypeOK'
  BY <1>8 DEF ReleaseFails, Time
<1>9. ASSUME NEW p \in Proc, Prune(p) PROVE TypeOK'
  BY <1>9 DEF Prune, Time
<1>10. ASSUME NEW p \in Proc, PruneFails(p) PROVE TypeOK'
  <2>1. CASE Goto(p, "prune", "undo") /\ UNCHANGED my
    BY <1>10, <2>1 DEF PruneFails
  <2>2. CASE Ends(p, "prune")
    BY <1>10, <2>2 DEF PruneFails, Time
  <2> QED
    BY <1>10, <2>1, <2>2 DEF PruneFails
<1>11. ASSUME NEW p \in Proc, UndoAcquire(p) \/ NotMine(p) PROVE TypeOK'
  BY <1>11 DEF UndoAcquire, NotMine
<1>12. ASSUME NEW p \in Proc, UndoGivesUp(p) PROVE TypeOK'
  BY <1>12 DEF UndoGivesUp, Time
<1>13. ASSUME NEW p \in Proc, Rollback(p) PROVE TypeOK'
  BY <1>13 DEF Rollback, Mine, Claim
<1>14. ASSUME NEW p \in Proc, RollbackFails(p) PROVE TypeOK'
  BY <1>14 DEF RollbackFails
<1>15. ASSUME NEW p \in Proc, Crash(p) PROVE TypeOK'
  BY <1>15 DEF Crash, Time
<1>16. CASE Tick
  BY <1>16 DEF Tick, Time
<1>17. CASE UNCHANGED vars
  BY <1>17 DEF vars
<1> HIDE DEF TypeOK, Goto, Ends, Blank, Phase, Holding, Undoing, history, Abandoned
<1> QED
  BY <1>1, <1>2, <1>3, <1>4, <1>5, <1>6, <1>7, <1>8, <1>9, <1>10, <1>11, <1>12,
     <1>13, <1>14, <1>15, <1>16, <1>17 DEF Next, Step

(* The lock changes hands only when its holder has released it or died.     *)
LEMMA LockStep == TypeOK /\ LockHeld /\ [Next]_vars => LockHeld'
<1> SUFFICES ASSUME TypeOK, LockHeld, [Next]_vars PROVE LockHeld'
  OBVIOUS
<1> USE DEF TypeOK, LockHeld, Holding, Goto, Ends
<1>1. ASSUME NEW p \in Proc, Acquire(p) \/ UndoAcquire(p) PROVE LockHeld'
  <2>1. Free /\ lock' = p
    BY <1>1 DEF Acquire, UndoAcquire
  <2>2. \A q \in Proc : pc[q] \notin Holding
    BY <2>1, NoneAssumption DEF Free
  <2>3. \A q \in Proc : q # p => pc'[q] = pc[q]
    BY <1>1 DEF Acquire, UndoAcquire
  <2> QED
    BY <2>1, <2>2, <2>3
<1>2. ASSUME NEW p \in Proc, Release(p) PROVE LockHeld'
  <2>1. pc[p] \in Holding /\ pc'[p] \notin Holding
    BY <1>2 DEF Release
  <2>2. \A q \in Proc : q # p => pc'[q] = pc[q] /\ pc[q] \notin Holding
    BY <1>2, <2>1 DEF Release
  <2> QED
    BY <2>1, <2>2
<1>3. ASSUME NEW p \in Proc, NEW d \in Policy, NEW f \in BOOLEAN, Call(p, d, f)
      PROVE  LockHeld'
  BY <1>3 DEF Call
<1>4. ASSUME NEW p \in Proc,
             \/ Refuse(p) \/ Go(p) \/ GoUnread(p) \/ WriteFails(p)
             \/ Rollback(p) \/ NotMine(p) \/ RollbackFails(p)
      PROVE  LockHeld'
  BY <1>4 DEF Refuse, Go, GoUnread, WriteFails, Rollback, NotMine, RollbackFails
<1>5. ASSUME NEW p \in Proc,
             AcquireFails(p) \/ ReleaseFails(p) \/ Prune(p) \/ UndoGivesUp(p)
      PROVE  LockHeld'
  BY <1>5 DEF AcquireFails, ReleaseFails, Prune, UndoGivesUp
<1>6. ASSUME NEW p \in Proc, Busy(p) \/ PruneFails(p) PROVE LockHeld'
  <2>1. pc'[p] \notin Holding /\ lock' = lock
    BY <1>6 DEF Busy, PruneFails
  <2>2. \A q \in Proc : q # p => pc'[q] = pc[q]
    BY <1>6 DEF Busy, PruneFails
  <2> QED
    BY <2>1, <2>2
<1>7. ASSUME NEW p \in Proc, Write(p) PROVE LockHeld'
  BY <1>7 DEF Write
<1>8. ASSUME NEW p \in Proc, Crash(p) PROVE LockHeld'
  BY <1>8 DEF Crash
<1>9. CASE Tick \/ UNCHANGED vars
  BY <1>9 DEF Tick, vars
<1> HIDE DEF TypeOK, LockHeld, Holding, Goto, Ends
<1> QED
  BY <1>1, <1>2, <1>3, <1>4, <1>5, <1>6, <1>7, <1>8, <1>9 DEF Next, Step

(* Only a claim and a rollback touch the marker and what is remembered of   *)
(* the claims.                                                              *)
Steady == UNCHANGED <<marker, latest, lifted>>

LEMMA OthersAreSteady ==
  ASSUME TypeOK, [Next]_vars, ~\E p \in Proc : Write(p) \/ Rollback(p)
  PROVE  Steady
<1> USE DEF Steady, history
<1>1. ASSUME NEW p \in Proc, NEW d \in Policy, NEW f \in BOOLEAN, Call(p, d, f) PROVE Steady
  BY <1>1 DEF Call
<1>2. ASSUME NEW p \in Proc, Crash(p) PROVE Steady
  BY <1>2 DEF Crash
<1>3. ASSUME NEW p \in Proc, Step(p), ~Write(p), ~Rollback(p) PROVE Steady
  BY <1>3 DEF Step, Acquire, Busy, AcquireFails, Refuse, Go, GoUnread, WriteFails,
     Release, ReleaseFails, Prune, PruneFails, UndoAcquire, UndoGivesUp, NotMine,
     RollbackFails
<1>4. CASE Tick \/ UNCHANGED vars
  BY <1>4 DEF Tick, vars
<1> QED
  BY <1>1, <1>2, <1>3, <1>4 DEF Next

LEMMA LatestStep ==
  TypeOK /\ CallKept /\ MarkerIsLatest /\ [Next]_vars => MarkerIsLatest'
<1> SUFFICES ASSUME TypeOK, CallKept, MarkerIsLatest, [Next]_vars PROVE MarkerIsLatest'
  OBVIOUS
<1>1. ASSUME NEW p \in Proc, Write(p) PROVE MarkerIsLatest'
  <2> DEFINE claim == [attempt |-> p, policy |-> my[p].policy, at |-> my[p].at]
  <2>1. claim.policy \in Policy /\ claim.at \in Time
    BY <1>1 DEF Write, Goto, CallKept, TypeOK
  <2>2. marker' = claim /\ lifted' = {e \in Policy : e # claim.policy
                                             \/ latest'[claim.policy] # claim.at}
    BY <1>1 DEF Write
  <2>3. \A d \in Policy : d \notin lifted' => d = claim.policy /\ latest'[d] = claim.at
    BY <2>2
  <2>4. marker' # None
    BY <1>1, <2>1, <2>2, NoneAssumption DEF Claim
  <2> QED
    BY <2>2, <2>3, <2>4 DEF MarkerIsLatest
<1>2. ASSUME NEW p \in Proc, Rollback(p) PROVE MarkerIsLatest'
  BY <1>2 DEF Rollback, MarkerIsLatest
<1>3. CASE ~\E p \in Proc : Write(p) \/ Rollback(p)
  BY <1>3, OthersAreSteady DEF Steady, MarkerIsLatest
<1> QED
  BY <1>1, <1>2, <1>3

(* What a claim was decided upon is still so when it is written: no other   *)
(* process that could change it has the lock.                               *)
LEMMA DecisionStep ==
  TypeOK /\ LockHeld /\ DecisionHolds /\ [Next]_vars => DecisionHolds'
<1> SUFFICES ASSUME TypeOK, LockHeld, DecisionHolds, [Next]_vars,
                    NEW p \in Proc, pc'[p] = "write"
             PROVE  ~Throttled(p)'
  BY DEF DecisionHolds
<1>1. CASE pc[p] # "write"
  <2> USE DEF TypeOK, Goto, Ends
  <2>1. ASSUME NEW q \in Proc, Step(q), ~Go(q) PROVE pc'[p] # "write"
    BY <1>1, <2>1 DEF Step, Acquire, Busy, AcquireFails, Refuse, GoUnread, Write,
       WriteFails, Release, ReleaseFails, Prune, PruneFails, UndoAcquire, UndoGivesUp,
       Rollback, NotMine, RollbackFails
  <2>2. ASSUME NEW q \in Proc, NEW d \in Policy, NEW f \in BOOLEAN, Call(q, d, f)
        PROVE  pc'[p] # "write"
    BY <1>1, <2>2 DEF Call
  <2>3. ASSUME NEW q \in Proc, Crash(q) PROVE pc'[p] # "write"
    BY <1>1, <2>3 DEF Crash
  <2>4. ~(Tick \/ UNCHANGED vars)
    BY <1>1 DEF Tick, vars
  <2>5. PICK q \in Proc : Go(q)
    BY <2>1, <2>2, <2>3, <2>4 DEF Next
  <2> QED
    BY <1>1, <2>5 DEF Go, Throttled
<1>2. CASE pc[p] = "write"
  <2>1. my'[p] = my[p]
    BY <1>2 DEF Next, Step, TypeOK, Goto, Ends, vars, Call, Acquire, Busy, AcquireFails,
       Refuse, Go, GoUnread, Write, WriteFails, Release, ReleaseFails, Prune, PruneFails,
       UndoAcquire, UndoGivesUp, Rollback, NotMine, RollbackFails, Crash, Tick
  <2>2. ASSUME NEW q \in Proc, Write(q) PROVE FALSE
    BY <1>2, <2>2 DEF Write, Goto, LockHeld, Holding, TypeOK
  <2>3. ASSUME NEW q \in Proc, Rollback(q) PROVE ~Throttled(p)'
    BY <2>3 DEF Rollback, Throttled
  <2>4. CASE ~\E q \in Proc : Write(q) \/ Rollback(q)
    BY <1>2, <2>1, <2>4, OthersAreSteady DEF Steady, DecisionHolds, Throttled
  <2> QED
    BY <2>2, <2>3, <2>4
<1> QED
  BY <1>1, <1>2

(* A claim whose prune has failed and that is still the marker is in the    *)
(* hands of whoever made it.                                                *)
LEMMA BackedStep == TypeOK /\ MarkerBacked /\ [Next]_vars => MarkerBacked'
<1> SUFFICES ASSUME TypeOK, MarkerBacked, [Next]_vars, marker' # None, fate' = "failed"
             PROVE  \E p \in Proc : pc'[p] \in Undoing /\ my'[p].claim = marker'
  BY DEF MarkerBacked
<1> DEFINE Goal == \E p \in Proc : pc'[p] \in Undoing /\ my'[p].claim = marker'
<1> USE DEF TypeOK, MarkerBacked, Undoing, Goto, Ends, history
<1>1. ASSUME NEW p \in Proc, NEW d \in Policy, NEW f \in BOOLEAN, Call(p, d, f) PROVE Goal
  BY <1>1 DEF Call
<1>2. ASSUME NEW p \in Proc, Acquire(p) \/ Refuse(p) \/ Go(p) \/ GoUnread(p) \/ WriteFails(p)
      PROVE  Goal
  BY <1>2 DEF Acquire, Refuse, Go, GoUnread, WriteFails
<1>3. ASSUME NEW p \in Proc, AcquireFails(p) \/ Prune(p) PROVE Goal
  BY <1>3 DEF AcquireFails, Prune
<1>4. ASSUME NEW p \in Proc, Busy(p) PROVE Goal
  <2>1. pc[p] = "claim" /\ UNCHANGED <<marker, fate>>
    BY <1>4 DEF Busy
  <2>2. \A q \in Proc : q # p => pc'[q] = pc[q] /\ my'[q] = my[q]
    BY <1>4 DEF Busy
  <2> QED
    BY <2>1, <2>2
<1>5. ASSUME NEW p \in Proc, Release(p) PROVE Goal
  <2>1. pc[p] \notin Undoing /\ UNCHANGED <<marker, fate>>
    BY <1>5 DEF Release
  <2>2. \A q \in Proc : q # p => pc'[q] = pc[q] /\ my'[q] = my[q]
    BY <1>5 DEF Release
  <2> QED
    BY <2>1, <2>2
<1>6. ASSUME NEW p \in Proc, PruneFails(p) PROVE Goal
  <2>1. \A q \in Proc : q # p => pc'[q] = pc[q] /\ my'[q] = my[q]
    BY <1>6 DEF PruneFails
  <2>2. pc[p] = "prune" /\ marker' = marker
    BY <1>6 DEF PruneFails
  <2>3. CASE Mine(p)
    <3>1. my[p].claim # None /\ my[p].claim = marker
      BY <2>3 DEF Mine
    <3>2. Goto(p, "prune", "undo") /\ UNCHANGED my
      BY <1>6, <3>1 DEF PruneFails
    <3> QED
      BY <2>2, <3>1, <3>2
  <2>4. CASE ~Mine(p)
    <3>1. fate' = fate
      BY <1>6, <2>4 DEF PruneFails
    <3> QED
      BY <2>1, <2>2, <3>1
  <2> QED
    BY <2>3, <2>4
<1>7. ASSUME NEW p \in Proc,
             ReleaseFails(p) \/ UndoGivesUp(p) \/ RollbackFails(p) \/ Crash(p) \/ NotMine(p)
      PROVE  Goal
  <2>1. ~Mine(p) /\ fate' = fate /\ marker' = marker
    BY <1>7 DEF ReleaseFails, UndoGivesUp, RollbackFails, Crash, NotMine, Abandoned
  <2>2. \A q \in Proc : q # p => pc'[q] = pc[q] /\ my'[q] = my[q]
    BY <1>7 DEF ReleaseFails, UndoGivesUp, RollbackFails, Crash, NotMine
  <2> QED
    BY <2>1, <2>2 DEF Mine
<1>8. ASSUME NEW p \in Proc, UndoAcquire(p) PROVE Goal
  BY <1>8 DEF UndoAcquire
<1>9. ASSUME NEW p \in Proc, Write(p) \/ Rollback(p) PROVE Goal
  BY <1>9 DEF Write, Rollback
<1>10. CASE Tick \/ UNCHANGED vars
  BY <1>10 DEF Tick, vars
<1> HIDE DEF TypeOK, MarkerBacked, Undoing, Goto, Ends, history
<1> QED
  BY <1>1, <1>2, <1>3, <1>4, <1>5, <1>6, <1>7, <1>8, <1>9, <1>10 DEF Next, Step
------------------------------------------------------------------------------
(* The strengthened invariant holds, for any processes, policies and bounds.*)
THEOREM InductiveInvariant == Spec => []IInv
<1>1. IInv /\ [Next]_vars => IInv'
  BY TypeStep, CallStep, LockStep, LatestStep, DecisionStep, BackedStep DEF IInv
<1> QED
  BY InitIInv, <1>1, PTL DEF Spec

(* Every variable keeps its type.                                           *)
THEOREM TypeCorrect == Spec => []TypeOK
<1>1. IInv => TypeOK
  BY DEF IInv
<1> QED
  BY InductiveInvariant, <1>1, PTL

(* A marker whose prune has failed is about to be undone, unless that is    *)
(* impossible: a failed prune does not keep others from pruning.            *)
THEOREM FailureLeavesNoMarker == Spec => []MarkerBacked
<1>1. IInv => MarkerBacked
  BY DEF IInv
<1> QED
  BY InductiveInvariant, <1>1, PTL

(* No hit claims a prune within the throttle of the latest claim of its     *)
(* policy, whatever other processes claim and undo around it.               *)
THEOREM ThrottleHolds == Spec => ThrottleKept
<1> DEFINE Kept == \A p \in Proc :
             pc[p] = "write" /\ pc'[p] = "claimed" /\ ~my[p].force /\ WithinThrottle(p)
               => my[p].policy \in lifted
<1>1. IInv => Kept
  <2> SUFFICES ASSUME IInv, NEW p \in Proc, pc[p] = "write", ~my[p].force,
                      WithinThrottle(p), my[p].policy \notin lifted
               PROVE  FALSE
    OBVIOUS
  <2>1. my[p].policy \in Policy
    BY DEF IInv, CallKept
  <2>2. marker # None /\ marker.policy = my[p].policy /\ marker.at = latest[my[p].policy]
    BY <2>1 DEF IInv, MarkerIsLatest, WithinThrottle
  <2>3. Throttled(p)
    BY <2>2 DEF Throttled, WithinThrottle
  <2> QED
    BY <2>3 DEF IInv, DecisionHolds
<1>2. [](IInv) => [][Kept]_vars
  BY <1>1, PTL
<1> QED
  BY InductiveInvariant, <1>2 DEF ThrottleKept
=============================================================================
