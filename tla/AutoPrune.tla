------------------------------ MODULE AutoPrune ------------------------------
(****************************************************************************)
(* How often a provider prunes by itself: runAutomaticPrune of              *)
(* src/provider/maintenance.ts with the marker automatic-prune.json of      *)
(* src/cache/automatic-prune-state.ts, which providers of several processes *)
(* write, compare and remove under a lock of its own. The lock excludes     *)
(* here (EntryLock); one whose holder has died is free. What a prune does   *)
(* is CachePrune; here it ends well or throws.                              *)
(****************************************************************************)
EXTENDS Integers

CONSTANTS
  Proc,      \* processes that run the provider, one call at a time each
  Policy,    \* digests of the limits with which it may be configured
  Throttle,  \* AUTOMATIC_HIT_PRUNE_THROTTLE_MS
  MaxTime,   \* bound on the clock
  None

ASSUME BoundAssumption == Throttle \in Nat /\ MaxTime \in Nat
Time == 0..MaxTime

(* AutomaticPruneClaim. An attemptId is random: it stands here under the    *)
(* name of who drew it, who never has to tell it from an older one.         *)
Claim == [attempt : Proc, policy : Policy, at : Time]

ASSUME NoneAssumption == None \notin Proc \cup Policy \cup Claim

VARIABLES
  now,      \* Date.now()
  marker,   \* automatic-prune.json: the last claim, or None
  lock,     \* who has the lock of the marker
  pc,       \* what each call does next
  my,       \* what it was called with, its reading of the clock, its claim
  latest,   \* history: of each policy, the latest reading with which it was claimed
  lifted,   \* history: policies whose throttle a later event has lifted
  fate      \* history: what became of the prune that the marker stands for

vars == <<now, marker, lock, pc, my, latest, lifted, fate>>
history == <<latest, lifted, fate>>

Blank == [policy |-> None, force |-> FALSE, at |-> 0, claim |-> None]

Undoing == {"undo", "compare"}
Holding == {"decide", "refused", "write", "unread", "claimed", "compare", "undone"}
Phase == {"idle", "dead", "claim", "prune"} \cup Holding \cup Undoing

TypeOK ==
  /\ now \in Time
  /\ marker \in Claim \cup {None}
  /\ lock \in Proc \cup {None}
  /\ pc \in [Proc -> Phase]
  /\ my \in [Proc -> [policy : Policy \cup {None}, force : BOOLEAN, at : Time,
                      claim : Claim \cup {None}]]
  /\ latest \in [Policy -> Time \cup {None}]
  /\ lifted \subseteq Policy
  /\ fate \in {"open", "failed", "abandoned"}

Init ==
  /\ now = 0
  /\ marker = None
  /\ lock = None
  /\ pc = [p \in Proc |-> "idle"]
  /\ my = [p \in Proc |-> Blank]
  /\ latest = [d \in Policy |-> None]
  /\ lifted = {}
  /\ fate = "open"

------------------------------------------------------------------------------

Goto(p, from, to) ==
  /\ pc[p] = from
  /\ pc' = [pc EXCEPT ![p] = to]

(* The call ends, in whatever way.                                          *)
Ends(p, from) ==
  /\ Goto(p, from, "idle")
  /\ my' = [my EXCEPT ![p] = Blank]

(* acquireEntryLock breaks the lock of a dead process of its machine.       *)
Free == lock # None => pc[lock] = "dead"

Mine(p) == marker # None /\ my[p].claim = marker

(* Nobody will undo the claim of p any more, whatever became of its prune.  *)
Abandoned(p) == fate' = IF Mine(p) THEN "abandoned" ELSE fate

------------------------------------------------------------------------------
(* runAutomaticPrune, up to its claim. The clock is read before the lock is *)
(* waited for. A hit that was neither imported nor restored does not force. *)

Call(p, d, f) ==
  /\ Goto(p, "idle", "claim")
  /\ my' = [my EXCEPT ![p] = [policy |-> d, force |-> f, at |-> now, claim |-> None]]
  /\ UNCHANGED <<now, marker, lock, history>>

Acquire(p) ==
  /\ Free
  /\ Goto(p, "claim", "decide")
  /\ lock' = p
  /\ UNCHANGED <<now, marker, my, history>>

(* After 250 ms in vain whoever forces prunes all the same, unmarked.       *)
Busy(p) ==
  /\ ~Free
  /\ \/ my[p].force /\ Goto(p, "claim", "prune") /\ UNCHANGED my
     \/ ~my[p].force /\ Ends(p, "claim")
  /\ UNCHANGED <<now, marker, lock, history>>

AcquireFails(p) ==
  /\ Ends(p, "claim")
  /\ UNCHANGED <<now, marker, lock, history>>

(* A marker from the future, by this reading, does not count.               *)
Throttled(p) ==
  /\ ~my[p].force
  /\ marker # None
  /\ marker.policy = my[p].policy
  /\ my[p].at - marker.at \in 0..(Throttle - 1)

Refuse(p) ==
  /\ Throttled(p)
  /\ Goto(p, "decide", "refused")
  /\ UNCHANGED <<now, marker, lock, my, history>>

Go(p) ==
  /\ ~Throttled(p)
  /\ Goto(p, "decide", "write")
  /\ UNCHANGED <<now, marker, lock, my, history>>

(* readState answers null for whatever it cannot read.                      *)
GoUnread(p) ==
  /\ marker # None
  /\ Goto(p, "decide", "unread")
  /\ UNCHANGED <<now, marker, lock, my, history>>

(* The marker is replaced, so that other policies are throttled no more;    *)
(* neither is this one in full, when the reading is older than the marker's.*)
Write(p) ==
  LET claim == [attempt |-> p, policy |-> my[p].policy, at |-> my[p].at]
      d == claim.policy
  IN  /\ \E from \in {"write", "unread"} : Goto(p, from, "claimed")
      /\ marker' = claim
      /\ my' = [my EXCEPT ![p].claim = claim]
      /\ latest' = [latest EXCEPT ![d] = IF @ = None \/ @ < claim.at THEN claim.at ELSE @]
      /\ lifted' = {e \in Policy : e # d \/ latest'[d] # claim.at}
      /\ fate' = "open"
      /\ UNCHANGED <<now, lock>>

WriteFails(p) ==
  /\ \E from \in {"write", "unread"} : Goto(p, from, "claimed")
  /\ UNCHANGED <<now, marker, lock, my, history>>

Release(p) ==
  /\ \/ Goto(p, "claimed", "prune") /\ UNCHANGED my
     \/ Ends(p, "refused")
     \/ Ends(p, "undone")
  /\ lock' = None
  /\ UNCHANGED <<now, marker, history>>

(* Removing the lock fails, and with it the call: the lock stays, and so    *)
(* does a claim that has just been made.                                    *)
ReleaseFails(p) ==
  /\ \E from \in {"claimed", "refused", "undone"} : Ends(p, from)
  /\ Abandoned(p)
  /\ UNCHANGED <<now, marker, lock, latest, lifted>>

------------------------------------------------------------------------------
(* pruneCache, and rollbackAutomaticPruneAttempt when it throws.            *)

Prune(p) ==
  /\ Ends(p, "prune")
  /\ UNCHANGED <<now, marker, lock, history>>

(* Mutant: only whoever does not force rolls back.                          *)
PruneFailsForced(p) ==
  /\ \/ my[p].claim # None /\ ~my[p].force /\ Goto(p, "prune", "undo") /\ UNCHANGED my
     \/ (my[p].claim = None \/ my[p].force) /\ Ends(p, "prune")
  /\ fate' = IF Mine(p) THEN "failed" ELSE fate
  /\ UNCHANGED <<now, marker, lock, latest, lifted>>

PruneFails(p) ==
  /\ \/ my[p].claim # None /\ Goto(p, "prune", "undo") /\ UNCHANGED my
     \/ my[p].claim = None /\ Ends(p, "prune")
  /\ fate' = IF Mine(p) THEN "failed" ELSE fate
  /\ UNCHANGED <<now, marker, lock, latest, lifted>>

UndoAcquire(p) ==
  /\ Free
  /\ Goto(p, "undo", "compare")
  /\ lock' = p
  /\ UNCHANGED <<now, marker, my, history>>

(* Not within 250 ms, or an error that runAutomaticPrune swallows.          *)
UndoGivesUp(p) ==
  /\ Ends(p, "undo")
  /\ Abandoned(p)
  /\ UNCHANGED <<now, marker, lock, latest, lifted>>

(* Mutant: the marker stays, without a policy.                              *)
RollbackBlank(p) ==
  /\ Mine(p)
  /\ Goto(p, "compare", "undone")
  /\ marker' = [marker EXCEPT !.policy = None]
  /\ lifted' = lifted \cup {marker.policy}
  /\ UNCHANGED <<now, lock, my, latest, fate>>

(* Mutant: the marker of whoever has claimed last goes.                     *)
RollbackAny(p) ==
  /\ marker # None
  /\ Goto(p, "compare", "undone")
  /\ marker' = None
  /\ lifted' = IF Mine(p) THEN lifted \cup {marker.policy} ELSE lifted
  /\ UNCHANGED <<now, lock, my, latest, fate>>

Rollback(p) ==
  /\ Mine(p)
  /\ Goto(p, "compare", "undone")
  /\ marker' = None
  /\ lifted' = lifted \cup {marker.policy}
  /\ UNCHANGED <<now, lock, my, latest, fate>>

NotMine(p) ==
  /\ ~Mine(p)
  /\ Goto(p, "compare", "undone")
  /\ UNCHANGED <<now, marker, lock, my, history>>

(* The marker cannot be read, or not be removed.                            *)
RollbackFails(p) ==
  /\ Goto(p, "compare", "undone")
  /\ Abandoned(p)
  /\ UNCHANGED <<now, marker, lock, my, latest, lifted>>

------------------------------------------------------------------------------
Crash(p) ==
  /\ pc[p] \notin {"idle", "dead"}
  /\ pc' = [pc EXCEPT ![p] = "dead"]
  /\ my' = [my EXCEPT ![p] = Blank]
  /\ Abandoned(p)
  /\ UNCHANGED <<now, marker, lock, latest, lifted>>

Tick ==
  /\ now < MaxTime
  /\ now' = now + 1
  /\ UNCHANGED <<marker, lock, pc, my, history>>

Step(p) ==
  \/ Acquire(p) \/ Busy(p) \/ AcquireFails(p)
  \/ Refuse(p) \/ Go(p) \/ GoUnread(p) \/ Write(p) \/ WriteFails(p)
  \/ Release(p) \/ ReleaseFails(p)
  \/ Prune(p) \/ PruneFails(p)
  \/ UndoAcquire(p) \/ UndoGivesUp(p) \/ Rollback(p) \/ NotMine(p) \/ RollbackFails(p)

Next ==
  \/ \E p \in Proc : Step(p) \/ Crash(p) \/ (\E d \in Policy, f \in BOOLEAN : Call(p, d, f))
  \/ Tick

Spec == Init /\ [][Next]_vars
------------------------------------------------------------------------------
(* Properties.                                                              *)

(* provider-upload.test.ts:359 "persists the hit-cleanup throttle across    *)
(* provider processes": no hit claims a prune within Throttle of the latest *)
(* claim of its policy, whoever made that and whatever else is claimed,     *)
(* fails or is undone around it; unless that claim itself was undone, a     *)
(* claim of another policy or with an older reading of the clock has taken  *)
(* its place, or the marker could not be read.                              *)
WithinThrottle(p) ==
  LET d == my[p].policy
  IN  latest[d] # None /\ my[p].at - latest[d] \in 0..(Throttle - 1)

ThrottleKept ==
  [][\A p \in Proc :
       pc[p] = "write" /\ pc'[p] = "claimed" /\ ~my[p].force /\ WithinThrottle(p)
         => my[p].policy \in lifted]_vars

(* automatic-prune-state.test.ts:23: a prune that failed does not keep      *)
(* others from pruning. The marker stands for a prune that is under way,    *)
(* has succeeded or is about to be undone; or its process has died or could *)
(* not undo it.                                                             *)
MarkerBacked ==
  marker # None /\ fate = "failed" =>
    \E p \in Proc : pc[p] \in Undoing /\ my[p].claim = marker
==============================================================================
