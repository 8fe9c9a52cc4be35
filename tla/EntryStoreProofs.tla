--------------------------- MODULE EntryStoreProofs ---------------------------
(****************************************************************************)
(* Theorems about EntryStore for any set of clients and builds. Soundness   *)
(* holds whatever the lock does. The rest needs a lock that excludes: then  *)
(* between the first and the last rename of an operation only its owner     *)
(* touches the entry and the restore, and what the owner has moved so far   *)
(* is told by its program counter (Between).                                *)
(****************************************************************************)
EXTENDS EntryStore, TLAPS

(* What has been moved away, and what will be published, is no worse than   *)
(* what stands at a path.                                                   *)
MovedIsSound ==
  \A p \in Proc :
    /\ my[p].tomb # None => my[p].tomb.ok \/ my[p].tomb.gen \in condemned
    /\ my[p].rtomb # None => my[p].rtomb.ok \/ my[p].rtomb.gen \in spoilt
    /\ pc[p] \in {"publish"} \cup Moving => my[p].staged.ok

(* What was judged is known while it is materialized, what to upload until  *)
(* it is staged, also across the quarantine of a corrupt entry, and what is *)
(* staged until it is published.                                            *)
Known ==
  \A p \in Proc :
    /\ pc[p] \in Materializing => my[p].judged # None
    /\ \/ pc[p] \in {"ulock", "ujudge", "stage"}
       \/ pc[p] \in Quarantining /\ my[p].next = "stage"
       => my[p].src # None
    /\ pc[p] \in {"check", "publish"} \cup Moving => my[p].staged # None

TypeInv == TypeOK /\ Known

Sound == TypeInv /\ SoundUnlessRotted /\ MovedIsSound

LockIsOwn == \A p \in Proc : pc[p] \in Locked => lock = p

(* A hit is remembered only while it is used; a digest is pending only of a *)
(* payload that could not be decoded; the tombstones fill as the operation  *)
(* goes on.                                                                 *)
Remembered ==
  \A p \in Proc :
    /\ my[p].out # None => pc[p] = "using"
    /\ my[p].pend # None => my[p].pend \in condemned
    /\ my[p].rtomb # None =>
         pc[p] \in {"qentry", "moveEntry", "publish", "sweep", "abort"}
    /\ my[p].tomb # None => pc[p] \in {"publish", "sweep", "abort"}

(* The entry is a compressed one of build b.                                *)
Compressed(b) == entry # None /\ entry.zstd /\ entry.gen = b

(* What stands at the two paths while process p is in the middle.           *)
Between(p) ==
  /\ pc[p] \in Materializing =>
       /\ Compressed(my[p].judged.gen)
       /\ pc[p] # "restore" => restore = None
  /\ pc[p] \in Quarantining /\ entry # None => entry.gen \in condemned
  /\ pc[p] = "qentry" =>
       /\ entry # None
       /\ restore = None
       /\ my[p].rtomb # None => Compressed(my[p].rtomb.gen)
  /\ pc[p] \in {"stage", "check"} /\ entry # None =>
       my[p].pend # None /\ Compressed(my[p].pend)
  /\ pc[p] \in {"check", "publish"} \cup Moving =>
       (my[p].staged.zstd => my[p].pend = None)
  /\ pc[p] \in Moving => my[p].pend # None /\ Compressed(my[p].pend)
  /\ pc[p] = "moveEntry" =>
       /\ restore = None
       /\ my[p].rtomb # None => my[p].rtomb.gen = my[p].pend
  /\ pc[p] = "publish" =>
       /\ entry = None
       /\ restore = None
       /\ my[p].tomb # None =>
            my[p].pend # None /\ my[p].tomb.zstd /\ my[p].tomb.gen = my[p].pend
       /\ my[p].rtomb # None => my[p].tomb # None /\ my[p].rtomb.gen = my[p].tomb.gen
  /\ pc[p] = "sweep" =>
       /\ entry # None
       /\ my[p].rtomb # None => my[p].tomb # None
       /\ my[p].tomb # None => ~entry.zstd

IInv ==
  /\ Sound
  /\ LockIsOwn
  /\ Remembered
  /\ RestoreBelongs
  /\ ReturnedPathKept
  /\ FailureRollsBack
  /\ \A p \in Proc : Between(p)

(* Every step keeps the types.                                              *)
LEMMA TypeStep == TypeInv /\ [Next]_vars => TypeOK'
<1> SUFFICES ASSUME TypeInv, [Next]_vars PROVE TypeOK'
  OBVIOUS
<1> USE NoneAssumption, AbsentAssumption DEF TypeInv, TypeOK, Goto, Phase,
    AtRest, Locked, Materializing, Quarantining, Moving, Blank
<1>1. ASSUME NEW p \in Proc, ResolveLock(p) PROVE TypeOK'
  BY <1>1 DEF ResolveLock, Acquire
<1>2. ASSUME NEW p \in Proc, ResolveBusy(p) PROVE TypeOK'
  BY <1>2 DEF ResolveBusy
<1>3. ASSUME NEW p \in Proc, Legacy(p) PROVE TypeOK'
  BY <1>3 DEF Legacy
<1>4. ASSUME NEW p \in Proc, JudgePlain(p) PROVE TypeOK'
  BY <1>4 DEF JudgePlain, Entry, HitPath, Answer, Released, Valid
<1>5. ASSUME NEW p \in Proc, JudgeCompressed(p) PROVE TypeOK'
  BY <1>5 DEF JudgeCompressed, Valid
<1>6. ASSUME NEW p \in Proc, JudgeCorrupt(p) PROVE TypeOK'
  BY <1>6 DEF JudgeCorrupt, Valid
<1>7. ASSUME NEW p \in Proc, ReuseRestore(p) PROVE TypeOK'
  BY <1>7 DEF ReuseRestore, Restore, HitPath, RestoreValid, Answer, Released
<1>8. ASSUME NEW p \in Proc, DiscardRestore(p) PROVE TypeOK'
  BY <1>8 DEF DiscardRestore, RestoreValid
<1>9. ASSUME NEW p \in Proc, StartDecode(p) PROVE TypeOK'
  BY <1>9 DEF StartDecode
<1>10. ASSUME NEW p \in Proc, Decoded(p) PROVE TypeOK'
  BY <1>10 DEF Decoded, Valid
<1>11. ASSUME NEW p \in Proc, Malformed(p) PROVE TypeOK'
  <2>1. entry.gen \in Build
    BY <1>11 DEF Malformed, Entry
  <2> QED
    BY <1>11, <2>1 DEF Malformed
<1>12. ASSUME NEW p \in Proc, SettleRestore(p) PROVE TypeOK'
  <2>1. /\ my[p].judged.gen \in Build
        /\ restore' \in Restore
        /\ [gen |-> my[p].judged.gen, at |-> "restore"] \in HitPath
    BY <1>12 DEF SettleRestore, Known, Entry, Restore, HitPath
  <2> QED
    BY <1>12, <2>1 DEF SettleRestore, Answer, Released
<1>13. ASSUME NEW p \in Proc, Unavailable(p) PROVE TypeOK'
  <2>1. my[p].judged.gen \in Build
    BY <1>13 DEF Unavailable, Known, Entry
  <2>2. PICK digest \in {my[p].judged.gen, None} :
          /\ my' = [my EXCEPT ![p] = [Blank EXCEPT !.pend = digest]]
          /\ condemned' = condemned \cup ({digest} \ {None})
    BY <1>13 DEF Unavailable
  <2> QED
    BY <1>13, <2>1, <2>2 DEF Unavailable, Released
<1>14. ASSUME NEW p \in Proc, QuarantineGone(p) PROVE TypeOK'
  <2>1. /\ my' =
             [my EXCEPT ![p] = [my[p] EXCEPT !.judged = None, !.rtomb = None, !.next = "idle"]]
        /\ my[p].next \in Phase
    BY <1>14 DEF QuarantineGone, Resume
  <2> QED
    BY <1>14, <2>1 DEF QuarantineGone, Resume, Released
<1>15. ASSUME NEW p \in Proc, QuarantineRestore(p) PROVE TypeOK'
  BY <1>15 DEF QuarantineRestore
<1>16. ASSUME NEW p \in Proc, QuarantineEntry(p) PROVE TypeOK'
  <2>1. /\ my' =
             [my EXCEPT ![p] = [my[p] EXCEPT !.judged = None, !.rtomb = None, !.next = "idle"]]
        /\ my[p].next \in Phase
    BY <1>16 DEF QuarantineEntry, Resume
  <2> QED
    BY <1>16, <2>1 DEF QuarantineEntry, Resume, Released
<1>17. ASSUME NEW p \in Proc, RenameFails(p) PROVE TypeOK'
  BY <1>17 DEF RenameFails, Back, Quarantining, Moving
<1>18. ASSUME NEW p \in Proc, UploadLock(p) PROVE TypeOK'
  BY <1>18 DEF UploadLock, Acquire
<1>19. ASSUME NEW p \in Proc, UploadTimeout(p) PROVE TypeOK'
  BY <1>19 DEF UploadTimeout, End
<1>20. ASSUME NEW p \in Proc, UploadExisting(p) PROVE TypeOK'
  BY <1>20 DEF UploadExisting, Valid, Replaceable, End, Released
<1>21. ASSUME NEW p \in Proc, UploadNew(p) PROVE TypeOK'
  BY <1>21 DEF UploadNew, Valid, Replaceable
<1>22. ASSUME NEW p \in Proc, UploadCorrupt(p) PROVE TypeOK'
  BY <1>22 DEF UploadCorrupt
<1>23. ASSUME NEW p \in Proc, Stage(p) PROVE TypeOK'
  <2>1. PICK zstd, ok \in BOOLEAN :
          /\ MayCompress(p, zstd)
          /\ my' = [my EXCEPT ![p].staged = [gen |-> my[p].src, zstd |-> zstd, ok |-> ok]]
    BY <1>23 DEF Stage
  <2>2. [gen |-> my[p].src, zstd |-> zstd, ok |-> ok] \in Entry
    BY <1>23 DEF Stage, Known, Entry
  <2> QED
    BY <1>23, <2>1, <2>2 DEF Stage
<1>24. ASSUME NEW p \in Proc, CheckStaged(p) PROVE TypeOK'
  BY <1>24 DEF CheckStaged
<1>25. ASSUME NEW p \in Proc, StageFails(p) PROVE TypeOK'
  BY <1>25 DEF StageFails
<1>26. ASSUME NEW p \in Proc, MoveRestore(p) PROVE TypeOK'
  BY <1>26 DEF MoveRestore
<1>27. ASSUME NEW p \in Proc, MoveEntry(p) PROVE TypeOK'
  BY <1>27 DEF MoveEntry
<1>28. ASSUME NEW p \in Proc, Publish(p) PROVE TypeOK'
  BY <1>28 DEF Publish
<1>29. ASSUME NEW p \in Proc, PublishFails(p) PROVE TypeOK'
  BY <1>29 DEF PublishFails, Back
<1>30. ASSUME NEW p \in Proc, Sweep(p) PROVE TypeOK'
  BY <1>30 DEF Sweep, End, Released
<1>31. ASSUME NEW p \in Proc, SweepFails(p) PROVE TypeOK'
  BY <1>31 DEF SweepFails
<1>32. ASSUME NEW p \in Proc, Abort(p) PROVE TypeOK'
  BY <1>32 DEF Abort, End, Released
<1>33. ASSUME NEW p \in Proc, Lookup(p) PROVE TypeOK'
  BY <1>33 DEF Lookup
<1>34. ASSUME NEW p \in Proc, Done(p) PROVE TypeOK'
  BY <1>34 DEF Done
<1>35. ASSUME NEW p \in Proc, Crash(p) PROVE TypeOK'
  BY <1>35 DEF Crash
<1>36. ASSUME NEW p \in Proc, NEW b \in Build, BeginUpload(p, b) PROVE TypeOK'
  BY <1>36 DEF BeginUpload
<1>37. CASE EntryRots \/ RestoreRots
  <2>1. CASE EntryRots
    BY <2>1 DEF EntryRots, Entry, Valid
  <2>2. CASE RestoreRots
    BY <2>2 DEF RestoreRots, Restore
  <2> QED BY <1>37, <2>1, <2>2
<1>38. CASE UNCHANGED vars
  BY <1>38 DEF vars
<1> HIDE DEF TypeInv, TypeOK, Goto, Phase, AtRest, Locked, Materializing,
    Quarantining, Moving, Blank
<1> QED
  BY <1>1, <1>2, <1>3, <1>4, <1>5, <1>6, <1>7, <1>8, <1>9, <1>10, <1>11,
    <1>12, <1>13, <1>14, <1>15, <1>16, <1>17, <1>18, <1>19, <1>20, <1>21,
    <1>22, <1>23, <1>24, <1>25, <1>26, <1>27, <1>28, <1>29, <1>30, <1>31,
    <1>32, <1>33, <1>34, <1>35, <1>36, <1>37, <1>38
  DEF Next, Step

(* What a process will need later is still known then.                      *)
LEMMA KnownStep ==
  ASSUME TypeInv, [Next]_vars
  PROVE  Known'
<1> USE NoneAssumption, AbsentAssumption DEF TypeInv, Known, TypeOK, Goto,
    Phase, AtRest, Locked, Materializing, Quarantining, Moving, Blank
<1>1. ASSUME NEW p \in Proc,
             \/ ResolveLock(p) \/ ResolveBusy(p) \/ Legacy(p)
             \/ UploadLock(p) \/ UploadTimeout(p) \/ Lookup(p) \/ Done(p)
             \/ Crash(p)
      PROVE Known'
  BY <1>1 DEF ResolveLock, Acquire, ResolveBusy, Legacy, UploadLock,
     UploadTimeout, End, Lookup, Done, Crash
<1>2. ASSUME NEW p \in Proc,
             \/ JudgePlain(p) \/ JudgeCompressed(p) \/ JudgeCorrupt(p)
      PROVE Known'
  BY <1>2 DEF JudgePlain, Answer, Released, Valid, JudgeCompressed,
     JudgeCorrupt
<1>3. ASSUME NEW p \in Proc,
             \/ ReuseRestore(p) \/ DiscardRestore(p) \/ StartDecode(p)
             \/ Decoded(p)
      PROVE Known'
  BY <1>3 DEF ReuseRestore, RestoreValid, Answer, Released, DiscardRestore,
     StartDecode, Decoded, Valid
<1>4. ASSUME NEW p \in Proc,
             \/ Malformed(p) \/ SettleRestore(p) \/ Unavailable(p)
      PROVE Known'
  BY <1>4 DEF Malformed, SettleRestore, Answer, Released, Unavailable,
     RestoreValid, Materializing
<1>5. ASSUME NEW p \in Proc,
             \/ QuarantineGone(p) \/ QuarantineRestore(p)
             \/ QuarantineEntry(p) \/ RenameFails(p)
      PROVE Known'
  BY <1>5 DEF QuarantineGone, Resume, Released, QuarantineRestore,
     QuarantineEntry, RenameFails, Back, Quarantining, Moving
<1>6. ASSUME NEW p \in Proc,
             \/ UploadExisting(p) \/ UploadNew(p) \/ UploadCorrupt(p)
      PROVE Known'
  BY <1>6 DEF UploadExisting, Valid, Replaceable, End, Released, UploadNew,
     UploadCorrupt
<1>7. ASSUME NEW p \in Proc,
             \/ CheckStaged(p) \/ StageFails(p) \/ MoveRestore(p)
             \/ MoveEntry(p)
      PROVE Known'
  BY <1>7 DEF CheckStaged, StageFails, MoveRestore, MoveEntry
<1>8. ASSUME NEW p \in Proc, Stage(p) PROVE Known'
  <2>1. PICK zstd, ok \in BOOLEAN :
          /\ MayCompress(p, zstd)
          /\ my' = [my EXCEPT ![p].staged = [gen |-> my[p].src, zstd |-> zstd, ok |-> ok]]
    BY <1>8 DEF Stage
  <2>2. [gen |-> my[p].src, zstd |-> zstd, ok |-> ok] # None
    BY <1>8 DEF Stage, Entry
  <2> QED
    BY <1>8, <2>1, <2>2 DEF Stage
<1>9. ASSUME NEW p \in Proc,
             \/ Publish(p) \/ PublishFails(p) \/ Sweep(p) \/ SweepFails(p)
             \/ Abort(p)
      PROVE Known'
  BY <1>9 DEF Publish, PublishFails, Back, Sweep, End, Released, SweepFails,
     Abort
<1>10. ASSUME NEW p \in Proc, NEW b \in Build, BeginUpload(p, b) PROVE Known'
  BY <1>10 DEF BeginUpload
<1>11. CASE EntryRots \/ RestoreRots
  BY <1>11 DEF EntryRots, RestoreRots, Valid
<1>12. CASE UNCHANGED vars
  BY <1>12 DEF vars
<1> HIDE DEF TypeInv, Known, TypeOK, Goto, Phase, AtRest, Locked,
    Materializing, Quarantining, Moving, Blank
<1> QED BY <1>1, <1>2, <1>3, <1>4, <1>5, <1>6, <1>7, <1>8, <1>9, <1>10, <1>11,
     <1>12
    DEF Next, Step

(* Whatever reaches a path was sound when it was staged or decoded, or was  *)
(* at the path before.                                                      *)
LEMMA SoundUnlessRottedStep ==
  ASSUME Sound, TypeOK', [Next]_vars
  PROVE  SoundUnlessRotted'
<1> USE NoneAssumption, AbsentAssumption DEF TypeInv, Known, TypeOK, Goto,
    Phase, AtRest, Locked, Materializing, Quarantining, Moving, Blank, Sound,
    SoundUnlessRotted, MovedIsSound
<1>1. ASSUME NEW p \in Proc,
             \/ ResolveLock(p) \/ ResolveBusy(p) \/ Legacy(p)
             \/ UploadLock(p) \/ UploadTimeout(p) \/ Lookup(p) \/ Done(p)
             \/ Crash(p)
      PROVE SoundUnlessRotted'
  BY <1>1 DEF ResolveLock, Acquire, ResolveBusy, Legacy, UploadLock,
     UploadTimeout, End, Lookup, Done, Crash
<1>2. ASSUME NEW p \in Proc,
             \/ JudgePlain(p) \/ JudgeCompressed(p) \/ JudgeCorrupt(p)
      PROVE SoundUnlessRotted'
  BY <1>2 DEF JudgePlain, Answer, Released, Valid, JudgeCompressed,
     JudgeCorrupt
<1>3. ASSUME NEW p \in Proc,
             \/ ReuseRestore(p) \/ DiscardRestore(p) \/ StartDecode(p)
             \/ Decoded(p)
      PROVE SoundUnlessRotted'
  BY <1>3 DEF ReuseRestore, RestoreValid, Answer, Released, DiscardRestore,
     StartDecode, Decoded, Valid
<1>4. ASSUME NEW p \in Proc,
             \/ Malformed(p) \/ SettleRestore(p) \/ Unavailable(p)
      PROVE SoundUnlessRotted'
  BY <1>4 DEF Malformed, SettleRestore, Answer, Released, Unavailable,
     RestoreValid, Materializing
<1>5. ASSUME NEW p \in Proc,
             \/ QuarantineGone(p) \/ QuarantineRestore(p)
             \/ QuarantineEntry(p) \/ RenameFails(p)
      PROVE SoundUnlessRotted'
  BY <1>5 DEF QuarantineGone, Resume, Released, QuarantineRestore,
     QuarantineEntry, RenameFails, Back, Quarantining, Moving
<1>6. ASSUME NEW p \in Proc,
             \/ UploadExisting(p) \/ UploadNew(p) \/ UploadCorrupt(p)
      PROVE SoundUnlessRotted'
  BY <1>6 DEF UploadExisting, Valid, Replaceable, End, Released, UploadNew,
     UploadCorrupt
<1>7. ASSUME NEW p \in Proc,
             \/ Stage(p) \/ CheckStaged(p) \/ StageFails(p)
             \/ MoveRestore(p) \/ MoveEntry(p)
      PROVE SoundUnlessRotted'
  BY <1>7 DEF Stage, CheckStaged, StageFails, MoveRestore, MoveEntry
<1>8. ASSUME NEW p \in Proc,
             \/ Publish(p) \/ PublishFails(p) \/ Sweep(p) \/ SweepFails(p)
             \/ Abort(p)
      PROVE SoundUnlessRotted'
  BY <1>8 DEF Publish, PublishFails, Back, Sweep, End, Released, SweepFails,
     Abort
<1>9. ASSUME NEW p \in Proc, NEW b \in Build, BeginUpload(p, b)
      PROVE SoundUnlessRotted'
  BY <1>9 DEF BeginUpload
<1>10. CASE EntryRots \/ RestoreRots
  BY <1>10 DEF EntryRots, RestoreRots, Valid, Entry, Restore
<1>11. CASE UNCHANGED vars
  BY <1>11 DEF vars
<1> HIDE DEF TypeInv, Known, TypeOK, Goto, Phase, AtRest, Locked,
    Materializing, Quarantining, Moving, Blank, Sound, SoundUnlessRotted,
    MovedIsSound
<1> QED BY <1>1, <1>2, <1>3, <1>4, <1>5, <1>6, <1>7, <1>8, <1>9, <1>10, <1>11
    DEF Next, Step

LEMMA MovedIsSoundStep ==
  ASSUME Sound, TypeOK', [Next]_vars
  PROVE  MovedIsSound'
<1> USE NoneAssumption, AbsentAssumption DEF TypeInv, Known, TypeOK, Goto,
    Phase, AtRest, Locked, Materializing, Quarantining, Moving, Blank, Sound,
    SoundUnlessRotted, MovedIsSound
<1>1. ASSUME NEW p \in Proc,
             \/ ResolveLock(p) \/ ResolveBusy(p) \/ Legacy(p)
             \/ UploadLock(p) \/ UploadTimeout(p) \/ Lookup(p) \/ Done(p)
             \/ Crash(p)
      PROVE MovedIsSound'
  BY <1>1 DEF ResolveLock, Acquire, ResolveBusy, Legacy, UploadLock,
     UploadTimeout, End, Lookup, Done, Crash
<1>2. ASSUME NEW p \in Proc,
             \/ JudgePlain(p) \/ JudgeCompressed(p) \/ JudgeCorrupt(p)
      PROVE MovedIsSound'
  BY <1>2 DEF JudgePlain, Answer, Released, Valid, JudgeCompressed,
     JudgeCorrupt
<1>3. ASSUME NEW p \in Proc,
             \/ ReuseRestore(p) \/ DiscardRestore(p) \/ StartDecode(p)
             \/ Decoded(p)
      PROVE MovedIsSound'
  BY <1>3 DEF ReuseRestore, RestoreValid, Answer, Released, DiscardRestore,
     StartDecode, Decoded, Valid
<1>4. ASSUME NEW p \in Proc,
             \/ Malformed(p) \/ SettleRestore(p) \/ Unavailable(p)
      PROVE MovedIsSound'
  BY <1>4 DEF Malformed, SettleRestore, Answer, Released, Unavailable,
     RestoreValid, Materializing
<1>5. ASSUME NEW p \in Proc,
             \/ QuarantineGone(p) \/ QuarantineRestore(p)
             \/ QuarantineEntry(p) \/ RenameFails(p)
      PROVE MovedIsSound'
  BY <1>5 DEF QuarantineGone, Resume, Released, QuarantineRestore,
     QuarantineEntry, RenameFails, Back, Quarantining, Moving
<1>6. ASSUME NEW p \in Proc,
             \/ UploadExisting(p) \/ UploadNew(p) \/ UploadCorrupt(p)
      PROVE MovedIsSound'
  BY <1>6 DEF UploadExisting, Valid, Replaceable, End, Released, UploadNew,
     UploadCorrupt
<1>7. ASSUME NEW p \in Proc,
             \/ Stage(p) \/ CheckStaged(p) \/ StageFails(p)
             \/ MoveRestore(p) \/ MoveEntry(p)
      PROVE MovedIsSound'
  BY <1>7 DEF Stage, CheckStaged, StageFails, MoveRestore, MoveEntry
<1>8. ASSUME NEW p \in Proc,
             \/ Publish(p) \/ PublishFails(p) \/ Sweep(p) \/ SweepFails(p)
             \/ Abort(p)
      PROVE MovedIsSound'
  BY <1>8 DEF Publish, PublishFails, Back, Sweep, End, Released, SweepFails,
     Abort
<1>9. ASSUME NEW p \in Proc, NEW b \in Build, BeginUpload(p, b) PROVE MovedIsSound'
  BY <1>9 DEF BeginUpload
<1>10. CASE EntryRots \/ RestoreRots
  BY <1>10 DEF EntryRots, RestoreRots, Valid
<1>11. CASE UNCHANGED vars
  BY <1>11 DEF vars
<1> HIDE DEF TypeInv, Known, TypeOK, Goto, Phase, AtRest, Locked,
    Materializing, Quarantining, Moving, Blank, Sound, SoundUnlessRotted,
    MovedIsSound
<1> QED BY <1>1, <1>2, <1>3, <1>4, <1>5, <1>6, <1>7, <1>8, <1>9, <1>10, <1>11
    DEF Next, Step

LEMMA InitSound == Init => Sound
  BY NoneAssumption, AbsentAssumption DEF Init, Sound, TypeInv, Known, TypeOK,
     SoundUnlessRotted, MovedIsSound, Phase, AtRest, Locked, Materializing, Quarantining,
     Moving, Blank

LEMMA SoundStep == Sound /\ [Next]_vars => Sound'
  BY TypeStep, KnownStep, SoundUnlessRottedStep, MovedIsSoundStep DEF Sound, TypeInv

LEMMA AlwaysSound == Spec => []Sound
  BY InitSound, SoundStep, PTL DEF Spec

(* Type correctness, whatever the lock does.                                *)
THEOREM TypeCorrect == Spec => []TypeOK
<1>1. Sound => TypeOK
  BY DEF Sound, TypeInv
<1> QED BY <1>1, AlwaysSound, PTL

(* Nothing unsound is ever put at a final path, even by clients whose lock  *)
(* was broken under them.                                                   *)
THEOREM Soundness == Spec => []SoundUnlessRotted
<1>1. Sound => SoundUnlessRotted
  BY DEF Sound
<1> QED BY <1>1, AlwaysSound, PTL

------------------------------------------------------------------------------
(* From here on the lock excludes.                                          *)

(* A lock is taken only when it is free or its owner is dead.               *)
LEMMA LockIsOwnStep ==
  ASSUME Exclusive, TypeInv, LockIsOwn, [Next]_vars
  PROVE  LockIsOwn'
<1> USE NoneAssumption, AbsentAssumption DEF TypeInv, Known, TypeOK, Goto,
    Phase, AtRest, Locked, Materializing, Quarantining, Moving, Blank,
    LockIsOwn
<1>1. ASSUME NEW p \in Proc,
             \/ ResolveLock(p) \/ ResolveBusy(p) \/ Legacy(p)
             \/ UploadLock(p) \/ UploadTimeout(p) \/ Lookup(p) \/ Done(p)
             \/ Crash(p)
      PROVE LockIsOwn'
  BY <1>1 DEF ResolveLock, Acquire, ResolveBusy, Legacy, UploadLock,
     UploadTimeout, End, Lookup, Done, Crash
<1>2. ASSUME NEW p \in Proc,
             \/ JudgePlain(p) \/ JudgeCompressed(p) \/ JudgeCorrupt(p)
      PROVE LockIsOwn'
  BY <1>2 DEF JudgePlain, Answer, Released, Valid, JudgeCompressed,
     JudgeCorrupt
<1>3. ASSUME NEW p \in Proc,
             \/ ReuseRestore(p) \/ DiscardRestore(p) \/ StartDecode(p)
             \/ Decoded(p)
      PROVE LockIsOwn'
  BY <1>3 DEF ReuseRestore, RestoreValid, Answer, Released, DiscardRestore,
     StartDecode, Decoded, Valid
<1>4. ASSUME NEW p \in Proc,
             \/ Malformed(p) \/ SettleRestore(p) \/ Unavailable(p)
      PROVE LockIsOwn'
  BY <1>4 DEF Malformed, SettleRestore, Answer, Released, Unavailable,
     RestoreValid, Materializing
<1>5. ASSUME NEW p \in Proc,
             \/ QuarantineGone(p) \/ QuarantineRestore(p)
             \/ QuarantineEntry(p) \/ RenameFails(p)
      PROVE LockIsOwn'
  BY <1>5 DEF QuarantineGone, Resume, Released, QuarantineRestore,
     QuarantineEntry, RenameFails, Back, Quarantining, Moving
<1>6. ASSUME NEW p \in Proc,
             \/ UploadExisting(p) \/ UploadNew(p) \/ UploadCorrupt(p)
      PROVE LockIsOwn'
  BY <1>6 DEF UploadExisting, Valid, Replaceable, End, Released, UploadNew,
     UploadCorrupt
<1>7. ASSUME NEW p \in Proc,
             \/ Stage(p) \/ CheckStaged(p) \/ StageFails(p)
             \/ MoveRestore(p) \/ MoveEntry(p)
      PROVE LockIsOwn'
  BY <1>7 DEF Stage, CheckStaged, StageFails, MoveRestore, MoveEntry
<1>8. ASSUME NEW p \in Proc,
             \/ Publish(p) \/ PublishFails(p) \/ Sweep(p) \/ SweepFails(p)
             \/ Abort(p)
      PROVE LockIsOwn'
  BY <1>8 DEF Publish, PublishFails, Back, Sweep, End, Released, SweepFails,
     Abort
<1>9. ASSUME NEW p \in Proc, NEW b \in Build, BeginUpload(p, b) PROVE LockIsOwn'
  BY <1>9 DEF BeginUpload
<1>10. CASE EntryRots \/ RestoreRots
  BY <1>10 DEF EntryRots, RestoreRots, Valid
<1>11. CASE UNCHANGED vars
  BY <1>11 DEF vars
<1> HIDE DEF TypeInv, Known, TypeOK, Goto, Phase, AtRest, Locked,
    Materializing, Quarantining, Moving, Blank, LockIsOwn
<1> QED BY <1>1, <1>2, <1>3, <1>4, <1>5, <1>6, <1>7, <1>8, <1>9, <1>10, <1>11
    DEF Next, Step

LEMMA RememberedStep ==
  ASSUME TypeInv, Remembered, [Next]_vars
  PROVE  Remembered'
<1> USE NoneAssumption, AbsentAssumption DEF TypeInv, Known, TypeOK, Goto,
    Phase, AtRest, Locked, Materializing, Quarantining, Moving, Blank,
    Remembered
<1>1. ASSUME NEW p \in Proc,
             \/ ResolveLock(p) \/ ResolveBusy(p) \/ Legacy(p)
             \/ UploadLock(p) \/ UploadTimeout(p) \/ Lookup(p) \/ Done(p)
             \/ Crash(p)
      PROVE Remembered'
  BY <1>1 DEF ResolveLock, Acquire, ResolveBusy, Legacy, UploadLock,
     UploadTimeout, End, Lookup, Done, Crash
<1>2. ASSUME NEW p \in Proc,
             \/ JudgePlain(p) \/ JudgeCompressed(p) \/ JudgeCorrupt(p)
      PROVE Remembered'
  BY <1>2 DEF JudgePlain, Answer, Released, Valid, JudgeCompressed,
     JudgeCorrupt
<1>3. ASSUME NEW p \in Proc,
             \/ ReuseRestore(p) \/ DiscardRestore(p) \/ StartDecode(p)
             \/ Decoded(p)
      PROVE Remembered'
  BY <1>3 DEF ReuseRestore, RestoreValid, Answer, Released, DiscardRestore,
     StartDecode, Decoded, Valid
<1>4. ASSUME NEW p \in Proc,
             \/ Malformed(p) \/ SettleRestore(p) \/ Unavailable(p)
      PROVE Remembered'
  BY <1>4 DEF Malformed, SettleRestore, Answer, Released, Unavailable,
     RestoreValid, Materializing
<1>5. ASSUME NEW p \in Proc,
             \/ QuarantineGone(p) \/ QuarantineRestore(p)
             \/ QuarantineEntry(p) \/ RenameFails(p)
      PROVE Remembered'
  BY <1>5 DEF QuarantineGone, Resume, Released, QuarantineRestore,
     QuarantineEntry, RenameFails, Back, Quarantining, Moving
<1>6. ASSUME NEW p \in Proc,
             \/ UploadExisting(p) \/ UploadNew(p) \/ UploadCorrupt(p)
      PROVE Remembered'
  BY <1>6 DEF UploadExisting, Valid, Replaceable, End, Released, UploadNew,
     UploadCorrupt
<1>7. ASSUME NEW p \in Proc,
             \/ Stage(p) \/ CheckStaged(p) \/ StageFails(p)
             \/ MoveRestore(p) \/ MoveEntry(p)
      PROVE Remembered'
  BY <1>7 DEF Stage, CheckStaged, StageFails, MoveRestore, MoveEntry
<1>8. ASSUME NEW p \in Proc,
             \/ Publish(p) \/ PublishFails(p) \/ Sweep(p) \/ SweepFails(p)
             \/ Abort(p)
      PROVE Remembered'
  BY <1>8 DEF Publish, PublishFails, Back, Sweep, End, Released, SweepFails,
     Abort
<1>9. ASSUME NEW p \in Proc, NEW b \in Build, BeginUpload(p, b) PROVE Remembered'
  BY <1>9 DEF BeginUpload
<1>10. CASE EntryRots \/ RestoreRots
  BY <1>10 DEF EntryRots, RestoreRots, Valid
<1>11. CASE UNCHANGED vars
  BY <1>11 DEF vars
<1> HIDE DEF TypeInv, Known, TypeOK, Goto, Phase, AtRest, Locked,
    Materializing, Quarantining, Moving, Blank, Remembered
<1> QED BY <1>1, <1>2, <1>3, <1>4, <1>5, <1>6, <1>7, <1>8, <1>9, <1>10, <1>11
    DEF Next, Step

LEMMA RestoreIsSome ==
  ASSUME NEW b \in Build PROVE [gen |-> b, ok |-> TRUE] # None
<1>1. [gen |-> b, ok |-> TRUE] \in Restore
  BY DEF Restore
<1> QED BY <1>1, AbsentAssumption

(* What is materialized is a build.                                         *)
LEMMA JudgedBuild ==
  ASSUME TypeInv, NEW p \in Proc, pc[p] \in Materializing
  PROVE  my[p].judged.gen \in Build
  BY DEF TypeInv, TypeOK, Known, Entry

(* What rots keeps its build and its schema.                                *)
LEMMA RotKeeps ==
  ASSUME TypeOK, EntryRots \/ RestoreRots
  PROVE  /\ entry # None <=> entry' # None
         /\ entry # None => entry'.gen = entry.gen /\ entry'.zstd = entry.zstd
         /\ restore # None <=> restore' # None
         /\ restore # None => restore'.gen = restore.gen
         /\ condemned \subseteq condemned' /\ spoilt \subseteq spoilt'
         /\ UNCHANGED <<lock, pc, my, stuck>>
<1>1. CASE EntryRots
  BY <1>1, AbsentAssumption DEF EntryRots, TypeOK, Valid, Entry
<1>2. CASE RestoreRots
  BY <1>2, AbsentAssumption DEF RestoreRots, TypeOK, Restore
<1> QED BY <1>1, <1>2

(* The two paths never disagree, whoever is in the middle of what.          *)
LEMMA RestoreBelongsStep ==
  ASSUME IInv, TypeInv', [Next]_vars
  PROVE  RestoreBelongs'
<1> USE NoneAssumption, AbsentAssumption DEF TypeInv, Known, TypeOK, Goto,
    Phase, AtRest, Locked, Materializing, Quarantining, Moving, Blank,
    LockIsOwn, Compressed, RestoreBelongs, Between, IInv, Sound, Remembered
<1>1. ASSUME NEW p \in Proc,
             \/ ResolveLock(p) \/ ResolveBusy(p) \/ Legacy(p)
             \/ UploadLock(p) \/ UploadTimeout(p) \/ Lookup(p) \/ Done(p)
             \/ Crash(p)
      PROVE RestoreBelongs'
  BY <1>1 DEF ResolveLock, Acquire, ResolveBusy, Legacy, UploadLock,
     UploadTimeout, End, Lookup, Done, Crash
<1>2. ASSUME NEW p \in Proc,
             \/ JudgePlain(p) \/ JudgeCompressed(p) \/ JudgeCorrupt(p)
      PROVE RestoreBelongs'
  BY <1>2 DEF JudgePlain, Answer, Released, Valid, JudgeCompressed,
     JudgeCorrupt
<1>3. ASSUME NEW p \in Proc,
             \/ ReuseRestore(p) \/ DiscardRestore(p) \/ StartDecode(p)
             \/ Decoded(p)
      PROVE RestoreBelongs'
  BY <1>3 DEF ReuseRestore, RestoreValid, Answer, Released, DiscardRestore,
     StartDecode, Decoded, Valid
<1>4. ASSUME NEW p \in Proc,
             \/ Malformed(p) \/ SettleRestore(p) \/ Unavailable(p)
      PROVE RestoreBelongs'
  BY <1>4 DEF Malformed, SettleRestore, Answer, Released, Unavailable,
     RestoreValid, Materializing
<1>5. ASSUME NEW p \in Proc,
             \/ QuarantineGone(p) \/ QuarantineRestore(p)
             \/ QuarantineEntry(p) \/ RenameFails(p)
      PROVE RestoreBelongs'
  BY <1>5 DEF QuarantineGone, Resume, Released, QuarantineRestore,
     QuarantineEntry, RenameFails, Back, Quarantining, Moving
<1>6. ASSUME NEW p \in Proc,
             \/ UploadExisting(p) \/ UploadNew(p) \/ UploadCorrupt(p)
      PROVE RestoreBelongs'
  BY <1>6 DEF UploadExisting, Valid, Replaceable, End, Released, UploadNew,
     UploadCorrupt
<1>7. ASSUME NEW p \in Proc,
             \/ Stage(p) \/ CheckStaged(p) \/ StageFails(p)
             \/ MoveRestore(p) \/ MoveEntry(p)
      PROVE RestoreBelongs'
  BY <1>7 DEF Stage, CheckStaged, StageFails, MoveRestore, MoveEntry
<1>8. ASSUME NEW p \in Proc,
             \/ Publish(p) \/ PublishFails(p) \/ Sweep(p) \/ SweepFails(p)
             \/ Abort(p)
      PROVE RestoreBelongs'
  BY <1>8 DEF Publish, PublishFails, Back, Sweep, End, Released, SweepFails,
     Abort
<1>9. ASSUME NEW p \in Proc, NEW b \in Build, BeginUpload(p, b) PROVE RestoreBelongs'
  BY <1>9 DEF BeginUpload
<1>10. CASE EntryRots \/ RestoreRots
  BY <1>10, RotKeeps
<1>11. CASE UNCHANGED vars
  BY <1>11 DEF vars
<1> HIDE DEF TypeInv, Known, TypeOK, Goto, Phase, AtRest, Locked,
    Materializing, Quarantining, Moving, Blank, LockIsOwn, Compressed,
    RestoreBelongs, Between, IInv, Sound, Remembered
<1> QED BY <1>1, <1>2, <1>3, <1>4, <1>5, <1>6, <1>7, <1>8, <1>9, <1>10, <1>11
    DEF Next, Step

(* What a hit returned goes only with its entry, and that only when it is   *)
(* condemned.                                                               *)
LEMMA ReturnedPathKeptStep ==
  ASSUME IInv, TypeInv', [Next]_vars
  PROVE  ReturnedPathKept'
<1> USE NoneAssumption, AbsentAssumption DEF TypeInv, Known, TypeOK, Goto,
    Phase, AtRest, Locked, Materializing, Quarantining, Moving, Blank,
    LockIsOwn, Compressed, RestoreBelongs, Between, IInv, Sound, Remembered,
    ReturnedPathKept, SoundUnlessRotted
<1>1. ASSUME NEW p \in Proc,
             \/ ResolveLock(p) \/ ResolveBusy(p) \/ Legacy(p)
             \/ UploadLock(p) \/ UploadTimeout(p) \/ Lookup(p) \/ Done(p)
             \/ Crash(p)
      PROVE ReturnedPathKept'
  BY <1>1 DEF ResolveLock, Acquire, ResolveBusy, Legacy, UploadLock,
     UploadTimeout, End, Lookup, Done, Crash
<1>2. ASSUME NEW p \in Proc,
             \/ JudgePlain(p) \/ JudgeCompressed(p) \/ JudgeCorrupt(p)
      PROVE ReturnedPathKept'
  BY <1>2 DEF JudgePlain, Answer, Released, Valid, JudgeCompressed,
     JudgeCorrupt
<1>3. ASSUME NEW p \in Proc,
             \/ ReuseRestore(p) \/ DiscardRestore(p) \/ StartDecode(p)
             \/ Decoded(p)
      PROVE ReturnedPathKept'
  BY <1>3 DEF ReuseRestore, RestoreValid, Answer, Released, DiscardRestore,
     StartDecode, Decoded, Valid
<1>4. ASSUME NEW p \in Proc, Unavailable(p) PROVE ReturnedPathKept'
  BY <1>4 DEF Unavailable, RestoreValid, Released, Materializing
<1>5. ASSUME NEW p \in Proc, Malformed(p) PROVE ReturnedPathKept'
  BY <1>5 DEF Malformed
<1>6. ASSUME NEW p \in Proc, SettleRestore(p) PROVE ReturnedPathKept'
  <2>1. my[p].judged.gen \in Build
    BY <1>6, JudgedBuild DEF SettleRestore
  <2>2. restore' # None /\ restore'.gen = my[p].judged.gen
    BY <1>6, <2>1, RestoreIsSome DEF SettleRestore
  <2>3. \A q \in Proc : q # p => my'[q] = my[q]
    BY <1>6 DEF SettleRestore, Answer
  <2>4. my'[p].out.at = "restore" /\ my'[p].out.gen = my[p].judged.gen
    BY <1>6 DEF SettleRestore, Answer
  <2> QED
    BY <1>6, <2>2, <2>3, <2>4 DEF SettleRestore
<1>7. ASSUME NEW p \in Proc,
             \/ QuarantineGone(p) \/ QuarantineRestore(p)
             \/ QuarantineEntry(p) \/ RenameFails(p)
      PROVE ReturnedPathKept'
  BY <1>7 DEF QuarantineGone, Resume, Released, QuarantineRestore,
     QuarantineEntry, RenameFails, Back, Quarantining, Moving
<1>8. ASSUME NEW p \in Proc,
             \/ UploadExisting(p) \/ UploadNew(p) \/ UploadCorrupt(p)
      PROVE ReturnedPathKept'
  BY <1>8 DEF UploadExisting, Valid, Replaceable, End, Released, UploadNew,
     UploadCorrupt
<1>9. ASSUME NEW p \in Proc,
             \/ Stage(p) \/ CheckStaged(p) \/ StageFails(p)
             \/ MoveRestore(p) \/ MoveEntry(p)
      PROVE ReturnedPathKept'
  BY <1>9 DEF Stage, CheckStaged, StageFails, MoveRestore, MoveEntry
<1>10. ASSUME NEW p \in Proc,
             \/ Publish(p) \/ PublishFails(p) \/ Sweep(p) \/ SweepFails(p)
             \/ Abort(p)
      PROVE ReturnedPathKept'
  BY <1>10 DEF Publish, PublishFails, Back, Sweep, End, Released, SweepFails,
     Abort
<1>11. ASSUME NEW p \in Proc, NEW b \in Build, BeginUpload(p, b)
      PROVE ReturnedPathKept'
  BY <1>11 DEF BeginUpload
<1>12. CASE EntryRots \/ RestoreRots
  BY <1>12, RotKeeps
<1>13. CASE UNCHANGED vars
  BY <1>13 DEF vars
<1> HIDE DEF TypeInv, Known, TypeOK, Goto, Phase, AtRest, Locked,
    Materializing, Quarantining, Moving, Blank, LockIsOwn, Compressed,
    RestoreBelongs, Between, IInv, Sound, Remembered, ReturnedPathKept,
    SoundUnlessRotted
<1> QED BY <1>1, <1>2, <1>3, <1>4, <1>5, <1>6, <1>7, <1>8, <1>9, <1>10, <1>11,
     <1>12, <1>13
    DEF Next, Step

LEMMA FailureRollsBackStep ==
  ASSUME IInv, TypeInv', [Next]_vars
  PROVE  FailureRollsBack'
<1> USE NoneAssumption, AbsentAssumption DEF TypeInv, Known, TypeOK, Goto,
    Phase, AtRest, Locked, Materializing, Quarantining, Moving, Blank,
    LockIsOwn, Compressed, RestoreBelongs, Between, IInv, Sound, Remembered,
    FailureRollsBack
<1>1. ASSUME NEW p \in Proc,
             \/ ResolveLock(p) \/ ResolveBusy(p) \/ Legacy(p)
             \/ UploadLock(p) \/ UploadTimeout(p) \/ Lookup(p) \/ Done(p)
             \/ Crash(p)
      PROVE FailureRollsBack'
  BY <1>1 DEF ResolveLock, Acquire, ResolveBusy, Legacy, UploadLock,
     UploadTimeout, End, Lookup, Done, Crash
<1>2. ASSUME NEW p \in Proc,
             \/ JudgePlain(p) \/ JudgeCompressed(p) \/ JudgeCorrupt(p)
      PROVE FailureRollsBack'
  BY <1>2 DEF JudgePlain, Answer, Released, Valid, JudgeCompressed,
     JudgeCorrupt
<1>3. ASSUME NEW p \in Proc,
             \/ ReuseRestore(p) \/ DiscardRestore(p) \/ StartDecode(p)
             \/ Decoded(p)
      PROVE FailureRollsBack'
  BY <1>3 DEF ReuseRestore, RestoreValid, Answer, Released, DiscardRestore,
     StartDecode, Decoded, Valid
<1>4. ASSUME NEW p \in Proc,
             \/ Malformed(p) \/ SettleRestore(p) \/ Unavailable(p)
      PROVE FailureRollsBack'
  BY <1>4 DEF Malformed, SettleRestore, Answer, Released, Unavailable,
     RestoreValid, Materializing
<1>5. ASSUME NEW p \in Proc,
             \/ QuarantineGone(p) \/ QuarantineRestore(p)
             \/ QuarantineEntry(p) \/ RenameFails(p)
      PROVE FailureRollsBack'
  BY <1>5 DEF QuarantineGone, Resume, Released, QuarantineRestore,
     QuarantineEntry, RenameFails, Back, Quarantining, Moving
<1>6. ASSUME NEW p \in Proc,
             \/ UploadExisting(p) \/ UploadNew(p) \/ UploadCorrupt(p)
      PROVE FailureRollsBack'
  BY <1>6 DEF UploadExisting, Valid, Replaceable, End, Released, UploadNew,
     UploadCorrupt
<1>7. ASSUME NEW p \in Proc,
             \/ Stage(p) \/ CheckStaged(p) \/ StageFails(p)
             \/ MoveRestore(p) \/ MoveEntry(p)
      PROVE FailureRollsBack'
  BY <1>7 DEF Stage, CheckStaged, StageFails, MoveRestore, MoveEntry
<1>8. ASSUME NEW p \in Proc,
             \/ Publish(p) \/ PublishFails(p) \/ Sweep(p) \/ SweepFails(p)
             \/ Abort(p)
      PROVE FailureRollsBack'
  BY <1>8 DEF Publish, PublishFails, Back, Sweep, End, Released, SweepFails,
     Abort
<1>9. ASSUME NEW p \in Proc, NEW b \in Build, BeginUpload(p, b)
      PROVE FailureRollsBack'
  BY <1>9 DEF BeginUpload
<1>10. CASE EntryRots \/ RestoreRots
  BY <1>10, RotKeeps
<1>11. CASE UNCHANGED vars
  BY <1>11 DEF vars
<1> HIDE DEF TypeInv, Known, TypeOK, Goto, Phase, AtRest, Locked,
    Materializing, Quarantining, Moving, Blank, LockIsOwn, Compressed,
    RestoreBelongs, Between, IInv, Sound, Remembered, FailureRollsBack
<1> QED BY <1>1, <1>2, <1>3, <1>4, <1>5, <1>6, <1>7, <1>8, <1>9, <1>10, <1>11
    DEF Next, Step

LEMMA BetweenStep ==
  ASSUME IInv, TypeInv', LockIsOwn', [Next]_vars
  PROVE  \A q \in Proc : Between(q)'
<1> USE NoneAssumption, AbsentAssumption DEF TypeInv, Known, TypeOK, Goto,
    Phase, AtRest, Locked, Materializing, Quarantining, Moving, Blank,
    LockIsOwn, Compressed, RestoreBelongs, Between, IInv, Sound, Remembered,
    SoundUnlessRotted
<1>1. ASSUME NEW p \in Proc,
             \/ ResolveLock(p) \/ ResolveBusy(p) \/ Legacy(p)
             \/ UploadLock(p) \/ UploadTimeout(p) \/ Lookup(p) \/ Done(p)
             \/ Crash(p)
      PROVE \A q \in Proc : Between(q)'
  BY <1>1 DEF ResolveLock, Acquire, ResolveBusy, Legacy, UploadLock,
     UploadTimeout, End, Lookup, Done, Crash
<1>2. ASSUME NEW p \in Proc,
             \/ JudgePlain(p) \/ JudgeCompressed(p) \/ JudgeCorrupt(p)
      PROVE \A q \in Proc : Between(q)'
  BY <1>2 DEF JudgePlain, Answer, Released, Valid, JudgeCompressed,
     JudgeCorrupt
<1>3. ASSUME NEW p \in Proc,
             \/ ReuseRestore(p) \/ DiscardRestore(p) \/ StartDecode(p)
             \/ Decoded(p)
      PROVE \A q \in Proc : Between(q)'
  BY <1>3 DEF ReuseRestore, RestoreValid, Answer, Released, DiscardRestore,
     StartDecode, Decoded, Valid
<1>4. ASSUME NEW p \in Proc,
             \/ Malformed(p) \/ SettleRestore(p) \/ Unavailable(p)
      PROVE \A q \in Proc : Between(q)'
  BY <1>4 DEF Malformed, SettleRestore, Answer, Released, Unavailable,
     RestoreValid, Materializing
<1>5. ASSUME NEW p \in Proc,
             \/ QuarantineGone(p) \/ QuarantineRestore(p)
             \/ QuarantineEntry(p) \/ RenameFails(p)
      PROVE \A q \in Proc : Between(q)'
  BY <1>5 DEF QuarantineGone, Resume, Released, QuarantineRestore,
     QuarantineEntry, RenameFails, Back, Quarantining, Moving
<1>6. ASSUME NEW p \in Proc,
             \/ UploadExisting(p) \/ UploadNew(p) \/ UploadCorrupt(p)
      PROVE \A q \in Proc : Between(q)'
  BY <1>6 DEF UploadExisting, Valid, Replaceable, End, Released, UploadNew,
     UploadCorrupt
<1>7. ASSUME NEW p \in Proc,
             \/ Stage(p) \/ CheckStaged(p) \/ StageFails(p)
             \/ MoveRestore(p) \/ MoveEntry(p)
      PROVE \A q \in Proc : Between(q)'
  BY <1>7 DEF Stage, MayCompress, CheckStaged, StageFails, MoveRestore, MoveEntry
<1>8. ASSUME NEW p \in Proc,
             \/ Publish(p) \/ PublishFails(p) \/ Sweep(p) \/ SweepFails(p)
             \/ Abort(p)
      PROVE \A q \in Proc : Between(q)'
  BY <1>8 DEF Publish, PublishFails, Back, Sweep, End, Released, SweepFails,
     Abort
<1>9. ASSUME NEW p \in Proc, NEW b \in Build, BeginUpload(p, b)
      PROVE \A q \in Proc : Between(q)'
  BY <1>9 DEF BeginUpload
<1>10. CASE EntryRots \/ RestoreRots
  BY <1>10, RotKeeps
<1>11. CASE UNCHANGED vars
  BY <1>11 DEF vars
<1> HIDE DEF TypeInv, Known, TypeOK, Goto, Phase, AtRest, Locked,
    Materializing, Quarantining, Moving, Blank, LockIsOwn, Compressed,
    RestoreBelongs, Between, IInv, Sound, Remembered, SoundUnlessRotted
<1> QED BY <1>1, <1>2, <1>3, <1>4, <1>5, <1>6, <1>7, <1>8, <1>9, <1>10, <1>11
    DEF Next, Step

LEMMA InitIInv == Init => IInv
  BY NoneAssumption, AbsentAssumption DEF Init, IInv, Sound, TypeInv, Known, TypeOK,
     SoundUnlessRotted, MovedIsSound,
     LockIsOwn, Remembered, RestoreBelongs, ReturnedPathKept, FailureRollsBack, Between,
     Phase, AtRest, Locked, Materializing, Quarantining, Moving, Blank

LEMMA IInvStep == ASSUME Exclusive, IInv, [Next]_vars PROVE IInv'
<1>1. Sound'
  BY SoundStep DEF IInv
<1>2. LockIsOwn' /\ Remembered'
  BY LockIsOwnStep, RememberedStep DEF IInv, Sound
<1>3. RestoreBelongs' /\ ReturnedPathKept' /\ FailureRollsBack'
  BY <1>1, RestoreBelongsStep, ReturnedPathKeptStep, FailureRollsBackStep DEF Sound
<1>4. \A q \in Proc : Between(q)'
  BY <1>1, <1>2, BetweenStep DEF Sound
<1> QED BY <1>1, <1>2, <1>3, <1>4 DEF IInv

(* While the lock excludes, the inductive invariant holds for ever.         *)
THEOREM InductiveInvariant == ASSUME Exclusive PROVE Spec => []IInv
<1>1. Init => IInv
  BY InitIInv
<1>2. IInv /\ [Next]_vars => IInv'
  BY IInvStep
<1> QED BY <1>1, <1>2, PTL DEF Spec

(* A restore belongs to the entry beside it, at every step of every upload, *)
(* quarantine, rollback and crash.                                          *)
THEOREM Belonging == ASSUME Exclusive PROVE Spec => []RestoreBelongs
<1>1. IInv => RestoreBelongs
  BY DEF IInv
<1> QED BY <1>1, InductiveInvariant, PTL

(* A path that a hit returned keeps its artifact while it is used, unless   *)
(* the artifact rots or proves undecodable.                                 *)
THEOREM HitsAreKept == ASSUME Exclusive PROVE Spec => []ReturnedPathKept
<1>1. IInv => ReturnedPathKept
  BY DEF IInv
<1> QED BY <1>1, InductiveInvariant, PTL

(* An upload or a quarantine that throws has put back what it moved, unless *)
(* the rollback failed as well.                                             *)
THEOREM Rollback == ASSUME Exclusive PROVE Spec => []FailureRollsBack
<1>1. IInv => FailureRollsBack
  BY DEF IInv
<1> QED BY <1>1, InductiveInvariant, PTL

------------------------------------------------------------------------------
(* What removes an entry, and the refinement of the write-once cell.        *)

(* Two renames empty the entry's path, and both do it under the lock.       *)
LEMMA RemovalStep ==
  ASSUME IInv, TypeInv', [Next]_vars
  PROVE  Removal
<1> USE NoneAssumption, AbsentAssumption DEF TypeInv, Known, TypeOK, Goto,
    Phase, AtRest, Locked, Materializing, Quarantining, Moving, Blank,
    LockIsOwn, Compressed, RestoreBelongs, Between, IInv, Sound, Remembered,
    Removal
<1>1. ASSUME NEW p \in Proc,
             \/ ResolveLock(p) \/ ResolveBusy(p) \/ Legacy(p)
             \/ UploadLock(p) \/ UploadTimeout(p) \/ Lookup(p) \/ Done(p)
             \/ Crash(p)
      PROVE Removal
  BY <1>1 DEF ResolveLock, Acquire, ResolveBusy, Legacy, UploadLock,
     UploadTimeout, End, Lookup, Done, Crash
<1>2. ASSUME NEW p \in Proc,
             \/ JudgePlain(p) \/ JudgeCompressed(p) \/ JudgeCorrupt(p)
      PROVE Removal
  BY <1>2 DEF JudgePlain, Answer, Released, Valid, JudgeCompressed,
     JudgeCorrupt
<1>3. ASSUME NEW p \in Proc,
             \/ ReuseRestore(p) \/ DiscardRestore(p) \/ StartDecode(p)
             \/ Decoded(p)
      PROVE Removal
  BY <1>3 DEF ReuseRestore, RestoreValid, Answer, Released, DiscardRestore,
     StartDecode, Decoded, Valid
<1>4. ASSUME NEW p \in Proc,
             \/ Malformed(p) \/ SettleRestore(p) \/ Unavailable(p)
      PROVE Removal
  BY <1>4 DEF Malformed, SettleRestore, Answer, Released, Unavailable,
     RestoreValid, Materializing
<1>5. ASSUME NEW p \in Proc,
             \/ QuarantineGone(p) \/ QuarantineRestore(p)
             \/ QuarantineEntry(p) \/ RenameFails(p)
      PROVE Removal
  BY <1>5 DEF QuarantineGone, Resume, Released, QuarantineRestore,
     QuarantineEntry, RenameFails, Back, Quarantining, Moving
<1>6. ASSUME NEW p \in Proc,
             \/ UploadExisting(p) \/ UploadNew(p) \/ UploadCorrupt(p)
      PROVE Removal
  BY <1>6 DEF UploadExisting, Valid, Replaceable, End, Released, UploadNew,
     UploadCorrupt
<1>7. ASSUME NEW p \in Proc,
             \/ Stage(p) \/ CheckStaged(p) \/ StageFails(p)
             \/ MoveRestore(p) \/ MoveEntry(p)
      PROVE Removal
  BY <1>7 DEF Stage, CheckStaged, StageFails, MoveRestore, MoveEntry
<1>8. ASSUME NEW p \in Proc,
             \/ Publish(p) \/ PublishFails(p) \/ Sweep(p) \/ SweepFails(p)
             \/ Abort(p)
      PROVE Removal
  BY <1>8 DEF Publish, PublishFails, Back, Sweep, End, Released, SweepFails,
     Abort
<1>9. ASSUME NEW p \in Proc, NEW b \in Build, BeginUpload(p, b) PROVE Removal
  BY <1>9 DEF BeginUpload
<1>10. CASE EntryRots \/ RestoreRots
  BY <1>10, RotKeeps
<1>11. CASE UNCHANGED vars
  BY <1>11 DEF vars
<1> HIDE DEF TypeInv, Known, TypeOK, Goto, Phase, AtRest, Locked,
    Materializing, Quarantining, Moving, Blank, LockIsOwn, Compressed,
    RestoreBelongs, Between, IInv, Sound, Remembered, Removal
<1> QED BY <1>1, <1>2, <1>3, <1>4, <1>5, <1>6, <1>7, <1>8, <1>9, <1>10, <1>11
    DEF Next, Step

(* A sound entry goes only when the client that removes it has found it     *)
(* undecodable itself, or some client has condemned it.                     *)
THEOREM OnlyJudgedRemoved == ASSUME Exclusive PROVE Spec => RemovesOnlyJudged
<1>1. IInv /\ IInv' /\ [Next]_vars => [Removal]_vars
  BY RemovalStep DEF IInv, Sound
<1> QED BY <1>1, InductiveInvariant, PTL DEF Spec, RemovesOnlyJudged

(* The two refined variables of the cell.                                   *)
StoreBar == IF entry = None THEN None ELSE entry.gen
AnswerBar == [p \in Proc |-> IF my[p].out = None THEN None ELSE my[p].out.gen]

LEMMA SameAnswer ==
  ASSUME \A q \in Proc : my'[q].out = my[q].out
  PROVE  AnswerBar' = AnswerBar
  BY DEF AnswerBar

LEMMA OneAnswer ==
  ASSUME NEW p \in Proc, \A q \in Proc : q # p => my'[q].out = my[q].out,
         NEW x, x = IF my'[p].out = None THEN None ELSE my'[p].out.gen
  PROVE  AnswerBar' = [AnswerBar EXCEPT ![p] = x]
  BY DEF AnswerBar

LEMMA Answered ==
  ASSUME TypeInv, NEW p \in Proc, NEW hit \in HitPath, Answer(p, hit)
  PROVE  /\ my'[p].out # None
         /\ my'[p].out = hit
         /\ \A q \in Proc : q # p => my'[q].out = my[q].out
  BY NoneAssumption, AbsentAssumption DEF TypeInv, TypeOK, Answer, Blank

(* What the cell does not see.                                              *)
Quiet ==
  /\ entry' = entry
  /\ condemned' = condemned
  /\ \A q \in Proc : my'[q].out = my[q].out

LEMMA QuietStep ==
  ASSUME IInv, TypeInv', NEW p \in Proc,
         \/ ResolveLock(p) \/ ResolveBusy(p) \/ Legacy(p) \/ UploadLock(p)
         \/ UploadTimeout(p) \/ Lookup(p) \/ Crash(p) \/ JudgeCompressed(p)
         \/ JudgeCorrupt(p) \/ DiscardRestore(p) \/ StartDecode(p)
         \/ Decoded(p) \/ QuarantineGone(p) \/ QuarantineRestore(p)
         \/ RenameFails(p) \/ UploadExisting(p) \/ UploadNew(p)
         \/ UploadCorrupt(p) \/ Stage(p) \/ CheckStaged(p) \/ StageFails(p)
         \/ MoveRestore(p) \/ Sweep(p) \/ SweepFails(p) \/ Abort(p)
  PROVE  Quiet
<1> USE NoneAssumption, AbsentAssumption DEF TypeInv, Known, TypeOK, Goto,
    Phase, AtRest, Locked, Materializing, Quarantining, Moving, Blank,
    LockIsOwn, Compressed, Between, IInv, Sound, Remembered, Quiet
<1>1. CASE ResolveLock(p) \/ ResolveBusy(p) \/ Legacy(p) \/ UploadLock(p)
          \/ UploadTimeout(p) \/ Lookup(p) \/ Crash(p)
  BY <1>1 DEF ResolveLock, Acquire, ResolveBusy, Legacy, UploadLock,
     UploadTimeout, End, Lookup, Crash
<1>2. CASE JudgeCompressed(p) \/ JudgeCorrupt(p)
  BY <1>2 DEF JudgeCompressed, Valid, JudgeCorrupt
<1>3. CASE DiscardRestore(p) \/ StartDecode(p) \/ Decoded(p)
  BY <1>3 DEF DiscardRestore, RestoreValid, StartDecode, Decoded, Valid
<1>4. CASE QuarantineGone(p)
  BY <1>4 DEF QuarantineGone, Resume, Released
<1>5. CASE QuarantineRestore(p) \/ RenameFails(p)
  BY <1>5 DEF QuarantineRestore, RenameFails, Back
<1>6. CASE UploadExisting(p)
  BY <1>6 DEF UploadExisting, End, Released
<1>7. CASE UploadNew(p) \/ UploadCorrupt(p)
  BY <1>7 DEF UploadNew, UploadCorrupt
<1>8. CASE Stage(p) \/ CheckStaged(p) \/ StageFails(p) \/ MoveRestore(p)
  BY <1>8 DEF Stage, CheckStaged, StageFails, MoveRestore
<1>9. CASE Sweep(p) \/ SweepFails(p) \/ Abort(p)
  BY <1>9 DEF Sweep, End, Released, SweepFails, Abort
<1> QED BY <1>1, <1>2, <1>3, <1>4, <1>6, <1>8, <1>9, <1>5, <1>7

(* Each step is a step of the cell or changes nothing that the cell sees.   *)
LEMMA CellStep ==
  ASSUME IInv, IInv', [Next]_vars
  PROVE  [Cell!Next]_(Cell!vars)
<1>0. TypeInv'
  BY DEF IInv, Sound
<1>1. ASSUME Quiet PROVE UNCHANGED Cell!vars
  BY <1>1, SameAnswer DEF Quiet, Cell!vars, AnswerBar
<1>2. ASSUME NEW p \in Proc, JudgePlain(p) \/ ReuseRestore(p) \/ SettleRestore(p)
      PROVE  Cell!Hit(p)
  <2>1. /\ StoreBar # None
        /\ my'[p].out # None
        /\ my'[p].out.gen = StoreBar
        /\ StoreBar' = StoreBar
        /\ condemned' = condemned
        /\ \A q \in Proc : q # p => my'[q].out = my[q].out
    <3>0. TypeInv
      BY DEF IInv, Sound
    <3>1. CASE JudgePlain(p)
      <4>1. entry # None /\ entry.gen \in Build
        BY <3>0, <3>1 DEF JudgePlain, Valid, TypeInv, TypeOK, Entry
      <4>2. [gen |-> entry.gen, at |-> "entry"] \in HitPath
        BY <4>1 DEF HitPath
      <4>3. /\ Answer(p, [gen |-> entry.gen, at |-> "entry"])
            /\ UNCHANGED <<entry, condemned>>
        BY <3>1 DEF JudgePlain
      <4>4. /\ my'[p].out # None /\ my'[p].out.gen = entry.gen
            /\ \A q \in Proc : q # p => my'[q].out = my[q].out
        BY <3>0, <4>2, <4>3, Answered
      <4> QED BY <4>1, <4>3, <4>4, NoneAssumption DEF StoreBar
    <3>2. CASE ReuseRestore(p)
      <4>1. restore # None /\ restore.gen = my[p].judged.gen /\ pc[p] \in Materializing
        BY <3>2 DEF ReuseRestore, RestoreValid, Materializing
      <4>2. Compressed(restore.gen)
        BY <4>1 DEF IInv, Between
      <4>3. entry # None /\ entry.gen = restore.gen /\ restore.gen \in Build
        BY <3>0, <4>2 DEF Compressed, TypeInv, TypeOK, Entry
      <4>4. [gen |-> restore.gen, at |-> "restore"] \in HitPath
        BY <4>3 DEF HitPath
      <4>5. /\ Answer(p, [gen |-> restore.gen, at |-> "restore"])
            /\ UNCHANGED <<entry, condemned>>
        BY <3>2 DEF ReuseRestore
      <4>6. /\ my'[p].out # None /\ my'[p].out.gen = restore.gen
            /\ \A q \in Proc : q # p => my'[q].out = my[q].out
        BY <3>0, <4>4, <4>5, Answered
      <4> QED BY <4>3, <4>5, <4>6, NoneAssumption DEF StoreBar
    <3>3. CASE SettleRestore(p)
      <4>1. pc[p] \in Materializing
        BY <3>3 DEF SettleRestore, Materializing
      <4>2. Compressed(my[p].judged.gen)
        BY <4>1 DEF IInv, Between
      <4>3. entry # None /\ entry.gen = my[p].judged.gen /\ my[p].judged.gen \in Build
        BY <3>0, <4>2 DEF Compressed, TypeInv, TypeOK, Entry
      <4>4. [gen |-> my[p].judged.gen, at |-> "restore"] \in HitPath
        BY <4>3 DEF HitPath
      <4>5. /\ Answer(p, [gen |-> my[p].judged.gen, at |-> "restore"])
            /\ UNCHANGED <<entry, condemned>>
        BY <3>3 DEF SettleRestore
      <4>6. /\ my'[p].out # None /\ my'[p].out.gen = my[p].judged.gen
            /\ \A q \in Proc : q # p => my'[q].out = my[q].out
        BY <3>0, <4>4, <4>5, Answered
      <4> QED BY <4>3, <4>5, <4>6, NoneAssumption DEF StoreBar
    <3> QED BY <1>2, <3>1, <3>2, <3>3
  <2>2. AnswerBar' = [AnswerBar EXCEPT ![p] = StoreBar]
    BY <2>1, OneAnswer
  <2> QED BY <2>1, <2>2 DEF Cell!Hit, StoreBar, AnswerBar
<1>3. ASSUME NEW p \in Proc, Done(p) PROVE Cell!Forget(p)
  <2>1. /\ my'[p].out = None
        /\ \A q \in Proc : q # p => my'[q].out = my[q].out
        /\ UNCHANGED <<entry, condemned>>
    BY <1>3 DEF Done, Blank, IInv, Sound, TypeInv, TypeOK
  <2>2. AnswerBar' = [AnswerBar EXCEPT ![p] = None]
    BY <2>1, OneAnswer
  <2> QED BY <2>1, <2>2 DEF Cell!Forget, AnswerBar
<1>4. ASSUME NEW b \in Build, condemned' = condemned \cup {b}, StoreBar' = StoreBar,
             \A q \in Proc : my'[q].out = my[q].out
      PROVE  Cell!Condemn(b)
  BY <1>4, SameAnswer DEF Cell!Condemn, StoreBar, AnswerBar
<1>5. ASSUME NEW p \in Proc, Malformed(p) PROVE Cell!Next
  <2>1. entry.gen \in Build
    BY <1>5 DEF Malformed, IInv, Sound, TypeInv, TypeOK, Entry
  <2>2. /\ condemned' = condemned \cup {entry.gen}
        /\ StoreBar' = StoreBar
        /\ \A q \in Proc : my'[q].out = my[q].out
    BY <1>5 DEF Malformed, StoreBar, IInv, Sound, TypeInv, TypeOK
  <2> QED BY <2>1, <2>2, <1>4 DEF Cell!Next
<1>6. ASSUME NEW p \in Proc, Unavailable(p) PROVE [Cell!Next]_(Cell!vars)
  <2>1. my[p].judged.gen \in Build
    BY <1>6, JudgedBuild DEF Unavailable, IInv, Sound
  <2>2. StoreBar' = StoreBar /\ entry' = entry
    BY <1>6 DEF Unavailable, StoreBar
  <2>3. PICK digest \in {my[p].judged.gen, None} :
          /\ my' = [my EXCEPT ![p] = [Blank EXCEPT !.pend = digest]]
          /\ condemned' = condemned \cup ({digest} \ {None})
    BY <1>6 DEF Unavailable
  <2>4. \A q \in Proc : my'[q].out = my[q].out
    BY <1>6, <2>3 DEF Unavailable, Materializing, Blank, IInv, Sound, TypeInv, TypeOK,
       Remembered
  <2>5. CASE digest = None
    BY <2>2, <2>3, <2>4, <2>5, <1>1 DEF Quiet
  <2>6. CASE digest # None
    BY <2>1, <2>2, <2>3, <2>4, <2>6, <1>4 DEF Cell!Next
  <2> QED BY <2>5, <2>6
<1>7. ASSUME NEW p \in Proc, MoveEntry(p) \/ QuarantineEntry(p) PROVE Cell!Drop
  <2>1. /\ StoreBar \in condemned
        /\ StoreBar' = None
        /\ condemned' = condemned
        /\ \A q \in Proc : my'[q].out = my[q].out
    <3> USE DEF IInv, Sound, TypeInv, TypeOK, Remembered, Between, Compressed, Moving,
        Quarantining, Goto, StoreBar
    <3>1. CASE MoveEntry(p)
      BY <3>1 DEF MoveEntry
    <3>2. CASE QuarantineEntry(p)
      BY <3>2 DEF QuarantineEntry, Resume
    <3> QED BY <1>7, <3>1, <3>2
  <2> QED BY <2>1, SameAnswer DEF Cell!Drop, StoreBar, AnswerBar
<1>8. ASSUME NEW p \in Proc, Publish(p) \/ PublishFails(p)
      PROVE  [Cell!Next]_(Cell!vars)
  <2>1. /\ condemned' = condemned
        /\ \A q \in Proc : my'[q].out = my[q].out
    BY <1>8 DEF Publish, PublishFails, IInv, Sound, TypeInv, TypeOK
  <2>2. entry = None
    BY <1>8 DEF Publish, PublishFails, Goto, IInv, Between
  <2>3. CASE entry' = None
    BY <2>1, <2>2, <2>3, <1>1 DEF Quiet
  <2>4. CASE entry' # None
    <3>1. StoreBar' \in Build /\ StoreBar = None /\ StoreBar' = entry'.gen
      BY <1>0, <2>2, <2>4 DEF TypeInv, TypeOK, Entry, StoreBar
    <3>2. Cell!Publish(StoreBar')
      BY <2>1, <3>1, SameAnswer DEF Cell!Publish, StoreBar, AnswerBar
    <3> QED BY <3>1, <3>2 DEF Cell!Next
  <2> QED BY <2>3, <2>4
<1>9. ASSUME EntryRots PROVE Cell!Next
  <2>1. entry.gen \in Build
    BY <1>9 DEF EntryRots, Valid, IInv, Sound, TypeInv, TypeOK, Entry
  <2>2. StoreBar' = StoreBar /\ my' = my /\ condemned' = condemned \cup {entry.gen}
    BY <1>9, RotKeeps DEF EntryRots, StoreBar, IInv, Sound, TypeInv
  <2> QED BY <2>1, <2>2, <1>4 DEF Cell!Next
<1>10. ASSUME NEW p \in Proc, NEW b \in Build, BeginUpload(p, b) PROVE Quiet
  BY <1>10 DEF BeginUpload, Quiet, IInv, Sound, TypeInv, TypeOK
<1>11. ASSUME RestoreRots \/ UNCHANGED vars PROVE Quiet
  BY <1>11 DEF RestoreRots, vars, Quiet
<1> QED
  BY <1>0, <1>1, <1>2, <1>3, <1>5, <1>6, <1>7, <1>8, <1>9, <1>10, <1>11, QuietStep
  DEF Next, Step, Cell!Next

(* The store implements the write-once cell, for any number of clients and  *)
(* builds, as long as the lock excludes.                                    *)
THEOREM Refinement == ASSUME Exclusive PROVE Spec => ImplementsCell
<1>1. Init => Cell!Init
  BY DEF Init, Cell!Init, Blank
<1>2. IInv /\ IInv' /\ [Next]_vars => [Cell!Next]_(Cell!vars)
  BY CellStep
<1> QED BY <1>1, <1>2, InductiveInvariant, PTL DEF Spec, ImplementsCell, Cell!Spec

===============================================================================
