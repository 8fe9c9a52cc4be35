---------------------------- MODULE EventLogProofs ----------------------------
(****************************************************************************)
(* Theorems about EventLog for any number of processes, any cap and any     *)
(* retention. The argument: as long as no overlap is remembered, whoever is *)
(* at work is alone and has the lock; between its scan and its last removal *)
(* what the plan does not name is as few files as may stay; and whatever a  *)
(* scan without the lock has listed was there when it listed the last day,  *)
(* or is not found when it reads.                                           *)
(****************************************************************************)
EXTENDS EventLog, FiniteSetTheorems, TLAPS

Active == {"scan", "remove", "write", "publish"}

(* Who is alone has the lock, and nobody else is at work; without an        *)
(* overlap to remember everybody at work is alone.                          *)
Alone(p) ==
  my[p].alone => /\ pc[p] \in Active
                 /\ lock = p
                 /\ \A q \in Proc : pc[q] \in Working => q = p

Turn(p) ==
  /\ my[p].now <= clock
  /\ Alone(p)
  /\ ~crowd /\ pc[p] \in Working => lock = p /\ (pc[p] # "release" => my[p].alone)
  /\ pc[p] \in {"write", "publish"} => my[p].job = "record"

(* What the plan of p does not name.                                        *)
Staying(p) == {f \in files : \A c \in my[p].plan : Name(f) # Name(c)}

(* The plan of a process that has been alone since its scan.                *)
Planned(p) ==
  /\ \A f \in Staying(p) : f.kind # "temp"
  /\ Cardinality(Staying(p)) <= Survivors(my[p].job)
  /\ \A f \in Events, c \in my[p].plan : Name(f) = Name(c) => f = c
  /\ \A c \in my[p].plan :
       c.kind = "event" =>
         \/ Expired(c, my[p].now)
         \/ /\ Cardinality(Staying(p)) >= MaxCount - 1
            /\ \A g \in Staying(p) : g.kind = "event" => c.at <= g.at

Room(p) ==
  my[p].alone => /\ pc[p] = "remove" => Planned(p)
                 /\ pc[p] = "write" => Cardinality(files) <= MaxCount - 1

Stored ==
  /\ IsFiniteSet(files)
  /\ \A f \in files : f.id <= drawn

(* The files a scan has listed and would still find.                        *)
Pending == {f.id : f \in {g \in Events : Name(g) \in reader.names}}

Reading ==
  /\ reader.pc \in {"idle", "list", "read"}
  /\ reader.pc = "list" => reader.seen = {}
  /\ reader.pc \in {"list", "read"} =>
       /\ ~crowd
       /\ \A n \in reader.names :
            n.id <= drawn /\ (~n.temp => \A f \in files : f.id = n.id => f.kind # "temp")
  /\ reader.pc = "read" => Cardinality(reader.seen \cup Pending) <= MaxCount

IInv ==
  /\ TypeOK
  /\ Stored
  /\ \A p \in Proc : Turn(p) /\ Room(p)
  /\ CountBounded
  /\ Reading

------------------------------------------------------------------------------
(* Types and numbers.                                                       *)

(* The bounds are numbers.                                                  *)
LEMMA Numbers == /\ MaxCount \in Nat \ {0} /\ Retention \in Nat /\ MaxId \in Nat
                 /\ Day \subseteq Nat /\ 0 \in Day /\ Id \subseteq Nat /\ 0 \notin Id
  BY BoundsAssumption DEF Day, Id

(* A set of identifiers is finite.                                          *)
LEMMA IdsFinite == ASSUME NEW S \in SUBSET Id PROVE IsFiniteSet(S) /\ Cardinality(S) \in Nat
<1>1. IsFiniteSet(Id)
  BY FS_Interval, BoundsAssumption DEF Id
<1> QED
  BY <1>1, FS_Subset, FS_CardinalityType

(* There are no more identifiers than files.                                *)
LEMMA IdsBounded ==
  ASSUME NEW F, IsFiniteSet(F)
  PROVE  Cardinality({f.id : f \in F}) <= Cardinality(F)
<1> DEFINE T == {f.id : f \in F}
           h == [f \in F |-> f.id]
<1>1. h \in Surjection(F, T)
  BY DEF Surjection
<1> QED
  BY <1>1, FS_Surjection

(* One file in another's place: as many as before, or fewer.                *)
LEMMA Replaced ==
  ASSUME NEW F, IsFiniteSet(F), NEW f \in F, NEW g
  PROVE  LET G == (F \ {f}) \cup {g}
         IN  /\ IsFiniteSet(G) /\ Cardinality(G) \in Nat
             /\ Cardinality(G) <= Cardinality(F)
             /\ g \notin F => Cardinality(G) = Cardinality(F)
<1>1. /\ IsFiniteSet(F \ {f}) /\ Cardinality(F \ {f}) = Cardinality(F) - 1
      /\ Cardinality(F) \in Nat
  BY FS_RemoveElement, FS_CardinalityType
<1>2. LET G == (F \ {f}) \cup {g}
      IN  IsFiniteSet(G) /\ Cardinality(G) \in Nat
            /\ Cardinality(G) = IF g \in F \ {f} THEN Cardinality(F \ {f})
                                                 ELSE Cardinality(F \ {f}) + 1
  BY <1>1, FS_AddElement, FS_CardinalityType
<1> QED
  BY <1>1, <1>2

(* The temporary file of a process that publishes, and the event it becomes.*)
LEMMA Publishes ==
  ASSUME TypeOK, NEW p \in Proc, Publish(p)
  PROVE  \E t \in files : /\ t.kind = "temp" /\ Temporary(p) = {t}
                          /\ files' = (files \ {t}) \cup {[t EXCEPT !.kind = "event"]}
<1>1. PICK t \in Temporary(p) : TRUE
  BY DEF Publish
<1>2. Temporary(p) = {t} /\ t \in files /\ t.kind = "temp"
  BY <1>1 DEF Temporary, TypeOK
<1> QED
  BY <1>2 DEF Publish

------------------------------------------------------------------------------
(* The type invariant.                                                      *)

(* A process's memory keeps its type when its fields change.                *)
LEMMA MineOK ==
  ASSUME NEW r \in Memory
  PROVE  /\ \A c \in SUBSET File : [r EXCEPT !.plan = c] \in Memory
         /\ \A o \in Id : [r EXCEPT !.own = o] \in Memory
         /\ \A a \in BOOLEAN : [r EXCEPT !.alone = a] \in Memory
         /\ \A job \in {"record", "prune"}, d \in Day : [Blank EXCEPT !.job = job, !.now = d] \in Memory
         /\ Blank \in Memory
  BY Numbers DEF Memory, Blank

(* The scan's record keeps its type when its fields change.                 *)
LEMMA ReaderOK ==
  ASSUME NEW r \in Reader
  PROVE  /\ \A d \in SUBSET Day, n \in SUBSET [id : Id, temp : BOOLEAN], c \in {"list", "read"} :
              [r EXCEPT !.days = d, !.names = n, !.pc = c] \in Reader
         /\ \A n \in SUBSET [id : Id, temp : BOOLEAN], s \in SUBSET Id :
              [r EXCEPT !.names = n, !.seen = s] \in Reader
         /\ \A d \in SUBSET Day : [Resting EXCEPT !.pc = "list", !.days = d] \in Reader
         /\ Resting \in Reader /\ [Resting EXCEPT !.pc = "refused"] \in Reader
  BY DEF Reader, Resting

(* Every step keeps the types.                                              *)
LEMMA TypeStep == TypeOK /\ Stored /\ [Next]_vars => TypeOK'
<1> SUFFICES ASSUME TypeOK, Stored, Next PROVE TypeOK'
  BY DEF vars, TypeOK
<1> USE DEF Phase, Working, Goto
<1>1. ASSUME NEW p \in Proc, NEW job \in {"record", "prune"}, Call(p, job) PROVE TypeOK'
  BY <1>1, MineOK DEF Call, TypeOK
<1>2. ASSUME NEW p \in Proc, Acquire(p) PROVE TypeOK'
  <2>1. (AtWork = {}) \in BOOLEAN
    OBVIOUS
  <2> QED
    BY <1>2, <2>1, MineOK DEF Acquire, TypeOK
<1>3. ASSUME NEW p \in Proc, Overlap(p) PROVE TypeOK'
  <2>1. \A q \in Proc : [my[q] EXCEPT !.alone = FALSE] \in Memory
    BY MineOK DEF TypeOK
  <2>2. my' \in [Proc -> Memory] /\ pc' \in [Proc -> Phase] /\ reader' \in Reader
    BY <1>3, <2>1, ReaderOK DEF Overlap, TypeOK
  <2> QED
    BY <1>3, <2>2 DEF Overlap, TypeOK
<1>4. ASSUME NEW p \in Proc, Busy(p) \/ Report(p) \/ Crash(p) PROVE TypeOK'
  BY <1>4, MineOK DEF Busy, Report, Crash, TypeOK
<1>5. ASSUME NEW p \in Proc, Release(p) PROVE TypeOK'
  BY <1>5 DEF Release, TypeOK
<1>6. ASSUME NEW p \in Proc, Scan(p) PROVE TypeOK'
  <2>1. PICK c \in SUBSET File : my' = [my EXCEPT ![p] = [my[p] EXCEPT !.plan = c]]
    BY <1>6 DEF Scan, TypeOK, Events
  <2> QED
    BY <1>6, <2>1, MineOK DEF Scan, TypeOK
<1>7. ASSUME NEW p \in Proc, Remove(p) PROVE TypeOK'
  <2>1. PICK c \in SUBSET File : my' = [my EXCEPT ![p] = [my[p] EXCEPT !.plan = c]]
    BY <1>7 DEF Remove, TypeOK, Memory
  <2>2. files' \subseteq files
    BY <1>7 DEF Remove
  <2> QED
    BY <1>7, <2>1, <2>2, MineOK DEF Remove, TypeOK
<1>8. ASSUME NEW p \in Proc, Retained(p) PROVE TypeOK'
  <2>1. (crowd /\ ~my[p].alone) \in BOOLEAN
    OBVIOUS
  <2> QED
    BY <1>8, <2>1, MineOK DEF Retained, TypeOK
<1>9. ASSUME NEW p \in Proc, Write(p) PROVE TypeOK'
  <2>1. drawn' \in Id /\ drawn' = drawn + 1 /\ my' = [my EXCEPT ![p] = [my[p] EXCEPT !.own = drawn']]
    BY <1>9, Numbers DEF Write, TypeOK, Id
  <2>2. PICK t \in File : t.id = drawn' /\ files' = files \cup {t}
    BY <1>9, <2>1 DEF Write, TypeOK, Memory, File
  <2>3. \A g \in files : g.id # drawn'
    BY <2>1, Numbers DEF Stored, TypeOK, File
  <2>4. /\ files' \subseteq File
        /\ \A f, g \in files' : f.id = g.id => f = g
    BY <2>2, <2>3 DEF TypeOK
  <2>5. drawn' \in 0 .. MaxId
    BY <2>1, Numbers DEF Id
  <2>6. my' \in [Proc -> Memory]
    BY <2>1, MineOK DEF TypeOK
  <2>7. pc' \in [Proc -> Phase] /\ UNCHANGED <<clock, lock, reader, crowd>>
    BY <1>9 DEF Write, TypeOK
  <2> QED
    BY <2>4, <2>5, <2>6, <2>7 DEF TypeOK
<1>10. ASSUME NEW p \in Proc, Publish(p) PROVE TypeOK'
  <2>1. PICK t \in files : files' = (files \ {t}) \cup {[t EXCEPT !.kind = "event"]}
    BY <1>10, Publishes
  <2>2. /\ files' \subseteq File
        /\ \A f, g \in files' : f.id = g.id => f = g
    BY <2>1 DEF TypeOK, File
  <2> QED
    BY <1>10, <2>2, MineOK DEF Publish, TypeOK
<1>11. ASSUME NEW p \in Proc, Fails(p) PROVE TypeOK'
  BY <1>11, MineOK DEF Fails, TypeOK
<1>12. CASE StartScan
  <2>1. {f.at : f \in files} \in SUBSET Day
    BY DEF TypeOK, File
  <2> QED
    BY <1>12, <2>1, ReaderOK DEF StartScan, TypeOK
<1>13. CASE ListDay
  <2>1. PICK d \in reader.days :
          reader' = [reader EXCEPT !.days = reader.days \ {d},
                                   !.names = reader.names \cup {Name(f) : f \in {g \in files : g.at = d}},
                                   !.pc = IF reader.days = {d} THEN "read" ELSE reader.pc]
    BY <1>13 DEF ListDay
  <2>2. \A f \in files : Name(f) \in [id : Id, temp : BOOLEAN]
    <3> SUFFICES ASSUME NEW f \in files PROVE Name(f) \in [id : Id, temp : BOOLEAN]
      OBVIOUS
    <3>1. f.id \in Id /\ (f.kind = "temp") \in BOOLEAN
      BY DEF TypeOK, File
    <3> QED
      BY <3>1 DEF Name
  <2>3. /\ reader.days \ {d} \in SUBSET Day
        /\ reader.names \cup {Name(f) : f \in {g \in files : g.at = d}} \in SUBSET [id : Id, temp : BOOLEAN]
        /\ (IF reader.days = {d} THEN "read" ELSE reader.pc) \in {"list", "read"}
    BY <1>13, <2>2 DEF ListDay, TypeOK, Reader
  <2>4. reader' \in Reader
    BY <2>1, <2>3, ReaderOK DEF TypeOK
  <2> QED
    BY <1>13, <2>4 DEF ListDay, TypeOK
<1>14. CASE ReadFile
  <2>1. PICK n \in reader.names :
          reader' = [reader EXCEPT !.names = reader.names \ {n},
                                   !.seen = reader.seen \cup {f.id : f \in {g \in Events : Name(g) = n}}]
    BY <1>14 DEF ReadFile
  <2>2. /\ reader.names \ {n} \in SUBSET [id : Id, temp : BOOLEAN]
        /\ reader.seen \cup {f.id : f \in {g \in Events : Name(g) = n}} \in SUBSET Id
    BY DEF TypeOK, Reader, File, Events
  <2>3. reader' \in Reader
    BY <2>1, <2>2, ReaderOK DEF TypeOK
  <2> QED
    BY <1>14, <2>3 DEF ReadFile, TypeOK
<1>15. CASE Summarize
  BY <1>15, ReaderOK DEF Summarize, TypeOK
<1>16. CASE Tick
  BY <1>16, BoundsAssumption DEF Tick, TypeOK, Day
<1>17. CASE Rot
  <2>1. PICK t \in files : files' = (files \ {t}) \cup {[t EXCEPT !.kind = "invalid"]}
    BY <1>17 DEF Rot, Events
  <2>2. /\ files' \subseteq File
        /\ \A f, g \in files' : f.id = g.id => f = g
    BY <2>1 DEF TypeOK, File
  <2> QED
    BY <1>17, <2>2 DEF Rot, TypeOK
<1> QED
  BY <1>1, <1>2, <1>3, <1>4, <1>5, <1>6, <1>7, <1>8, <1>9, <1>10, <1>11, <1>12, <1>13, <1>14,
     <1>15, <1>16, <1>17 DEF Next
------------------------------------------------------------------------------
(* Who is at work.                                                          *)

(* A step of p that does not begin to work or to be alone.                  *)
LEMMA TurnsOn ==
  ASSUME IInv, NEW p \in Proc, lock' = lock, clock' = clock, ~crowd' => ~crowd \/ my[p].alone,
         pc'[p] \in Working => pc[p] \in Working,
         pc'[p] \in Active => pc[p] \in Active,
         pc'[p] \in Active /\ my[p].alone => my'[p].alone,
         my'[p].alone => pc'[p] \in Active /\ my[p].alone,
         my'[p].now = my[p].now \/ my'[p].now \in {0, clock},
         pc'[p] \in {"write", "publish"} => my'[p].job = "record",
         \A q \in Proc \ {p} : pc'[q] = pc[q] /\ my'[q] = my[q]
  PROVE  \A q \in Proc : Turn(q)'
<1>1. \A q \in Proc : my'[q].now <= clock'
  BY Numbers DEF IInv, Turn, TypeOK
<1>2. \A q \in Proc : Alone(q)'
  BY DEF IInv, Turn, Alone
<1>3. \A q \in Proc : /\ ~crowd' /\ pc'[q] \in Working =>
                           lock' = q /\ (pc'[q] # "release" => my'[q].alone)
                      /\ pc'[q] \in {"write", "publish"} => my'[q].job = "record"
  BY DEF IInv, Turn, Alone, Active, Working
<1> QED
  BY <1>1, <1>2, <1>3 DEF Turn

(* Every step leaves whoever is alone alone.                                *)
LEMMA TurnStep == IInv /\ Next => \A q \in Proc : Turn(q)'
<1> SUFFICES ASSUME IInv, Next PROVE \A q \in Proc : Turn(q)'
  OBVIOUS
<1> USE DEF Goto
<1>0. /\ clock \in Nat /\ Blank.now = 0 /\ ~Blank.alone
      /\ pc \in [Proc -> Phase] /\ my \in [Proc -> Memory]
  BY Numbers DEF IInv, TypeOK, Blank
<1>1. ASSUME NEW p \in Proc, NEW job \in {"record", "prune"}, Call(p, job)
      PROVE  \A q \in Proc : Turn(q)'
  <2>1. my' = [my EXCEPT ![p] = [Blank EXCEPT !.job = job, !.now = clock]]
    BY <1>1 DEF Call
  <2>2. my'[p].now = clock /\ ~my'[p].alone
    BY <1>0, <2>1 DEF Blank
  <2>3. /\ pc'[p] = "wait" /\ UNCHANGED <<clock, lock, crowd>>
        /\ \A q \in Proc \ {p} : pc'[q] = pc[q] /\ my'[q] = my[q]
    BY <1>0, <1>1 DEF Call
  <2>4. /\ lock' = lock /\ clock' = clock /\ (~crowd' => ~crowd \/ my[p].alone)
        /\ pc'[p] \notin Working /\ pc'[p] \notin Active /\ pc'[p] \notin {"write", "publish"}
        /\ my'[p].now \in {0, clock}
    BY <2>2, <2>3 DEF Working, Active
  <2> QED
    BY <2>2, <2>3, <2>4, TurnsOn
<1>2. ASSUME NEW p \in Proc, Acquire(p) PROVE \A q \in Proc : Turn(q)'
  <2>1. \A q \in Proc : ~my[q].alone /\ (~crowd => pc[q] \notin Working)
    BY <1>2, NoneAssumption DEF Acquire, Free, IInv, Turn, Alone, Active, Working
  <2>2. my'[p].alone <=> AtWork = {}
    BY <1>0, <1>2 DEF Acquire, Memory
  <2>3. my'[p].now = my[p].now
    BY <1>0, <1>2 DEF Acquire, Memory
  <2>4. /\ pc' = [pc EXCEPT ![p] = "scan"] /\ lock' = p /\ UNCHANGED <<clock, crowd>>
        /\ \A q \in Proc \ {p} : my'[q] = my[q]
    BY <1>0, <1>2 DEF Acquire
  <2> QED
    BY <1>0, <2>1, <2>2, <2>3, <2>4 DEF IInv, Turn, Alone, Active, Working, AtWork
<1>3. ASSUME NEW p \in Proc, Overlap(p) PROVE \A q \in Proc : Turn(q)'
  <2>1. \A q \in Proc : /\ ~my'[q].alone /\ my'[q].now = my[q].now /\ my'[q].job = my[q].job
    BY <1>0, <1>3 DEF Overlap, Memory
  <2>2. crowd' /\ pc' = [pc EXCEPT ![p] = "scan"] /\ clock' = clock
    BY <1>3 DEF Overlap
  <2> QED
    BY <1>0, <2>1, <2>2 DEF IInv, Turn, Alone
<1>4. ASSUME NEW p \in Proc, Busy(p) \/ Report(p) \/ Crash(p) \/ Fails(p) \/ Publish(p)
      PROVE  \A q \in Proc : Turn(q)'
  <2>1. /\ my' = [my EXCEPT ![p] = Blank] /\ UNCHANGED <<clock, lock, crowd>>
        /\ pc[p] # "release" \/ pc'[p] = "dead"
        /\ pc'[p] \in {"idle", "release", "dead"} /\ \A q \in Proc \ {p} : pc'[q] = pc[q]
        /\ pc'[p] = "release" => pc[p] \in Working
    BY <1>0, <1>4 DEF Busy, Report, Crash, Fails, Publish, Working
  <2> QED
    BY <1>0, <2>1, TurnsOn DEF Active, Working
<1>5. ASSUME NEW p \in Proc, Release(p) PROVE \A q \in Proc : Turn(q)'
  <2>1. ~my[p].alone
    BY <1>5 DEF Release, IInv, Turn, Alone, Active
  <2> QED
    BY <1>0, <1>5, <2>1 DEF Release, IInv, Turn, Alone, Active, Working
<1>6. ASSUME NEW p \in Proc, Scan(p) PROVE \A q \in Proc : Turn(q)'
  <2>1. PICK c : my' = [my EXCEPT ![p] = [my[p] EXCEPT !.plan = c]]
    BY <1>6 DEF Scan
  <2>2. my'[p].alone = my[p].alone /\ my'[p].now = my[p].now
    BY <1>0, <2>1 DEF Memory
  <2> QED
    BY <1>0, <1>6, <2>1, <2>2, TurnsOn DEF Scan, Active, Working
<1>7. ASSUME NEW p \in Proc, Remove(p) PROVE \A q \in Proc : Turn(q)'
  <2>1. PICK c : my' = [my EXCEPT ![p] = [my[p] EXCEPT !.plan = c]]
    BY <1>7 DEF Remove
  <2>2. my'[p].alone = my[p].alone /\ my'[p].now = my[p].now
    BY <1>0, <2>1 DEF Memory
  <2> QED
    BY <1>0, <1>7, <2>1, <2>2, TurnsOn DEF Remove, Active, Working
<1>8. ASSUME NEW p \in Proc, Retained(p) PROVE \A q \in Proc : Turn(q)'
  <2>1. ~crowd' => ~crowd \/ my[p].alone
    BY <1>8 DEF Retained
  <2>2. CASE my[p].job = "record"
    BY <1>0, <1>8, <2>1, <2>2, TurnsOn DEF Retained, Active, Working
  <2>3. CASE my[p].job = "prune"
    BY <1>0, <1>8, <2>1, <2>3, TurnsOn DEF Retained, Active, Working
  <2> QED
    BY <1>8, <2>2, <2>3 DEF Retained
<1>9. ASSUME NEW p \in Proc, Write(p) PROVE \A q \in Proc : Turn(q)'
  <2>1. PICK o : my' = [my EXCEPT ![p] = [my[p] EXCEPT !.own = o]]
    BY <1>9 DEF Write
  <2>2. my'[p].alone = my[p].alone /\ my'[p].now = my[p].now /\ my'[p].job = "record"
    BY <1>0, <1>9, <2>1 DEF Memory, Write, IInv, Turn
  <2> QED
    BY <1>0, <1>9, <2>1, <2>2, TurnsOn DEF Write, Active, Working
<1>10. CASE StartScan \/ ListDay \/ ReadFile \/ Summarize \/ Rot
  <2>1. UNCHANGED <<clock, lock, pc, my, crowd>>
    BY <1>10 DEF StartScan, ListDay, ReadFile, Summarize, Rot
  <2> QED
    BY <2>1 DEF IInv, Turn, Alone
<1>11. CASE Tick
  BY <1>0, <1>11 DEF Tick, IInv, Turn, Alone, Memory, Day
<1> QED
  BY <1>1, <1>2, <1>3, <1>4, <1>5, <1>6, <1>7, <1>8, <1>9, <1>10, <1>11 DEF Next
------------------------------------------------------------------------------
(* How many files there are.                                                *)

(* Who is at work is alone, or nobody is.                                   *)
LEMMA NobodyElse ==
  ASSUME IInv, NEW p \in Proc, pc[p] \in Working, NEW q \in Proc \ {p}
  PROVE  ~my[q].alone
  BY DEF IInv, Turn, Alone

(* A step that leaves the files as they are, and who removes and writes too.*)
LEMMA RoomOn ==
  ASSUME IInv, files' = files, drawn' = drawn, ~crowd' => ~crowd,
         \A q \in Proc : my'[q].alone /\ pc'[q] \in {"remove", "write"} =>
                           my'[q] = my[q] /\ pc'[q] = pc[q]
  PROVE  Stored' /\ CountBounded' /\ \A q \in Proc : Room(q)'
<1>1. Stored' /\ CountBounded'
  BY DEF IInv, Stored, CountBounded
<1>2. ASSUME NEW q \in Proc, my'[q].alone, pc'[q] \in {"remove", "write"} PROVE Room(q)'
  <2>1. my'[q] = my[q] /\ pc'[q] = pc[q] /\ Room(q)
    BY <1>2 DEF IInv
  <2>2. Staying(q)' = Staying(q) /\ Events' = Events
    BY <2>1 DEF Staying, Events
  <2>3. Planned(q) => Planned(q)'
    BY <2>1, <2>2 DEF Planned
  <2> QED
    BY <2>1, <2>3 DEF Room
<1> QED
  BY <1>1, <1>2 DEF Room

(* The same for a step of p that removes files or puts one in another's     *)
(* place, p going on to neither a removal nor a write.                      *)
LEMMA RoomAfter ==
  ASSUME IInv, NEW p \in Proc, pc[p] \in Working, pc'[p] \notin {"remove", "write"},
         \A q \in Proc \ {p} : my'[q] = my[q]
  PROVE  \A q \in Proc : Room(q)'
  BY NobodyElse DEF Room

(* What retention selects leaves no more than may stay, oldest first.       *)
LEMMA ScanRoom ==
  ASSUME IInv, NEW p \in Proc, Scan(p), my[p].alone
  PROVE  Planned(p)'
<1> DEFINE now == my[p].now
           expired == {f \in Events : Expired(f, now)}
           S == Events \ expired
<1>1. PICK T \in SUBSET S :
        /\ Excess(T, S, Survivors(my[p].job))
        /\ my' = [my EXCEPT ![p] = [my[p] EXCEPT !.plan = (files \ Events) \cup expired \cup T]]
  BY DEF Scan
<1>2. /\ my'[p].plan = (files \ Events) \cup expired \cup T
      /\ my'[p].job = my[p].job /\ my'[p].now = now /\ files' = files
  BY <1>1 DEF IInv, TypeOK, Memory, Scan
<1>3. \A f, g \in files : Name(f) = Name(g) => f = g
  BY DEF IInv, TypeOK, Name
<1>4. Staying(p)' = S \ T /\ Events' = Events
  <2>1. Events \subseteq files /\ Events' = Events
    BY <1>2 DEF Events
  <2>2. \A f \in files : (\A c \in my'[p].plan : Name(f) # Name(c)) <=> f \notin my'[p].plan
    BY <1>2, <1>3, <2>1
  <2> QED
    BY <1>2, <2>1, <2>2 DEF Staying
<1>5. /\ IsFiniteSet(S) /\ Cardinality(S) \in Nat /\ Cardinality(T) \in Nat
      /\ Cardinality(S \ T) = Cardinality(S) - Cardinality(T)
  <2>1. S \in SUBSET files /\ S \cap T = T
    BY DEF Events
  <2>2. IsFiniteSet(S)
    BY <2>1, FS_Subset DEF IInv, Stored
  <2>3. IsFiniteSet(T)
    BY <2>2, FS_Subset
  <2> QED
    BY <2>1, <2>2, <2>3, FS_Difference, FS_CardinalityType
<1>6. Survivors(my[p].job) \in Nat /\ Survivors(my[p].job) >= MaxCount - 1
  BY Numbers DEF Survivors
<1>7. /\ Cardinality(S \ T) <= Survivors(my[p].job)
      /\ T # {} => Cardinality(S \ T) >= MaxCount - 1
  <2>1. Cardinality(T) = IF Cardinality(S) > Survivors(my[p].job)
                           THEN Cardinality(S) - Survivors(my[p].job) ELSE 0
    BY <1>1 DEF Excess
  <2>2. Cardinality(T) = 0 => T = {}
    BY <1>5, FS_EmptySet, FS_Subset
  <2> QED
    BY <1>5, <1>6, <2>1, <2>2, Numbers
<1>8. \A f \in S \ T : f.kind # "temp"
  BY DEF Events
<1>9. \A f \in Events, c \in my'[p].plan : Name(f) = Name(c) => f = c
  BY <1>2, <1>3 DEF Events
<1>10. ASSUME NEW c \in my'[p].plan, c.kind = "event", ~Expired(c, now)
       PROVE  /\ Cardinality(S \ T) >= MaxCount - 1
              /\ \A g \in S \ T : g.kind = "event" => c.at <= g.at
  <2>1. c \in T
    BY <1>2, <1>10 DEF Events
  <2> QED
    BY <1>1, <1>7, <2>1 DEF Excess, First
<1> QED
  BY <1>2, <1>4, <1>7, <1>8, <1>9, <1>10 DEF Planned

(* A removal leaves what the plan does not name.                            *)
LEMMA RemoveRoom ==
  ASSUME IInv, NEW p \in Proc, Remove(p), my[p].alone
  PROVE  Planned(p)'
<1>1. PICK c \in my[p].plan :
        /\ files' = {g \in files : Name(g) # Name(c)}
        /\ my' = [my EXCEPT ![p] = [my[p] EXCEPT !.plan = my[p].plan \ {c}]]
  BY DEF Remove
<1>2. /\ my'[p].plan = my[p].plan \ {c}
      /\ my'[p].job = my[p].job /\ my'[p].now = my[p].now
  BY <1>1 DEF IInv, TypeOK, Memory
<1>3. Staying(p)' = Staying(p)
  BY <1>1, <1>2 DEF Staying
<1>4. Events' \subseteq Events
  BY <1>1 DEF Events
<1>5. Planned(p)
  BY DEF IInv, Room, Remove
<1> QED
  BY <1>2, <1>3, <1>4, <1>5 DEF Planned

(* A file that goes bad counts on, and keeps its name.                      *)
LEMMA RotRoom ==
  ASSUME IInv, Rot
  PROVE  /\ IsFiniteSet(files') /\ Cardinality(files') = Cardinality(files)
         /\ \A f \in files' : f.id <= drawn
         /\ \A p \in Proc : Planned(p) => Planned(p)'
<1>1. PICK f \in Events : files' = (files \ {f}) \cup {[f EXCEPT !.kind = "invalid"]}
  BY DEF Rot
<1>2. PICK g : g = [f EXCEPT !.kind = "invalid"]
  OBVIOUS
<1>3. /\ g.id = f.id /\ g.at = f.at /\ g.kind = "invalid" /\ Name(g) = Name(f)
      /\ f \in files /\ f.kind = "event" /\ g \notin files
  BY <1>2 DEF IInv, TypeOK, File, Events, Name, Rot
<1>4. files' = (files \ {f}) \cup {g}
  BY <1>1, <1>2
<1>5. IsFiniteSet(files') /\ Cardinality(files') = Cardinality(files)
  BY <1>3, <1>4, Replaced DEF IInv, Stored
<1>6. \A h \in files' : h.id <= drawn
  BY <1>3, <1>4 DEF IInv, Stored
<1>7. ASSUME NEW p \in Proc, Planned(p) PROVE Planned(p)'
  <2>1. my' = my /\ Events' \subseteq Events
    BY <1>3, <1>4 DEF Rot, Events
  <2>2. Staying(p)' = IF f \in Staying(p) THEN (Staying(p) \ {f}) \cup {g} ELSE Staying(p)
    BY <1>3, <1>4, <2>1 DEF Staying
  <2>3. Staying(p) \in SUBSET files
    BY DEF Staying
  <2>4. Cardinality(Staying(p)') = Cardinality(Staying(p))
    <3>1. IsFiniteSet(Staying(p)) /\ g \notin Staying(p)
      BY <1>3, <2>3, FS_Subset DEF IInv, Stored
    <3> QED
      BY <2>2, <3>1, Replaced
  <2>5. \A h \in Staying(p)' : h.kind # "temp" /\ (h.kind = "event" => h \in Staying(p))
    BY <1>3, <1>7, <2>2 DEF Planned
  <2> QED
    BY <1>7, <2>1, <2>4, <2>5 DEF Planned
<1> QED
  BY <1>5, <1>6, <1>7

(* A step that only removes files.                                          *)
LEMMA Fewer ==
  ASSUME IInv, files' \subseteq files, drawn' = drawn
  PROVE  Stored' /\ (~crowd => Cardinality(files') <= MaxCount)
<1>1. IsFiniteSet(files') /\ Cardinality(files') <= Cardinality(files)
  BY FS_Subset DEF IInv, Stored
<1>2. Cardinality(files) \in Nat /\ Cardinality(files') \in Nat
  BY <1>1, FS_CardinalityType DEF IInv, Stored
<1> QED
  BY <1>1, <1>2, Numbers DEF IInv, Stored, CountBounded

(* Every step keeps the log within its bounds.                              *)
LEMMA FilesStep ==
  ASSUME IInv, Next
  PROVE  Stored' /\ CountBounded' /\ \A q \in Proc : Room(q)'
<1> USE DEF Goto
<1>0. /\ pc \in [Proc -> Phase] /\ my \in [Proc -> Memory] /\ ~Blank.alone
      /\ Cardinality(files) \in Nat
  BY FS_CardinalityType DEF IInv, TypeOK, Stored, Blank
<1> DEFINE Fine == Stored' /\ CountBounded' /\ \A q \in Proc : Room(q)'
<1>1. ASSUME NEW p \in Proc, NEW job \in {"record", "prune"}, Call(p, job) PROVE Fine
  BY <1>0, <1>1, RoomOn DEF Call
<1>2. ASSUME NEW p \in Proc, Acquire(p) PROVE Fine
  BY <1>0, <1>2, RoomOn DEF Acquire
<1>3. ASSUME NEW p \in Proc, Overlap(p) PROVE Fine
  <2>1. \A q \in Proc : ~my'[q].alone
    BY <1>0, <1>3 DEF Overlap, Memory
  <2> QED
    BY <1>3, <2>1, RoomOn DEF Overlap
<1>4. ASSUME NEW p \in Proc, Busy(p) \/ Report(p) \/ Crash(p) \/ Release(p) PROVE Fine
  BY <1>0, <1>4, RoomOn DEF Busy, Report, Crash, Release
<1>5. ASSUME NEW p \in Proc, Scan(p) PROVE Fine
  <2>1. /\ UNCHANGED <<files, drawn, crowd>> /\ pc[p] \in Working /\ pc'[p] = "remove"
        /\ \A q \in Proc \ {p} : my'[q] = my[q]
    BY <1>0, <1>5 DEF Scan, Working
  <2>2. my'[p].alone => my[p].alone
    <3>1. PICK c : my' = [my EXCEPT ![p] = [my[p] EXCEPT !.plan = c]]
      BY <1>5 DEF Scan
    <3> QED
      BY <1>0, <3>1 DEF Memory
  <2>3. Room(p)'
    BY <1>5, <2>1, <2>2, ScanRoom DEF Room
  <2>4. \A q \in Proc \ {p} : Room(q)'
    BY <2>1, NobodyElse DEF Room
  <2> QED
    BY <2>1, <2>3, <2>4 DEF IInv, Stored, CountBounded
<1>6. ASSUME NEW p \in Proc, Remove(p) PROVE Fine
  <2>1. /\ files' \subseteq files /\ UNCHANGED <<drawn, crowd>>
        /\ pc[p] \in Working /\ pc'[p] = "remove"
        /\ \A q \in Proc \ {p} : my'[q] = my[q]
    BY <1>0, <1>6 DEF Remove, Working
  <2>2. my'[p].alone => my[p].alone
    <3>1. PICK c : my' = [my EXCEPT ![p] = [my[p] EXCEPT !.plan = c]]
      BY <1>6 DEF Remove
    <3> QED
      BY <1>0, <3>1 DEF Memory
  <2>3. Room(p)'
    BY <1>6, <2>1, <2>2, RemoveRoom DEF Room
  <2>4. \A q \in Proc \ {p} : Room(q)'
    BY <2>1, NobodyElse DEF Room
  <2> QED
    BY <2>1, <2>3, <2>4, Fewer DEF CountBounded
<1>7. ASSUME NEW p \in Proc, Retained(p) PROVE Fine
  <2>1. /\ UNCHANGED <<files, drawn>> /\ pc[p] = "remove" /\ pc'[p] # "remove" /\ pc[p] \in Working
        /\ \A q \in Proc \ {p} : my'[q] = my[q]
        /\ ~crowd' => ~crowd \/ my[p].alone
        /\ pc'[p] = "write" => my'[p] = my[p] /\ my[p].job = "record"
    BY <1>0, <1>7 DEF Retained, Working
  <2>2. my[p].alone => Cardinality(files) <= Survivors(my[p].job)
    <3>1. Staying(p) = files
      BY <1>7 DEF Retained, Staying
    <3> QED
      BY <2>1, <3>1 DEF IInv, Room, Planned
  <2>3. ~crowd' => Cardinality(files) <= MaxCount
    BY <1>0, <2>1, <2>2, Numbers DEF Survivors, IInv, CountBounded
  <2>4. Room(p)'
    BY <2>1, <2>2 DEF Survivors, Room
  <2>5. \A q \in Proc \ {p} : Room(q)'
    BY <2>1, NobodyElse DEF Room
  <2> QED
    BY <2>1, <2>3, <2>4, <2>5 DEF IInv, Stored, CountBounded
<1>8. ASSUME NEW p \in Proc, Write(p) PROVE Fine
  <2>1. PICK f : f.id = drawn' /\ files' = files \cup {f}
    BY <1>8 DEF Write
  <2>2. /\ drawn' = drawn + 1 /\ drawn \in Nat /\ crowd' = crowd /\ pc[p] = "write" /\ pc'[p] = "publish"
        /\ \A q \in Proc \ {p} : my'[q] = my[q]
    BY <1>0, <1>8, Numbers DEF Write, IInv, TypeOK
  <2>3. /\ IsFiniteSet(files') /\ Cardinality(files') \in Nat
        /\ Cardinality(files') <= Cardinality(files) + 1
    <3>1. IsFiniteSet(files)
      BY DEF IInv, Stored
    <3>2. /\ IsFiniteSet(files')
          /\ Cardinality(files') = IF f \in files THEN Cardinality(files) ELSE Cardinality(files) + 1
      BY <2>1, <3>1, FS_AddElement
    <3> QED
      BY <1>0, <3>2
  <2>4. Stored'
    <3>1. \A g \in files : g.id \in Nat /\ g.id <= drawn
      BY Numbers DEF IInv, Stored, TypeOK, File
    <3>2. \A g \in files' : g.id <= drawn'
      BY <2>1, <2>2, <3>1
    <3> QED
      BY <2>3, <3>2 DEF Stored
  <2>5. ~crowd => Cardinality(files) <= MaxCount - 1
    BY <2>2 DEF IInv, Turn, Room, Working
  <2>6. CountBounded'
    BY <1>0, <2>2, <2>3, <2>5, Numbers DEF CountBounded
  <2> QED
    BY <2>2, <2>4, <2>6, RoomAfter DEF Working
<1>9. ASSUME NEW p \in Proc, Publish(p) PROVE Fine
  <2>1. PICK t \in files : files' = (files \ {t}) \cup {[t EXCEPT !.kind = "event"]}
    BY <1>9, Publishes DEF IInv
  <2>2. PICK e : e = [t EXCEPT !.kind = "event"]
    OBVIOUS
  <2>3. e.id = t.id /\ files' = (files \ {t}) \cup {e}
    BY <2>1, <2>2 DEF IInv, TypeOK, File
  <2>4. IsFiniteSet(files') /\ Cardinality(files') \in Nat /\ Cardinality(files') <= Cardinality(files)
    BY <2>3, Replaced DEF IInv, Stored
  <2>5. /\ UNCHANGED <<drawn, crowd>> /\ pc[p] \in Working /\ pc'[p] = "release"
        /\ \A q \in Proc \ {p} : my'[q] = my[q]
    BY <1>0, <1>9 DEF Publish, Working
  <2>6. Stored' /\ CountBounded'
    BY <1>0, <2>3, <2>4, <2>5, Numbers DEF IInv, Stored, CountBounded
  <2> QED
    BY <2>5, <2>6, RoomAfter
<1>10. ASSUME NEW p \in Proc, Fails(p) PROVE Fine
  <2>1. /\ files' \subseteq files /\ UNCHANGED <<drawn, crowd>>
        /\ pc[p] \in Working /\ pc'[p] = "release"
        /\ \A q \in Proc \ {p} : my'[q] = my[q]
    BY <1>0, <1>10 DEF Fails, Working
  <2>2. Stored' /\ CountBounded'
    BY <2>1, Fewer DEF CountBounded
  <2> QED
    BY <2>1, <2>2, RoomAfter
<1>11. CASE StartScan \/ ListDay \/ ReadFile \/ Summarize \/ Tick
  <2>1. UNCHANGED <<files, drawn, pc, my, crowd>>
    BY <1>11 DEF StartScan, ListDay, ReadFile, Summarize, Tick
  <2> QED
    BY <2>1, RoomOn
<1>12. CASE Rot
  <2>1. UNCHANGED <<drawn, crowd, pc, my>>
    BY <1>12 DEF Rot
  <2>2. Stored' /\ CountBounded'
    BY <1>12, <2>1, RotRoom DEF IInv, Stored, CountBounded
  <2>3. \A q \in Proc : Room(q)'
    BY <1>12, <2>1, RotRoom DEF IInv, Room
  <2> QED
    BY <2>2, <2>3
<1> QED
  BY <1>1, <1>2, <1>3, <1>4, <1>5, <1>6, <1>7, <1>8, <1>9, <1>10, <1>11, <1>12 DEF Next

------------------------------------------------------------------------------
(* The scan without the lock.                                               *)
LEMMA SeenFinite ==
  ASSUME TypeOK
  PROVE  reader.seen \cup Pending \in SUBSET Id
  BY DEF TypeOK, Reader, Pending, Events, File

(* What a step of somebody else leaves of what the scan may still find.     *)
LEMMA ReadingOn ==
  ASSUME IInv, reader' = reader, ~crowd => ~crowd', drawn' \in Nat, drawn <= drawn',
         \A f \in files' : f.kind = "temp" => f \in files \/ drawn < f.id,
         \A f \in Events' : f \in Events \/ \E t \in files : t.kind = "temp" /\ t.id = f.id
  PROVE  Reading'
<1>1. drawn \in Nat /\ \A n \in reader.names : n.id \in Nat
  <2>1. drawn \in Nat
    BY Numbers DEF IInv, TypeOK
  <2>2. reader.names \in SUBSET [id : Id, temp : BOOLEAN]
    BY DEF IInv, TypeOK, Reader
  <2> QED
    BY <2>1, <2>2, Numbers
<1>2. CASE reader.pc \in {"list", "read"}
  <2>1. ASSUME NEW n \in reader.names
        PROVE  n.id <= drawn' /\ (~n.temp => \A f \in files' : f.id = n.id => f.kind # "temp")
    BY <1>1, <1>2, <2>1 DEF IInv, Reading
  <2>2. Pending' \subseteq Pending
    <3>1. \A f \in Events' : Name(f) \in reader.names => f \in Events
      <4> SUFFICES ASSUME NEW f \in Events', Name(f) \in reader.names, f \notin Events
                   PROVE  FALSE
        OBVIOUS
      <4>1. PICK t \in files : t.kind = "temp" /\ t.id = f.id
        OBVIOUS
      <4>2. ~Name(f).temp /\ Name(f).id = f.id
        BY DEF Events, Name
      <4> QED
        BY <1>2, <4>1, <4>2 DEF IInv, Reading
    <3> QED
      BY <3>1 DEF Pending
  <2>3. reader.pc = "read" => Cardinality(reader.seen \cup Pending') <= MaxCount
    <3>1. /\ reader.seen \cup Pending' \in SUBSET (reader.seen \cup Pending)
          /\ IsFiniteSet(reader.seen \cup Pending) /\ Cardinality(reader.seen \cup Pending) \in Nat
      BY <2>2, SeenFinite, IdsFinite DEF IInv
    <3>2. /\ Cardinality(reader.seen \cup Pending') <= Cardinality(reader.seen \cup Pending)
          /\ Cardinality(reader.seen \cup Pending') \in Nat
      BY <3>1, FS_Subset, FS_CardinalityType
    <3> QED
      BY <3>1, <3>2, Numbers DEF IInv, Reading
  <2> QED
    BY <1>2, <2>1, <2>3 DEF IInv, Reading
<1>3. CASE reader.pc = "idle"
  BY <1>3 DEF Reading
<1> QED
  BY <1>2, <1>3 DEF IInv, Reading

(* Every step keeps what a scan may find within the cap.                    *)
LEMMA ReadingStep ==
  ASSUME IInv, Next, TypeOK'
  PROVE  Reading'
<1> USE DEF Goto
<1>0. drawn \in Nat /\ drawn' \in Nat /\ Resting.pc = "idle"
  BY Numbers DEF IInv, TypeOK, Resting
<1>1. CASE /\ UNCHANGED <<reader, drawn>> /\ (~crowd => ~crowd')
           /\ Events' \subseteq Events
           /\ \A f \in files' : f.kind = "temp" => f \in files
  BY <1>0, <1>1, ReadingOn
<1>2. ASSUME NEW p \in Proc, NEW job \in {"record", "prune"}, Call(p, job) PROVE Reading'
  BY <1>1, <1>2 DEF Call, Events
<1>3. ASSUME NEW p \in Proc,
             Acquire(p) \/ Busy(p) \/ Report(p) \/ Crash(p) \/ Release(p) \/ Scan(p) \/ Retained(p)
      PROVE  Reading'
  BY <1>1, <1>3 DEF Acquire, Busy, Report, Crash, Release, Scan, Retained, Events
<1>4. ASSUME NEW p \in Proc, Remove(p) \/ Fails(p) PROVE Reading'
  BY <1>1, <1>4 DEF Remove, Fails, Events
<1>5. ASSUME NEW p \in Proc, Overlap(p) PROVE Reading'
  BY <1>0, <1>5 DEF Overlap, Reading
<1>6. ASSUME NEW p \in Proc, Write(p) PROVE Reading'
  <2>1. PICK f : f.id = drawn' /\ f.kind = "temp" /\ files' = files \cup {f}
    BY <1>6 DEF Write
  <2>2. drawn' = drawn + 1 /\ UNCHANGED <<reader, crowd>>
    BY <1>6 DEF Write
  <2> QED
    BY <1>0, <2>1, <2>2, ReadingOn DEF Events
<1>7. ASSUME NEW p \in Proc, Publish(p) PROVE Reading'
  <2>1. PICK t \in files : /\ t.kind = "temp"
                           /\ files' = (files \ {t}) \cup {[t EXCEPT !.kind = "event"]}
    BY <1>7, Publishes DEF IInv
  <2>2. PICK e : e = [t EXCEPT !.kind = "event"]
    OBVIOUS
  <2>3. e.id = t.id /\ e.kind = "event" /\ files' = (files \ {t}) \cup {e}
    BY <2>1, <2>2 DEF IInv, TypeOK, File
  <2>4. UNCHANGED <<drawn, reader, crowd>>
    BY <1>7 DEF Publish
  <2> QED
    BY <1>0, <2>1, <2>3, <2>4, ReadingOn DEF Events
<1>8. CASE StartScan
  <2>1. reader'.pc = "list" /\ reader'.names = {} /\ reader'.seen = {} /\ ~crowd'
    BY <1>8 DEF StartScan, Resting
  <2> QED
    BY <2>1 DEF Reading
<1>9. CASE ListDay
  <2>1. PICK d \in reader.days :
          reader' = [reader EXCEPT !.days = reader.days \ {d},
                                   !.names = reader.names \cup {Name(f) : f \in {g \in files : g.at = d}},
                                   !.pc = IF reader.days = {d} THEN "read" ELSE reader.pc]
    BY <1>9 DEF ListDay
  <2>2. UNCHANGED <<files, drawn, crowd>> /\ reader.pc = "list" /\ reader.seen = {} /\ ~crowd
    BY <1>9 DEF ListDay, IInv, Reading
  <2>3. /\ reader'.names = reader.names \cup {Name(f) : f \in {g \in files : g.at = d}}
        /\ reader'.pc \in {"list", "read"} /\ reader'.seen = {}
    BY <2>1, <2>2 DEF IInv, TypeOK, Reader
  <2>4. ASSUME NEW n \in reader'.names
        PROVE  n.id <= drawn /\ (~n.temp => \A f \in files : f.id = n.id => f.kind # "temp")
    <3>1. CASE n \in reader.names
      BY <2>2, <3>1 DEF IInv, Reading
    <3>2. ASSUME NEW f \in files, n = Name(f)
          PROVE  n.id <= drawn /\ (~n.temp => \A g \in files : g.id = n.id => g.kind # "temp")
      BY <3>2 DEF Name, IInv, TypeOK, Stored
    <3> QED
      BY <2>3, <3>1, <3>2
  <2>5. Cardinality(Pending') <= MaxCount
    <3> DEFINE All == {f.id : f \in files}
    <3>1. Pending' \in SUBSET All /\ All \in SUBSET Id
      BY <2>2 DEF Pending, Events, IInv, TypeOK, File
    <3>2. Cardinality(All) <= Cardinality(files) /\ Cardinality(files) <= MaxCount
      BY <2>2, IdsBounded DEF IInv, Stored, CountBounded
    <3>3. /\ IsFiniteSet(All) /\ Cardinality(All) \in Nat /\ Cardinality(Pending') \in Nat
          /\ Cardinality(Pending') <= Cardinality(All)
      BY <3>1, IdsFinite, FS_Subset
    <3> QED
      BY <3>2, <3>3, FS_CardinalityType, Numbers DEF IInv, Stored
  <2>6. reader'.seen \cup Pending' = Pending'
    BY <2>3
  <2> QED
    BY <2>2, <2>3, <2>4, <2>5, <2>6 DEF Reading
<1>10. CASE ReadFile
  <2>1. PICK n \in reader.names :
          reader' = [reader EXCEPT !.names = reader.names \ {n},
                                   !.seen = reader.seen \cup {f.id : f \in {g \in Events : Name(g) = n}}]
    BY <1>10 DEF ReadFile
  <2>2. UNCHANGED <<files, drawn, crowd>> /\ reader.pc = "read" /\ ~crowd
    BY <1>10 DEF ReadFile, IInv, Reading
  <2>3. /\ reader'.names = reader.names \ {n} /\ reader'.pc = "read"
        /\ reader'.seen = reader.seen \cup {f.id : f \in {g \in Events : Name(g) = n}}
    BY <2>1, <2>2 DEF IInv, TypeOK, Reader
  <2>4. (reader.seen \cup Pending)' \in SUBSET (reader.seen \cup Pending)
    BY <2>2, <2>3 DEF Pending, Events
  <2>5. /\ IsFiniteSet(reader.seen \cup Pending) /\ Cardinality(reader.seen \cup Pending) \in Nat
    BY SeenFinite, IdsFinite DEF IInv
  <2>6. /\ Cardinality((reader.seen \cup Pending)') <= Cardinality(reader.seen \cup Pending)
        /\ Cardinality((reader.seen \cup Pending)') \in Nat
    BY <2>4, <2>5, FS_Subset, FS_CardinalityType
  <2>7. Cardinality((reader.seen \cup Pending)') <= MaxCount
    BY <2>2, <2>5, <2>6, Numbers DEF IInv, Reading
  <2> QED
    BY <2>2, <2>3, <2>7 DEF IInv, Reading
<1>11. CASE Summarize
  <2>1. Cardinality(reader.seen) <= MaxCount
    <3>1. CASE reader.pc = "list"
      BY <3>1, FS_EmptySet, Numbers DEF IInv, Reading
    <3>2. CASE reader.pc = "read"
      <4>1. /\ reader.seen \in SUBSET (reader.seen \cup Pending)
            /\ IsFiniteSet(reader.seen \cup Pending) /\ Cardinality(reader.seen \cup Pending) \in Nat
        BY SeenFinite, IdsFinite DEF IInv
      <4>2. /\ Cardinality(reader.seen) <= Cardinality(reader.seen \cup Pending)
            /\ Cardinality(reader.seen) \in Nat
        BY <4>1, FS_Subset, FS_CardinalityType
      <4> QED
        BY <3>2, <4>1, <4>2, Numbers DEF IInv, Reading
    <3> QED
      BY <1>11, <3>1, <3>2 DEF Summarize
  <2>2. Cardinality(reader.seen) \in Nat
    BY IdsFinite DEF IInv, TypeOK, Reader
  <2>3. reader' = Resting
    BY <1>11, <2>1, <2>2, Numbers DEF Summarize
  <2> QED
    BY <1>0, <2>3 DEF Reading
<1>12. CASE Tick
  BY <1>1, <1>12 DEF Tick, Events
<1>13. CASE Rot
  <2>1. PICK f \in Events : files' = (files \ {f}) \cup {[f EXCEPT !.kind = "invalid"]}
    BY <1>13 DEF Rot
  <2>2. PICK g : g = [f EXCEPT !.kind = "invalid"]
    OBVIOUS
  <2>3. g.kind = "invalid" /\ files' = (files \ {f}) \cup {g}
    BY <2>1, <2>2 DEF IInv, TypeOK, File, Events
  <2>4. UNCHANGED <<drawn, reader, crowd>>
    BY <1>13 DEF Rot
  <2> QED
    BY <1>1, <2>3, <2>4 DEF Events
<1> QED
  BY <1>2, <1>3, <1>4, <1>5, <1>6, <1>7, <1>8, <1>9, <1>10, <1>11, <1>12, <1>13 DEF Next
------------------------------------------------------------------------------
(* The theorems.                                                            *)

(* The initial states.                                                      *)
LEMMA InitIInv == Init => IInv
<1> SUFFICES ASSUME Init PROVE IInv
  OBVIOUS
<1>1. TypeOK
  <2>1. Blank \in Memory /\ Resting \in Reader /\ 0 \in Day /\ 0 \in 0 .. MaxId
    BY Numbers DEF Blank, Memory, Resting, Reader
  <2> QED
    BY <2>1 DEF Init, TypeOK, Phase
<1>2. Stored /\ CountBounded
  BY FS_EmptySet, Numbers DEF Init, Stored, CountBounded
<1>3. \A p \in Proc : Turn(p) /\ Room(p)
  BY DEF Init, Turn, Alone, Room, Blank, Working
<1>4. Reading
  BY DEF Init, Reading, Resting
<1> QED
  BY <1>1, <1>2, <1>3, <1>4 DEF IInv

(* The invariant is inductive.                                              *)
LEMMA StepIInv == IInv /\ [Next]_vars => IInv'
<1> SUFFICES ASSUME IInv, [Next]_vars PROVE IInv'
  OBVIOUS
<1>1. CASE Next
  BY <1>1, TypeStep, TurnStep, FilesStep, ReadingStep DEF IInv
<1>2. CASE UNCHANGED vars
  BY <1>2 DEF vars, IInv, TypeOK, Stored, Turn, Alone, Room, Planned, Staying, Events, CountBounded,
              Reading, Pending
<1> QED
  BY <1>1, <1>2

(* Every run of EventLog satisfies the inductive invariant: turns, room in  *)
(* the log, plans and what a scan may still find fit together.              *)
THEOREM InductiveInvariant == Spec => []IInv
<1> QED
  BY InitIInv, StepIInv, PTL DEF Spec

(* All variables keep their types, and no two files have one identifier.    *)
THEOREM TypeCorrect == Spec => []TypeOK
<1>1. IInv => TypeOK
  BY DEF IInv
<1> QED
  BY <1>1, InductiveInvariant, PTL

(* For any number of processes, any cap and any retention: as long as no    *)
(* two processes are in the lock at once the log holds the cap at every     *)
(* moment, temporary and invalid files included.                            *)
THEOREM CapHolds == Spec => []CountBounded
<1>1. IInv => CountBounded
  BY DEF IInv
<1> QED
  BY <1>1, InductiveInvariant, PTL

(* summarizeResolveEvents never refuses what "stats" has scanned without    *)
(* the lock, whatever recorders and prunes did between its readdirs.        *)
THEOREM StatsAccepted == Spec => []SummaryAccepted
<1>1. IInv => SummaryAccepted
  BY DEF IInv, Reading, SummaryAccepted
<1> QED
  BY <1>1, InductiveInvariant, PTL

(* The event that a plan names first is due when it goes.                   *)
LEMMA RemovalDue ==
  ASSUME IInv, NEW p \in Proc, Remove(p), NEW f \in Events, \A g \in files' : g.id # f.id
  PROVE  Due(f)
<1>1. PICK c \in my[p].plan : /\ \A g \in my[p].plan : ~Precedes(g, c)
                              /\ files' = {g \in files : Name(g) # Name(c)}
  BY DEF Remove
<1>2. CASE ~my[p].alone
  BY <1>2 DEF Remove, Due
<1>3. CASE my[p].alone
  <2>1. Planned(p) /\ my[p].now <= clock /\ my[p].now \in Nat /\ clock \in Nat
    BY <1>3, Numbers DEF IInv, Room, Turn, TypeOK, Memory, Remove
  <2>2. f = c /\ f \in files /\ f.kind = "event"
    BY <1>1, <2>1 DEF Planned, Events
  <2>3. f.at \in Nat
    BY <2>2, Numbers DEF IInv, TypeOK, File
  <2>4. CASE Expired(f, my[p].now)
    <3>1. Expired(f, clock)
      BY <2>1, <2>3, <2>4, Numbers DEF Expired
    <3> QED
      BY <3>1 DEF Due
  <2>5. CASE ~Expired(f, my[p].now)
    <3>1. /\ Cardinality(Staying(p)) >= MaxCount - 1
          /\ \A g \in Staying(p) : g.kind = "event" => f.at <= g.at
      BY <2>1, <2>2, <2>5 DEF Planned
    <3>2. ASSUME NEW g \in files', g.kind = "event" PROVE f.at <= g.at
      <4>1. g \in Events /\ g.at \in Nat
        BY <1>1, <3>2, Numbers DEF Events, IInv, TypeOK, File
      <4>2. CASE g \in my[p].plan
        BY <1>1, <2>2, <2>3, <3>2, <4>1, <4>2 DEF Precedes
      <4>3. CASE g \notin my[p].plan
        BY <2>1, <3>1, <3>2, <4>1, <4>3 DEF Staying, Planned, Events
      <4> QED
        BY <4>2, <4>3
    <3>3. Cardinality({g \in files' : g.kind # "temp"}) >= MaxCount - 1
      <4> DEFINE Rest == {g \in files' : g.kind # "temp"}
      <4>1. Staying(p) \in SUBSET Rest
        BY <1>1, <2>1 DEF Staying, Planned
      <4>2. IsFiniteSet(Rest)
        BY <1>1, FS_Subset DEF IInv, Stored
      <4>3. /\ Cardinality(Staying(p)) <= Cardinality(Rest)
            /\ Cardinality(Staying(p)) \in Nat /\ Cardinality(Rest) \in Nat
        BY <4>1, <4>2, FS_Subset, FS_CardinalityType
      <4> QED
        BY <3>1, <4>3, Numbers
    <3> QED
      BY <3>2, <3>3 DEF Due
  <2> QED
    BY <2>4, <2>5
<1> QED
  BY <1>2, <1>3

(* An event goes only when it is due, though the plan that names it is from *)
(* an earlier scan and an earlier reading of the clock.                     *)
THEOREM OnlyDueGoes == Spec => RemovesOnlyDue
<1>1. IInv /\ [Next]_vars => [\A f \in Events : (\A g \in files' : g.id # f.id) => Due(f)]_vars
  <2> SUFFICES ASSUME IInv, Next, NEW f \in Events, \A g \in files' : g.id # f.id PROVE Due(f)
    OBVIOUS
  <2>0. f \in files /\ f.kind = "event"
    BY DEF Events
  <2>1. ASSUME NEW p \in Proc, Remove(p) PROVE Due(f)
    BY <2>1, RemovalDue
  <2>2. ASSUME NEW p \in Proc, Fails(p) PROVE FALSE
    BY <2>0, <2>2 DEF Fails, Temporary
  <2>3. ASSUME NEW p \in Proc, Publish(p) PROVE FALSE
    BY <2>0, <2>3 DEF Publish, Temporary
  <2>4. ASSUME NEW p \in Proc, Write(p) PROVE FALSE
    BY <2>0, <2>4 DEF Write
  <2>5. ASSUME Rot PROVE FALSE
    <3>1. PICK g \in Events : files' = (files \ {g}) \cup {[g EXCEPT !.kind = "invalid"]}
      BY <2>5 DEF Rot
    <3>2. PICK b : b = [g EXCEPT !.kind = "invalid"]
      OBVIOUS
    <3>3. b.id = g.id /\ b \in files' /\ (f # g => f \in files')
      BY <2>0, <3>1, <3>2 DEF IInv, TypeOK, File, Events
    <3> QED
      BY <3>3
  <2>6. files' # files
    BY <2>0
  <2> QED
    BY <2>1, <2>2, <2>3, <2>4, <2>5, <2>6
    DEF Next, Call, Acquire, Overlap, Busy, Release, Scan, Report, Retained, StartScan, ListDay,
        ReadFile, Summarize, Tick, Crash
<1> QED
  BY <1>1, InductiveInvariant, PTL DEF Spec, RemovesOnlyDue
===============================================================================
