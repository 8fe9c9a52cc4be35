------------------------------ MODULE EventLog ------------------------------
(****************************************************************************)
(* The telemetry of lookups, as src/cache/events.ts keeps it: one file per  *)
(* event in a directory per day. Whoever records or prunes takes the        *)
(* telemetry lock, scans, removes what retention selects one file at a      *)
(* time, and publishes through a temporary file. "stats" scans without the  *)
(* lock. The lock has the protocol of EntryLock, broken by path like it: it *)
(* excludes, or lets a second process in beside a live holder (Overlap).    *)
(****************************************************************************)
EXTENDS Naturals, FiniteSets

CONSTANTS
  Proc,       \* processes that record and prune; one that dies stays dead
  MaxCount,   \* RESOLVE_EVENT_MAX_COUNT
  Retention,  \* RETENTION_MS, in days of the clock
  MaxTime,    \* bound: days of the clock
  MaxId,      \* bound: events ever written
  None

ASSUME BoundsAssumption ==
  MaxCount \in Nat \ {0} /\ Retention \in Nat /\ MaxTime \in Nat /\ MaxId \in Nat
ASSUME NoneAssumption == None \notin Proc

VARIABLES
  clock,   \* the day
  files,   \* the files below the events' root
  drawn,   \* identifiers drawn so far
  lock,    \* the process .telemetry.lock belongs to, or None
  pc,      \* what each process does next
  my,      \* what each process remembers
  reader,  \* a scan without the lock
  crowd    \* history: two processes were at work at once, and nobody has
           \* completed a retention alone since

vars == <<clock, files, drawn, lock, pc, my, reader, crowd>>

Day == 0 .. MaxTime
Id == 1 .. MaxId

(* A file is named by its identifier and by whether it is temporary still.  *)
(* Only an "event" parses and has its timestamp's path.                     *)
File == [id : Id, at : Day, kind : {"event", "invalid", "temp"}]
Name(f) == [id |-> f.id, temp |-> f.kind = "temp"]

(* now is taken when the call begins; plan is what is still to be removed;  *)
(* own the temporary file; alone (history) whether nobody else has been at  *)
(* work since the lock was taken.                                           *)
Blank == [job |-> "record", now |-> 0, plan |-> {}, own |-> 0, alone |-> FALSE]
Memory == [job : {"record", "prune"}, now : Day, plan : SUBSET File, own : Id \cup {0},
           alone : BOOLEAN]
Resting == [pc |-> "idle", days |-> {}, names |-> {}, seen |-> {}]
Reader == [pc : {"idle", "list", "read", "refused"}, days : SUBSET Day,
           names : SUBSET [id : Id, temp : BOOLEAN], seen : SUBSET Id]

Working == {"scan", "remove", "write", "publish", "release"}
Phase == Working \cup {"idle", "wait", "dead"}

(* A file is moved, never copied: one name at a time for each identifier.   *)
TypeOK ==
  /\ clock \in Day
  /\ files \subseteq File
  /\ \A f, g \in files : f.id = g.id => f = g
  /\ drawn \in 0 .. MaxId
  /\ lock \in Proc \cup {None}
  /\ pc \in [Proc -> Phase]
  /\ my \in [Proc -> Memory]
  /\ reader \in Reader
  /\ crowd \in BOOLEAN

Init ==
  /\ clock = 0
  /\ files = {}
  /\ drawn = 0
  /\ lock = None
  /\ pc = [p \in Proc |-> "idle"]
  /\ my = [p \in Proc |-> Blank]
  /\ reader = Resting
  /\ crowd = FALSE

Goto(p, from, to) ==
  /\ pc[p] = from
  /\ pc' = [pc EXCEPT ![p] = to]

Events == {f \in files : f.kind = "event"}

------------------------------------------------------------------------------
(* The lock.                                                                *)

(* recordResolveEvent after a lookup, pruneResolveEvents in a prune or its  *)
(* dry run. The time is read before the lock is waited for.                 *)
Call(p, job) ==
  /\ Goto(p, "idle", "wait")
  /\ my' = [my EXCEPT ![p] = [Blank EXCEPT !.job = job, !.now = clock]]
  /\ UNCHANGED <<clock, files, drawn, lock, reader, crowd>>

(* isEventLockStale, as far as it is right: the owner is dead.              *)
Free == lock # None => pc[lock] = "dead"

AtWork == {q \in Proc : pc[q] \in Working}

Acquire(p) ==
  /\ Free
  /\ Goto(p, "wait", "scan")
  /\ lock' = p
  /\ my' = [my EXCEPT ![p].alone = AtWork = {}]
  /\ UNCHANGED <<clock, files, drawn, reader, crowd>>

(* breakStaleEventLock under a live holder: it renames what stands at the   *)
(* path, judged or not, and a foreign holder may outlast staleLockMs. A     *)
(* scan without the lock is not followed through an overlap.                *)
Overlap(p) ==
  /\ ~crowd
  /\ AtWork # {}
  /\ Goto(p, "wait", "scan")
  /\ lock' = p
  /\ my' = [q \in Proc |-> [my[q] EXCEPT !.alone = FALSE]]
  /\ reader' = Resting
  /\ crowd' = TRUE
  /\ UNCHANGED <<clock, files, drawn>>

(* Not even a busy lock is waited for longer than maxLockWaitMs.            *)
Busy(p) ==
  /\ lock # None
  /\ Goto(p, "wait", "idle")
  /\ my' = [my EXCEPT ![p] = Blank]
  /\ UNCHANGED <<clock, files, drawn, lock, reader, crowd>>

Release(p) ==
  /\ Goto(p, "release", "idle")
  /\ lock' = IF lock = p THEN None ELSE lock
  /\ UNCHANGED <<clock, files, drawn, my, reader, crowd>>

------------------------------------------------------------------------------
(* Retention.                                                               *)

Expired(f, now) == f.at + Retention < now

(* Mutant: no place is kept for the event to come.                          *)
SurvivorsAll(job) == MaxCount

(* How many events may stay: a recorder needs a place for its own.          *)
Survivors(job) == IF job = "record" THEN MaxCount - 1 ELSE MaxCount

(* Mutant: the list is cut from the wrong end.                              *)
FirstReversed(T, S) == \A f \in T, g \in S \ T : f.at >= g.at

(* T comes first in S by timestamp; equal ones are in the order of random   *)
(* identifiers.                                                             *)
First(T, S) == \A f \in T, g \in S \ T : f.at <= g.at

Excess(T, S, survivors) ==
  /\ First(T, S)
  /\ Cardinality(T) = IF Cardinality(S) > survivors THEN Cardinality(S) - survivors ELSE 0

(* scanResolveEvents and selectRetentionCandidates.                         *)
Scan(p) ==
  LET now == my[p].now
      expired == {f \in Events : Expired(f, now)}
  IN  /\ Goto(p, "scan", "remove")
      /\ \E T \in SUBSET (Events \ expired) :
           /\ Excess(T, Events \ expired, Survivors(my[p].job))
           /\ my' = [my EXCEPT ![p].plan = (files \ Events) \cup expired \cup T]
      /\ UNCHANGED <<clock, files, drawn, lock, reader, crowd>>

(* A dry run of a prune scans, reports and removes nothing.                 *)
Report(p) ==
  /\ my[p].job = "prune"
  /\ Goto(p, "scan", "release")
  /\ my' = [my EXCEPT ![p] = Blank]
  /\ UNCHANGED <<clock, files, drawn, lock, reader, crowd>>

(* Invalid files first, then by timestamp.                                  *)
Precedes(f, g) ==
  \/ f.kind # "event" /\ g.kind = "event"
  \/ f.kind = "event" /\ g.kind = "event" /\ f.at < g.at

(* removeEvent goes by path; what is gone already is passed over.           *)
Remove(p) ==
  /\ pc[p] = "remove"
  /\ \E f \in my[p].plan :
       /\ \A g \in my[p].plan : ~Precedes(g, f)
       /\ files' = {g \in files : Name(g) # Name(f)}
       /\ my' = [my EXCEPT ![p].plan = @ \ {f}]
  /\ UNCHANGED <<clock, drawn, lock, pc, reader, crowd>>

Retained(p) ==
  /\ my[p].plan = {}
  /\ \/ my[p].job = "record" /\ Goto(p, "remove", "write") /\ UNCHANGED my
     \/ my[p].job = "prune" /\ Goto(p, "remove", "release") /\ my' = [my EXCEPT ![p] = Blank]
  /\ crowd' = (crowd /\ ~my[p].alone)
  /\ UNCHANGED <<clock, files, drawn, lock, reader>>

------------------------------------------------------------------------------
(* Publication.                                                             *)

Write(p) ==
  /\ drawn < MaxId
  /\ Goto(p, "write", "publish")
  /\ drawn' = drawn + 1
  /\ files' = files \cup {[id |-> drawn', at |-> my[p].now, kind |-> "temp"]}
  /\ my' = [my EXCEPT ![p].own = drawn']
  /\ UNCHANGED <<clock, lock, reader, crowd>>

(* Whether a file of p's own stands under its temporary name.               *)
Temporary(p) == {f \in files : f.id = my[p].own /\ f.kind = "temp"}

(* Mutant: the file is copied to its name, and nobody removes the first.    *)
PublishCopy(p) ==
  /\ Temporary(p) # {}
  /\ Goto(p, "publish", "release")
  /\ files' = files \cup {[f EXCEPT !.kind = "event"] : f \in Temporary(p)}
  /\ my' = [my EXCEPT ![p] = Blank]
  /\ UNCHANGED <<clock, drawn, lock, reader, crowd>>

Publish(p) ==
  /\ Temporary(p) # {}
  /\ Goto(p, "publish", "release")
  /\ files' = (files \ Temporary(p)) \cup {[f EXCEPT !.kind = "event"] : f \in Temporary(p)}
  /\ my' = [my EXCEPT ![p] = Blank]
  /\ UNCHANGED <<clock, drawn, lock, reader, crowd>>

(* What throws: the scan, a removal, the write, the rename when another     *)
(* process has swept the file away or for any other reason. finally: the    *)
(* temporary file is removed and the lock released.                         *)
Fails(p) ==
  /\ pc[p] \in {"scan", "remove", "write", "publish"}
  /\ pc' = [pc EXCEPT ![p] = "release"]
  /\ files' = files \ Temporary(p)
  /\ my' = [my EXCEPT ![p] = Blank]
  /\ UNCHANGED <<clock, drawn, lock, reader, crowd>>

------------------------------------------------------------------------------
(* A scan without the lock: the days, the names of each day, then the files.*)

StartScan ==
  /\ ~crowd
  /\ reader.pc = "idle"
  /\ reader' = [Resting EXCEPT !.pc = "list", !.days = {f.at : f \in files}]
  /\ UNCHANGED <<clock, files, drawn, lock, pc, my, crowd>>

ListDay ==
  /\ reader.pc = "list"
  /\ \E d \in reader.days :
       reader' = [reader EXCEPT !.days = @ \ {d},
                                !.names = @ \cup {Name(f) : f \in {g \in files : g.at = d}},
                                !.pc = IF reader.days = {d} THEN "read" ELSE @]
  /\ UNCHANGED <<clock, files, drawn, lock, pc, my, crowd>>

(* Mutant: a name that was listed counts, whether its file can be read.     *)
ReadFileListed ==
  /\ reader.pc = "read"
  /\ \E n \in reader.names :
       reader' = [reader EXCEPT !.names = @ \ {n}, !.seen = @ \cup {n.id}]
  /\ UNCHANGED <<clock, files, drawn, lock, pc, my, crowd>>

(* A file that is gone is passed over, one that does not parse is set aside.*)
ReadFile ==
  /\ reader.pc = "read"
  /\ \E n \in reader.names :
       reader' = [reader EXCEPT !.names = @ \ {n},
                                !.seen = @ \cup {f.id : f \in {g \in Events : Name(g) = n}}]
  /\ UNCHANGED <<clock, files, drawn, lock, pc, my, crowd>>

(* summarizeResolveEvents throws on more events than may be retained.       *)
Summarize ==
  /\ \/ reader.pc = "list" /\ reader.days = {}
     \/ reader.pc = "read" /\ reader.names = {}
  /\ reader' = IF Cardinality(reader.seen) > MaxCount
                 THEN [Resting EXCEPT !.pc = "refused"]
                 ELSE Resting
  /\ UNCHANGED <<clock, files, drawn, lock, pc, my, crowd>>

------------------------------------------------------------------------------
(* The environment.                                                         *)

Tick ==
  /\ clock < MaxTime
  /\ clock' = clock + 1
  /\ UNCHANGED <<files, drawn, lock, pc, my, reader, crowd>>

(* An event's file goes bad; bounded to one at a time.                      *)
Rot ==
  /\ \A f \in files : f.kind # "invalid"
  /\ \E f \in Events : files' = (files \ {f}) \cup {[f EXCEPT !.kind = "invalid"]}
  /\ UNCHANGED <<clock, drawn, lock, pc, my, reader, crowd>>

Crash(p) ==
  /\ pc[p] \in Working
  /\ pc' = [pc EXCEPT ![p] = "dead"]
  /\ my' = [my EXCEPT ![p] = Blank]
  /\ UNCHANGED <<clock, files, drawn, lock, reader, crowd>>

Next ==
  \/ \E p \in Proc, job \in {"record", "prune"} : Call(p, job)
  \/ \E p \in Proc :
       \/ Acquire(p) \/ Overlap(p) \/ Busy(p) \/ Release(p)
       \/ Scan(p) \/ Report(p) \/ Remove(p) \/ Retained(p)
       \/ Write(p) \/ Publish(p) \/ Fails(p) \/ Crash(p)
  \/ StartScan \/ ListDay \/ ReadFile \/ Summarize
  \/ Tick
  \/ Rot

Spec == Init /\ [][Next]_vars
------------------------------------------------------------------------------
(* Properties.                                                              *)

(* "At most 10,000 events after every write" (test/events.test.ts:256), and *)
(* at every moment in between: invalid files and the temporary files of     *)
(* dead writers count. What overlapping writers add in excess is gone with  *)
(* the first retention that one of them, or anybody, completes alone.       *)
CountBounded == ~crowd => Cardinality(files) <= MaxCount

(* "stats" never refuses the events it has scanned, though it lists the     *)
(* days one after the other while recorders remove and publish: whatever it *)
(* reads was there at once when it had listed the last day.                 *)
SummaryAccepted == reader.pc # "refused"

(* An event goes only when it has expired or MaxCount - 1 others, none of   *)
(* them older, stay (one of these may have gone bad since the scan): also   *)
(* when the remover's clock reading is older than what others have recorded *)
(* while it waited for the lock.                                            *)
Due(f) ==
  \/ Expired(f, clock)
  \/ /\ \A g \in files' : g.kind = "event" => f.at <= g.at
     /\ Cardinality({g \in files' : g.kind # "temp"}) >= MaxCount - 1
  \/ \E p \in Proc : pc[p] = "remove" /\ ~my[p].alone

RemovesOnlyDue ==
  [][\A f \in Events : (\A g \in files' : g.id # f.id) => Due(f)]_vars
=============================================================================
