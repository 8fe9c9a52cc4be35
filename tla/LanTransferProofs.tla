--------------------------- MODULE LanTransferProofs ---------------------------
(****************************************************************************)
(* Theorems about LanTransfer for any number of machines, processes,        *)
(* requests, builds, failures and any limits. The argument: who is at work  *)
(* on a machine's entry has its transfer lock, so each worker's files and   *)
(* what it knows of the entry are disturbed by nobody but the environment,  *)
(* which stays out while an import publishes; a request and the process     *)
(* that waits for its answer agree on what is carried; and a server counts  *)
(* the requests that are under way.                                         *)
(****************************************************************************)
EXTENDS LanTransfer, FiniteSetTheorems, TLAPS

Fetching == {"tlock", "local", "probe", "choose", "get", "receive", "fetched"}
              \cup Importing \cup Imported
Pushing == {"tlock", "read", "write", "put", "sent", "shared", "stuck"}

(* Which steps are whose, and what is known of whoever takes them.          *)
Role(w) ==
  /\ pc[w] = "idle" => my[w] = Blank
  /\ pc[w] # "idle" => At(w) \in Machine
  /\ pc[w] = "dead" => my[w].from = None /\ ~my[w].answered
  /\ w \in Op /\ pc[w] \notin {"idle", "dead"} =>
       \/ my[w].kind = "fetch" /\ pc[w] \in Fetching
       \/ my[w].kind = "push" /\ pc[w] \in Pushing /\ my[w].peer \in Machine
  /\ w \in Op => my[w].from = None /\ ~my[w].answered
  /\ w \in Handler /\ pc[w] \notin {"idle", "dead"} =>
       /\ my[w].peer \in Machine
       /\ \/ my[w].kind \in {"head", "get"} /\ pc[w] \in {"tlock", "read", "write", "send"}
          \/ my[w].kind = "get" /\ pc[w] = "stream"
          \/ my[w].kind = "put" /\ pc[w] \in {"tlock", "spool"} \cup Importing \cup Imported
  /\ my[w].answered => pc[w] \in {"write", "elock", "judge", "failed"}

(* Who is at work has the lock, who is not has none.                        *)
Locked(w) ==
  /\ pc[w] \in AtWork => tlock[At(w)] = w
  /\ pc[w] \in {"idle", "tlock"} => \A m \in Machine : tlock[m] # w

(* What a worker keeps on disk.                                             *)
Files(w) ==
  /\ pc[w] \in {"idle", "tlock"} => disk[w] = Nothing
  /\ pc[w] \in {"local", "probe", "choose", "get"} => disk[w].file = None
  /\ IF pc[w] \in {"elock"} \cup Publishing THEN disk[w].staged
                                            ELSE pc[w] # "dead" => ~disk[w].staged
  /\ pc[w] \in {"inspect", "elock", "send", "stream", "put", "sent", "created", "existing"}
               \cup Publishing => disk[w].file \in Package
  /\ pc[w] \in {"put", "sent"} => disk[w].file = my[w].seen
  /\ pc[w] = "write" => my[w].seen \in Package

(* A request's answer is waited for where it can be used.                   *)
Link(h) ==
  LET o == my[h].from
  IN  o # None =>
        \/ my[h].kind = "head" /\ pc[o] = "probe"
        \/ my[h].kind = "get" /\ pc[o] \in {"get", "receive"}
        \/ /\ my[h].kind = "put" /\ pc[o] = "sent" /\ At(h) = my[o].peer
           /\ pc[h] \in Importing \cup Imported => disk[h].file = my[o].seen

(* What stands at the entry's paths half-way through a publication, and     *)
(* what can be put back.                                                    *)
Restores(m, e, r) == m \notin orphaned /\ r # None => e.zstd /\ e.gen = r

Held(w) ==
  LET m == At(w)
  IN  /\ pc[w] \in {"quarantine", "replace"} =>
           entry[m] # None /\ Restores(m, entry[m], my[w].movedRestore)
      /\ pc[w] = "quarantine" => ~entry[m].ok
      /\ pc[w] = "replace" => w \in Op /\ entry[m].zstd /\ entry[m].gen = my[w].want
      /\ pc[w] \in {"place", "swap"} => entry[m] = None
      /\ pc[w] = "swap" => /\ my[w].moved # None /\ Content(my[w].moved) \in had[m]
                           /\ Restores(m, my[w].moved, my[w].movedRestore)
      /\ pc[w] \in {"quarantine", "replace", "place", "swap"} /\ m \notin orphaned =>
           restore[m] = None

(* What a worker has seen, or has brought, has stood there.                 *)
Told(w) ==
  /\ pc[w] \in {"created", "existing"} => disk[w].file \in had[At(w)]
  /\ pc[w] \in {"created", "existing", "conflict"} => had[At(w)] # {}
  /\ pc[w] = "shared" => my[w].seen \in had[my[w].peer]
  /\ pc[w] = "fetched" => had[At(w)] \ {[gen |-> my[w].want, zstd |-> TRUE]} # {}

Own(w) == Role(w) /\ Locked(w) /\ Files(w) /\ Link(w) /\ Held(w) /\ Told(w)

(* Only probes are several at a time.                                       *)
Sole == \A h, g \in Handler :
          my[h].from # None /\ my[h].from = my[g].from /\ my[h].kind # "head" => h = g

Stood == \A m \in Machine : entry[m] # None => Content(entry[m]) \in had[m]

Under(m, c) == {h \in Handler : pc[h] \notin Over /\ At(h) = m /\ my[h].peer = c}

Counted == \A m, c \in Machine : /\ IsFiniteSet(Under(m, c))
                                 /\ active[m][c] = leaked[m][c] + Cardinality(Under(m, c))

IInv ==
  /\ TypeOK
  /\ \A w \in Worker : Own(w)
  /\ Sole /\ Stood /\ RestoreWithEntry /\ Counted

------------------------------------------------------------------------------
(* A step of the workers W, as the others see it.                           *)

Undisturbed(m) ==
  /\ restore'[m] = restore[m]
  /\ entry'[m] = None <=> entry[m] = None
  /\ entry[m] # None => /\ Content(entry'[m]) = Content(entry[m])
                        /\ entry'[m].ok => entry[m].ok

(* Nobody's lock but a worker's in W or a dead one's changes hands.         *)
LocksOf(W) ==
  \A m \in Machine : tlock'[m] # tlock[m] =>
    /\ tlock'[m] \in W \cup {None}
    /\ tlock[m] \in W \cup {None} \/ pc[tlock[m]] = "dead"

Grown ==
  /\ \A m \in Machine : had[m] \subseteq had'[m]
  /\ orphaned \subseteq orphaned'

Apart(W, v) ==
  /\ pc'[v] = pc[v] /\ disk'[v] = disk[v]
  /\ my'[v] = my[v] \/ my'[v] = [my[v] EXCEPT !.from = None]
  /\ my'[v].from \in W => Link(v)'
  /\ pc[v] \in Publishing => Undisturbed(At(v))

(* None is nobody and nothing else.                                         *)
LEMMA Absent ==
  /\ None \notin Worker /\ None \notin Op /\ None \notin Handler /\ None \notin Machine
  /\ None \notin Build /\ None \notin Package /\ None \notin Entry /\ None # Part
  /\ Op \cap Handler = {} /\ Part \notin Package
  BY NoneAssumption, WorkerAssumption, PartAssumption DEF Worker

(* What is known of a worker's fields.                                      *)
LEMMA Typed ==
  ASSUME TypeOK, NEW w \in Worker
  PROVE  /\ pc[w] \in Phase /\ my[w] \in Memory /\ disk[w] \in Disk
         /\ At(w) \in Machine \cup {None} /\ my[w].peer \in Machine \cup {None}
         /\ my[w].from \in Op \cup {None} /\ my[w].answered \in BOOLEAN
         /\ my[w].want \in Build \cup {None} /\ my[w].seen \in Package \cup {None}
         /\ my[w].moved \in Entry \cup {None} /\ my[w].movedRestore \in Build \cup {None}
         /\ disk[w].file \in Package \cup {Part, None} /\ disk[w].staged \in BOOLEAN
  BY DEF TypeOK, Memory, Disk, At

(* Who is at work is there alone.                                           *)
LEMMA Alone == (\A w \in Worker : Locked(w)) => OneAtWork
  BY DEF Locked, OneAtWork

LEMMA Phases ==
  /\ Exporting \subseteq AtWork /\ Importing \subseteq AtWork /\ Publishing \subseteq Importing
  /\ Imported \subseteq AtWork
  /\ \A p \in AtWork : p \notin {"idle", "tlock", "dead", "stuck"}
  BY DEF AtWork, Importing, Imported, Publishing, Exporting

(* Whoever takes no part in a step is as before.                            *)
LEMMA Others ==
  ASSUME TypeOK, TypeOK', NEW W \in SUBSET Worker, LocksOf(W), Grown,
         NEW v \in Worker \ W, Own(v), Apart(W, v),
         my[v].from # None /\ my[v].from \notin W => 
            LET o == my[v].from
            IN  pc'[o] = pc[o] /\ (my'[o] = my[o] \/ my'[o] = [my[o] EXCEPT !.from = None])
  PROVE  Own(v)'
<1> USE Absent, Typed
<1>1. PICK r : r = my'[v] /\ r \in Memory
  BY DEF TypeOK
<1>2. /\ r.kind = my[v].kind /\ r.at = my[v].at /\ r.peer = my[v].peer /\ r.want = my[v].want
      /\ r.answered = my[v].answered /\ r.seen = my[v].seen /\ r.moved = my[v].moved
      /\ r.movedRestore = my[v].movedRestore /\ (r.from = my[v].from \/ r.from = None)
      /\ (my[v].from = None => r = my[v])
  <2>1. CASE my'[v] = my[v]
    BY <1>1, <2>1
  <2>2. CASE my'[v] = [my[v] EXCEPT !.from = None]
    BY <1>1, <2>2 DEF Memory
  <2> QED
    BY <2>1, <2>2 DEF Apart
<1>3. Role(v)'
  BY <1>1, <1>2 DEF Own, Role, Apart, At, Blank
<1>4. Locked(v)'
  BY <1>1, <1>2, Phases DEF Own, Role, Locked, Apart, LocksOf, At
<1>5. Files(v)'
  BY <1>1, <1>2 DEF Own, Files, Apart
<1>6. Link(v)'
  <2>1. CASE r.from = None
    BY <1>1, <2>1 DEF Link
  <2>2. CASE r.from \in W
    BY <1>1, <2>2 DEF Apart
  <2>3. CASE r.from # None /\ r.from \notin W
    <3> DEFINE o == my[v].from
    <3>1. o = r.from /\ o \in Op /\ o \in Worker
      BY <1>1, <1>2, <2>3 DEF Worker
    <3>2. pc'[o] = pc[o]
      BY <2>3, <3>1
    <3>3. my'[o].peer = my[o].peer /\ my'[o].seen = my[o].seen
      <4>1. my'[o] = my[o] \/ my'[o] = [my[o] EXCEPT !.from = None]
        BY <2>3, <3>1
      <4> QED
        BY <3>1, <4>1 DEF Memory
    <3>4. Link(v)
      BY DEF Own
    <3> HIDE DEF o
    <3> QED
      BY <1>1, <1>2, <2>3, <3>1, <3>2, <3>3, <3>4 DEF o, Link, Apart, At
  <2> QED
    BY <2>1, <2>2, <2>3
<1>7. Held(v)'
  <2>1. CASE pc[v] \notin Publishing
    BY <2>1 DEF Held, Apart, Publishing
  <2>2. CASE pc[v] \in Publishing
    <3>1. At(v) \in Machine /\ At(v)' = At(v)
      <4>1. At(v) \in Machine
        BY <2>2, Phases DEF Own, Role, Publishing
      <4> QED
        BY <4>1, <1>1, <1>2 DEF At
    <3>2. PICK m \in Machine : m = At(v)
      BY <3>1
    <3>3. /\ restore'[m] = restore[m] /\ (entry'[m] = None <=> entry[m] = None)
          /\ had[m] \subseteq had'[m] /\ (m \in orphaned => m \in orphaned')
          /\ entry[m] # None => /\ entry'[m].gen = entry[m].gen /\ entry'[m].zstd = entry[m].zstd
                                /\ entry'[m].ok => entry[m].ok
      BY <2>2, <3>2 DEF Apart, Undisturbed, Content, Grown
    <3>4. Held(v)
      BY DEF Own
    <3>5. pc'[v] = pc[v]
      BY DEF Apart
    <3> QED
      BY <1>1, <1>2, <3>1, <3>2, <3>3, <3>4, <3>5 DEF Held, Restores
  <2> QED
    BY <2>1, <2>2
<1>8. Told(v)'
  <2>1. At(v)' = At(v) /\ (pc[v] # "idle" => At(v) \in Machine)
    BY <1>1, <1>2 DEF At, Own, Role
  <2>2. /\ pc'[v] = pc[v] /\ disk'[v] = disk[v]
        /\ my'[v].seen = my[v].seen /\ my'[v].peer = my[v].peer /\ my'[v].want = my[v].want
    BY <1>1, <1>2 DEF Apart
  <2>3. pc[v] = "shared" => my[v].peer \in Machine
    BY DEF Own, Role, Importing, Imported, Publishing, Fetching, Worker
  <2> QED
    BY <2>1, <2>2, <2>3 DEF Own, Told, Grown
<1> QED
  BY <1>3, <1>4, <1>5, <1>6, <1>7, <1>8 DEF Own

(* Whoever waits for an answer still waits for it alone.                    *)
LEMMA SoleKept ==
  ASSUME Sole, \A h \in Handler : my'[h].from # None =>
                 my'[h].from = my[h].from /\ my'[h].kind = my[h].kind
  PROVE  Sole'
  BY DEF Sole

(* The requests under way are the same ones.                                *)
LEMMA CountKept ==
  ASSUME Counted, UNCHANGED slots,
         \A h \in Handler :
           /\ pc'[h] \in Over <=> pc[h] \in Over
           /\ pc[h] \notin Over => At(h)' = At(h) /\ my'[h].peer = my[h].peer
  PROVE  Counted'
<1>1. \A m, c \in Machine : Under(m, c)' = Under(m, c)
  BY DEF Under
<1> QED
  BY <1>1 DEF Counted, slots

LEMMA CacheKept == Stood /\ RestoreWithEntry /\ UNCHANGED cache => Stood' /\ RestoreWithEntry'
  BY DEF Stood, RestoreWithEntry, cache

(* One worker goes on, by itself: it stays at the same machine, on behalf   *)
(* of the same one, and what it is asked for still goes where it is used.   *)
LEMMA QuietMove ==
  ASSUME IInv, NEW w \in Worker, NEW p \in Phase, NEW r \in Memory, NEW d \in Disk,
         pc' = [pc EXCEPT ![w] = p], my' = [my EXCEPT ![w] = r], disk' = [disk EXCEPT ![w] = d],
         tlock' \in [Machine -> Worker \cup {None}], LocksOf({w}),
         UNCHANGED <<cache, slots>>, changes' \in 0 .. MaxChange,
         w \in Handler => /\ r.at = my[w].at /\ r.peer = my[w].peer
                          /\ r.from = None \/ (r.from = my[w].from /\ r.kind = my[w].kind)
                          /\ p \in Over <=> pc[w] \in Over,
         \A h \in Handler : h # w /\ my[h].from = w => Link(h)',
         Own(w)'
  PROVE  IInv'
<1> USE Absent
<1>1. TypeOK'
  BY DEF IInv, TypeOK, cache, slots
<1>2. ASSUME NEW v \in Worker, v # w PROVE Own(v)'
  <2>1. v \in Worker \ {w}
    BY <1>2
  <2>2. TypeOK /\ Own(v)
    BY DEF IInv
  <2>3. pc'[v] = pc[v] /\ disk'[v] = disk[v] /\ my'[v] = my[v]
    BY <1>2, <2>2 DEF TypeOK
  <2>4. Grown
    BY DEF Grown, cache
  <2>5. pc[v] \in Publishing => Undisturbed(At(v))
    BY DEF Undisturbed, cache
  <2>6. my'[v].from \in {w} => Link(v)'
    <3>1. my[v].from # None => v \in Handler
      BY <2>2 DEF Own, Role, Worker
    <3> QED
      BY <1>2, <2>3, <3>1
  <2>7. ASSUME my[v].from # None, my[v].from # w
        PROVE  pc'[my[v].from] = pc[my[v].from] /\ my'[my[v].from] = my[my[v].from]
    <3>1. my[v].from \in Op
      BY <2>2, <2>7, Typed
    <3> QED
      BY <2>2, <2>7, <3>1 DEF TypeOK, Worker
  <2> QED
    BY <1>1, <2>1, <2>2, <2>3, <2>4, <2>5, <2>6, <2>7, Others DEF Apart
<1>3. \A v \in Worker : Own(v)'
  BY <1>2
<1>4. \A h \in Handler : h # w => pc'[h] = pc[h] /\ my'[h] = my[h]
  BY DEF IInv, TypeOK, Worker
<1>5. pc'[w] = p /\ my'[w] = r
  BY DEF IInv, TypeOK
<1>6. Sole'
  BY <1>4, <1>5, SoleKept DEF IInv
<1>7. Counted'
  BY <1>4, <1>5, CountKept DEF IInv, At
<1> QED
  BY <1>1, <1>3, <1>6, <1>7, CacheKept DEF IInv

(* A request is waited for only by who is in the right place for it.        *)
LEMMA NotAsked ==
  ASSUME IInv, NEW w \in Worker,
         w \in Handler \/ pc[w] \notin {"probe", "get", "receive", "sent"} \/ Asked(w) = {}
  PROVE  \A h \in Handler : my[h].from # w
<1>1. ASSUME NEW h \in Handler, my[h].from = w PROVE FALSE
  <2>1. h \in Worker /\ TypeOK /\ Own(h)
    BY DEF IInv, Worker
  <2>2. w \in Op /\ w # None
    BY <1>1, <2>1, Typed, Absent
  <2>3. pc[w] \in {"probe", "get", "receive", "sent"}
    BY <1>1, <2>1, <2>2 DEF Own, Link
  <2>4. h \in Asked(w)
    BY <1>1 DEF Asked
  <2> QED
    BY <2>2, <2>3, <2>4, Absent
<1> QED
  BY <1>1

(* What one worker's step writes.                                           *)
Moves(w, p, r, d) ==
  /\ pc' = [pc EXCEPT ![w] = p]
  /\ my' = [my EXCEPT ![w] = r]
  /\ disk' = [disk EXCEPT ![w] = d]

LEMMA Moved ==
  ASSUME TypeOK, NEW w \in Worker, NEW p, NEW r, NEW d, Moves(w, p, r, d)
  PROVE  /\ pc'[w] = p /\ my'[w] = r /\ disk'[w] = d
         /\ \A v \in Worker : v # w => pc'[v] = pc[v] /\ my'[v] = my[v] /\ disk'[v] = disk[v]
  BY DEF TypeOK, Moves

(* A worker goes on under its lock, with its own files.                     *)
LEMMA Advance ==
  ASSUME IInv, NEW w \in Worker, NEW p \in AtWork, NEW r \in Memory, NEW d \in Disk,
         Moves(w, p, r, d), UNCHANGED <<cache, tlock, slots, changes>>,
         pc[w] \in AtWork,
         r.at = my[w].at, r.peer = my[w].peer, r.kind = my[w].kind,
         r.from \in {my[w].from, None},
         w \in Handler \/ pc[w] \notin {"probe", "get", "receive", "sent"} \/ Asked(w) = {},
         r.kind = "put" /\ r.from # None /\ p \in Importing \cup Imported =>
           d.file = my[r.from].seen,
         Role(w)', Files(w)', Held(w)', Told(w)'
  PROVE  IInv'
<1>1. TypeOK /\ Own(w)
  BY DEF IInv
<1>2. pc'[w] = p /\ my'[w] = r /\ disk'[w] = d /\ At(w)' = At(w)
  BY <1>1, Moved DEF At
<1>3. Locked(w)'
  BY <1>1, <1>2, Phases DEF Own, Locked
<1>4. Link(w)'
  <2>1. CASE r.from = None
    BY <1>2, <2>1 DEF Link
  <2>2. CASE r.from # None
    <3>1. PICK o \in Worker : o = my[w].from /\ o # w /\ w \in Handler /\ r.from = my[w].from
      BY <1>1, <2>2, Typed, Absent DEF Own, Role, Worker
    <3>2. pc'[o] = pc[o] /\ my'[o] = my[o]
      BY <1>1, <3>1, Moved
    <3> QED
      BY <1>1, <1>2, <2>2, <3>1, <3>2 DEF Own, Link, At
  <2> QED
    BY <2>1, <2>2
<1>5. Own(w)'
  BY <1>3, <1>4 DEF Own
<1>6. LocksOf({w}) /\ tlock' \in [Machine -> Worker \cup {None}] /\ changes' \in 0 .. MaxChange
  BY <1>1 DEF LocksOf, TypeOK
<1>7. w \in Handler => p \notin Over /\ pc[w] \notin Over
  BY Phases DEF Over, AtWork, Exporting, Importing, Imported, Publishing
<1>8. \A h \in Handler : h # w /\ my[h].from = w => Link(h)'
  BY NotAsked
<1>9. p \in Phase
  BY DEF Phase
<1> HIDE DEF IInv
<1> QED
  BY <1>5, <1>6, <1>7, <1>8, <1>9, QuietMove DEF Moves

(* The payload of a put is what its client sends.                           *)
LEMMA PutFile ==
  ASSUME TypeOK, NEW w \in Worker, Own(w), my[w].kind = "put", my[w].from # None,
         pc[w] \in Importing \cup Imported
  PROVE  disk[w].file = my[my[w].from].seen
  BY DEF Own, Link

------------------------------------------------------------------------------
(* Exports.                                                                 *)

(* Read.                                                                    *)
LEMMA StepRead == ASSUME IInv, NEW w \in Worker, Read(w) PROVE IInv'
<1> USE Absent
<1>1. TypeOK /\ Own(w) /\ disk[w] \in Disk /\ my[w] \in Memory
  BY Typed DEF IInv
<1>2. pc[w] = "read" /\ At(w) \in Machine
  BY <1>1 DEF Read, Goto, Own, Role
<1>3. PICK q \in Package : q = Content(entry[At(w)])
  BY <1>1, <1>2 DEF Read, Valid, Content, Entry, Package, TypeOK
<1>4. PICK r : r = [my[w] EXCEPT !.seen = q]
  OBVIOUS
<1>5. /\ r \in Memory /\ r.at = my[w].at /\ r.peer = my[w].peer /\ r.kind = my[w].kind
      /\ r.from = my[w].from /\ r.answered = my[w].answered /\ r.seen = q
  BY <1>1, <1>3, <1>4 DEF Memory
<1>6. Moves(w, "write", r, disk[w]) /\ UNCHANGED <<cache, tlock, slots, changes>>
  BY <1>1, <1>3, <1>4 DEF Read, Goto, Moves, TypeOK
<1>7. pc'[w] = "write" /\ my'[w] = r /\ disk'[w] = disk[w]
  BY <1>1, <1>6, Moved
<1>8. Role(w)'
  BY <1>1, <1>2, <1>5, <1>7 DEF Own, Role, At, Worker, Fetching, Pushing, Importing, Imported,
    Publishing
<1>9. Files(w)' /\ Held(w)' /\ Told(w)'
  BY <1>1, <1>2, <1>3, <1>5, <1>7 DEF Own, Files, Held, Told, Publishing
<1> HIDE DEF IInv
<1> QED
  BY <1>1, <1>2, <1>5, <1>6, <1>8, <1>9, Advance DEF AtWork, Exporting, Importing, Imported,
    Publishing

(* Write.                                                                   *)
LEMMA StepWrite == ASSUME IInv, NEW w \in Worker, Write(w) PROVE IInv'
<1> USE Absent
<1>1. TypeOK /\ Own(w) /\ my[w] \in Memory /\ pc[w] = "write" /\ ~my[w].answered
  BY Typed DEF IInv, Write, Goto, Late
<1>2. PICK p \in {"put", "send"} : p = (IF w \in Op THEN "put" ELSE "send")
  OBVIOUS
<1>3. PICK d : d = [disk[w] EXCEPT !.file = my[w].seen]
  OBVIOUS
<1>4. d \in Disk /\ d.file = my[w].seen /\ d.staged = disk[w].staged /\ d.file \in Package
  BY <1>1, <1>3 DEF Own, Files, TypeOK, Disk
<1>5. Moves(w, p, my[w], d) /\ UNCHANGED <<cache, tlock, slots, changes>>
  BY <1>1, <1>2, <1>3 DEF Write, Goto, TypeOK, Moves
<1>6. pc'[w] = p /\ disk'[w] = d /\ my'[w] = my[w]
  BY <1>1, <1>5, Moved
<1>7. Role(w)'
  BY <1>1, <1>2, <1>6 DEF Own, Role, At, Worker, Fetching, Pushing, Importing, Imported, Publishing
<1>8. Files(w)' /\ Held(w)' /\ Told(w)'
  BY <1>1, <1>2, <1>4, <1>6 DEF Own, Files, Publishing, Held, Told
<1>9. p \in AtWork /\ pc[w] \in AtWork /\ p \notin Importing \cup Imported
  BY <1>1, <1>2 DEF AtWork, Exporting, Importing, Imported, Publishing
<1> HIDE DEF IInv
<1> QED
  BY <1>1, <1>4, <1>5, <1>7, <1>8, <1>9, Advance

(* A deadline is answered.                                                  *)
LEMMA StepTimeout == ASSUME IInv, NEW w \in Handler, Timeout(w) PROVE IInv'
<1> USE Absent
<1>1. w \in Worker /\ TypeOK /\ Own(w) /\ my[w] \in Memory /\ disk[w] \in Disk
  BY Typed DEF IInv, Worker
<1>2. pc[w] \in {"write", "elock"}
  BY DEF Timeout
<1>3. PICK r : r = [my[w] EXCEPT !.answered = TRUE, !.from = None]
  OBVIOUS
<1>4. /\ r \in Memory /\ r.at = my[w].at /\ r.peer = my[w].peer /\ r.kind = my[w].kind
      /\ r.from = None /\ r.seen = my[w].seen
  BY <1>1, <1>3 DEF Memory
<1>5. Moves(w, pc[w], r, disk[w]) /\ UNCHANGED <<cache, tlock, slots, changes>>
  BY <1>1, <1>3 DEF Timeout, Moves, TypeOK
<1>6. pc'[w] = pc[w] /\ my'[w] = r /\ disk'[w] = disk[w]
  BY <1>1, <1>5, Moved
<1>7. Role(w)'
  BY <1>1, <1>2, <1>4, <1>6 DEF Own, Role, At
<1>8. Files(w)' /\ Held(w)' /\ Told(w)'
  BY <1>1, <1>2, <1>4, <1>6 DEF Own, Files, Held, Told, Publishing
<1>9. pc[w] \in AtWork
  BY <1>2 DEF AtWork, Exporting, Importing
<1> HIDE DEF IInv
<1> QED
  BY <1>1, <1>4, <1>5, <1>7, <1>8, <1>9, Advance

------------------------------------------------------------------------------
(* Fetches.                                                                 *)

(* What a fetch may keep has been seen there, and is another entry than the *)
(* one to be replaced.                                                      *)
LEMMA UsableStood ==
  ASSUME IInv, NEW o \in Worker, At(o) \in Machine, Usable(o)
  PROVE  had[At(o)] \ {[gen |-> my[o].want, zstd |-> TRUE]} # {}
<1>1. PICK m \in Machine : m = At(o)
  OBVIOUS
<1>2. Valid(m) /\ ~(entry[m].zstd /\ entry[m].gen = my[o].want)
  BY <1>1 DEF Usable
<1>3. Content(entry[m]) \in had[m]
  BY <1>1, <1>2 DEF IInv, Stood, Valid
<1>4. Content(entry[m]) # [gen |-> my[o].want, zstd |-> TRUE]
  BY <1>2 DEF Content
<1> QED
  BY <1>1, <1>3, <1>4

(* A fetch is of a provider process, and it knows its machine.              *)
LEMMA Fetcher ==
  ASSUME IInv, NEW o \in Op, pc[o] \notin {"idle", "dead"}
  PROVE  /\ o \in Worker /\ TypeOK /\ Own(o) /\ my[o] \in Memory /\ disk[o] \in Disk
         /\ At(o) \in Machine /\ my[o].from = None /\ ~my[o].answered /\ o \notin Handler
  BY Typed, Absent DEF IInv, Worker, Own, Role

(* FoundLocally, and a fetch's keeping what it has brought.                 *)
LEMMA StepFound ==
  ASSUME IInv, NEW o \in Op, FoundLocally(o) \/ Keep(o) PROVE IInv'
<1> USE Absent
<1>1. pc[o] \in {"local", "created", "existing", "conflict"}
  BY DEF FoundLocally, Keep, Goto
<1>2. /\ o \in Worker /\ TypeOK /\ Own(o) /\ my[o] \in Memory /\ disk[o] \in Disk
      /\ At(o) \in Machine /\ my[o].from = None /\ ~my[o].answered /\ o \notin Handler
  BY <1>1, Fetcher
<1>3. PICK d : d = [disk[o] EXCEPT !.file = None]
  OBVIOUS
<1>4. d \in Disk /\ d.file = None /\ d.staged = disk[o].staged
  BY <1>2, <1>3 DEF Disk
<1>5. Moves(o, "fetched", my[o], d) /\ UNCHANGED <<cache, tlock, slots, changes>>
  <2>1. CASE FoundLocally(o)
    <3>1. disk[o].file = None
      BY <1>2, <2>1 DEF FoundLocally, Goto, Own, Files
    <3>2. d = disk[o]
      BY <1>2, <1>3, <3>1 DEF Disk
    <3> QED
      BY <1>2, <2>1, <3>2 DEF FoundLocally, Goto, Moves, TypeOK
  <2>2. CASE Keep(o)
    BY <1>2, <1>3, <2>2 DEF Keep, RemoveFile, Moves, TypeOK
  <2> QED
    BY <2>1, <2>2
<1>6. pc'[o] = "fetched" /\ my'[o] = my[o] /\ disk'[o] = d /\ UNCHANGED had
  BY <1>2, <1>5, Moved DEF cache
<1>7. Role(o)'
  BY <1>1, <1>2, <1>6 DEF Own, Role, At, Fetching, Pushing, Importing, Imported, Publishing
<1>8. Files(o)' /\ Held(o)'
  BY <1>1, <1>2, <1>4, <1>6 DEF Own, Files, Held, Publishing
<1>9. had[At(o)] \ {[gen |-> my[o].want, zstd |-> TRUE]} # {}
  <2>1. CASE Usable(o)
    BY <1>2, <2>1, UsableStood
  <2>2. CASE ~Usable(o)
    <3>1. my[o].want = None /\ had[At(o)] # {}
      BY <1>1, <1>2, <2>2 DEF FoundLocally, Keep, Own, Told
    <3>2. PICK q \in had[At(o)] : q \in Package
      BY <1>2, <3>1 DEF TypeOK
    <3>3. q # [gen |-> None, zstd |-> TRUE]
      BY <3>2 DEF Package
    <3> QED
      BY <3>1, <3>2, <3>3
  <2> QED
    BY <2>1, <2>2
<1>10. Told(o)'
  BY <1>6, <1>9 DEF Told, At
<1>11. "fetched" \in AtWork /\ pc[o] \in AtWork
  BY <1>1 DEF AtWork, Imported
<1>12. "fetched" \notin Importing \cup Imported
  BY DEF Importing, Imported, Publishing
<1> HIDE DEF IInv
<1> QED
  BY <1>1, <1>2, <1>4, <1>5, <1>7, <1>8, <1>10, <1>11, <1>12, Advance

(* LookAround, Probed, GetFails, TryNext: on to a peer.                     *)
LEMMA StepOn ==
  ASSUME IInv, NEW o \in Op, LookAround(o) \/ Probed(o) \/ GetFails(o) \/ TryNext(o) PROVE IInv'
<1> USE Absent
<1>1. pc[o] \in {"local", "probe", "get", "receive"} \cup Imported
  BY DEF LookAround, Probed, GetFails, TryNext, Goto
<1>2. /\ o \in Worker /\ TypeOK /\ Own(o) /\ my[o] \in Memory /\ disk[o] \in Disk
      /\ At(o) \in Machine /\ my[o].from = None /\ ~my[o].answered /\ o \notin Handler
  BY <1>1, Fetcher DEF Imported
<1>3. PICK d : d = [disk[o] EXCEPT !.file = None]
  OBVIOUS
<1>4. d \in Disk /\ d.file = None /\ d.staged = disk[o].staged
  BY <1>2, <1>3 DEF Disk
<1>5. pc[o] \in {"local", "probe"} => d = disk[o]
  BY <1>2, <1>3 DEF Own, Files, Disk
<1>6. PICK p \in {"probe", "choose"}, r \in Memory :
        /\ Moves(o, p, r, d) /\ UNCHANGED <<cache, tlock, slots, changes>>
        /\ r.at = my[o].at /\ r.peer = my[o].peer /\ r.kind = my[o].kind /\ r.from = None
        /\ ~r.answered
  <2>1. CASE LookAround(o)
    <3>1. PICK r : r = [my[o] EXCEPT !.ask = Machine \ {At(o)}]
      OBVIOUS
    <3>2. /\ r \in Memory /\ r.at = my[o].at /\ r.peer = my[o].peer /\ r.kind = my[o].kind
          /\ r.from = None /\ ~r.answered
      BY <1>2, <3>1 DEF Memory
    <3>3. Moves(o, "probe", r, d) /\ UNCHANGED <<cache, tlock, slots, changes>>
      BY <1>2, <1>5, <2>1, <3>1 DEF LookAround, Goto, Moves, TypeOK
    <3> QED
      BY <3>2, <3>3
  <2>2. CASE Probed(o) \/ GetFails(o)
    <3>1. Moves(o, "choose", my[o], d) /\ UNCHANGED <<cache, tlock, slots, changes>>
      BY <1>2, <1>3, <1>5, <2>2 DEF Probed, GetFails, RemoveFile, Goto, Moves, TypeOK
    <3> QED
      BY <1>2, <3>1
  <2>3. CASE TryNext(o)
    <3>1. PICK left \in {my[o].found, {}} : my' = [my EXCEPT ![o].found = left]
      BY <2>3 DEF TryNext
    <3>2. PICK r : r = [my[o] EXCEPT !.found = left]
      OBVIOUS
    <3>3. /\ r \in Memory /\ r.at = my[o].at /\ r.peer = my[o].peer /\ r.kind = my[o].kind
          /\ r.from = None /\ ~r.answered
      BY <1>2, <3>1, <3>2 DEF Memory
    <3>4. Moves(o, "choose", r, d) /\ UNCHANGED <<cache, tlock, slots, changes>>
      BY <1>2, <1>3, <2>3, <3>1, <3>2 DEF TryNext, RemoveFile, Moves, TypeOK
    <3> QED
      BY <3>3, <3>4
  <2> QED
    BY <2>1, <2>2, <2>3
<1>7. pc'[o] = p /\ my'[o] = r /\ disk'[o] = d
  BY <1>2, <1>6, Moved
<1>8. Role(o)'
  BY <1>1, <1>2, <1>6, <1>7 DEF Own, Role, At, Fetching, Pushing, Importing, Imported, Publishing
<1>9. Files(o)' /\ Held(o)' /\ Told(o)'
  BY <1>1, <1>2, <1>4, <1>7 DEF Own, Files, Held, Told, Publishing, Imported
<1>10. p \in AtWork /\ pc[o] \in AtWork /\ p \notin Importing \cup Imported
  BY <1>1, <1>6 DEF AtWork, Importing, Imported, Publishing
<1>11. pc[o] \notin {"probe", "get", "receive", "sent"} \/ Asked(o) = {}
  BY <1>1 DEF LookAround, Probed, GetFails, TryNext, Goto, Unanswered, Imported
<1> HIDE DEF IInv
<1> QED
  BY <1>2, <1>4, <1>6, <1>8, <1>9, <1>10, <1>11, Advance

------------------------------------------------------------------------------
(* Imports, as long as they leave the entry's paths alone.                  *)

(* An import knows its machine, and whose package it has.                   *)
LEMMA Importer ==
  ASSUME IInv, NEW w \in Worker, pc[w] \in Importing
  PROVE  /\ TypeOK /\ Own(w) /\ my[w] \in Memory /\ disk[w] \in Disk
         /\ At(w) \in Machine /\ pc[w] \in AtWork
         /\ disk[w].file \in Package
         /\ w \in Handler \/ pc[w] \notin {"probe", "get", "receive", "sent"}
         /\ w \in Op => my[w].kind = "fetch" /\ my[w].from = None /\ ~my[w].answered
         /\ w \in Handler => my[w].kind = "put" /\ my[w].peer \in Machine
         /\ my[w].kind = "put" /\ my[w].from # None => disk[w].file = my[my[w].from].seen
<1>1. /\ TypeOK /\ Own(w) /\ my[w] \in Memory /\ disk[w] \in Disk
  BY Typed DEF IInv
<1>2. At(w) \in Machine /\ pc[w] \in AtWork /\ pc[w] \notin {"idle", "dead"}
  BY <1>1, Phases DEF Own, Role
<1>3. disk[w].file \in Package
  BY <1>1 DEF Own, Files, Importing, Publishing
<1>4. pc[w] \notin {"probe", "get", "receive", "sent", "send", "stream", "read", "write", "tlock",
                    "spool", "put", "shared", "stuck", "idle", "dead"}
  BY DEF Importing, Publishing
<1>5. w \in Op => my[w].kind = "fetch" /\ my[w].from = None /\ ~my[w].answered
  BY <1>1, <1>4 DEF Own, Role, Pushing
<1>6. w \in Handler => my[w].kind = "put" /\ my[w].peer \in Machine
  BY <1>1, <1>4 DEF Own, Role
<1> HIDE DEF IInv
<1> QED
  BY <1>1, <1>2, <1>3, <1>4, <1>5, <1>6, PutFile

(* SeeExisting and JudgeExisting: the entry is there already, or another.   *)
LEMMA StepExisting ==
  ASSUME IInv, NEW w \in Worker, SeeExisting(w) \/ JudgeExisting(w) PROVE IInv'
<1> USE Absent
<1>1. pc[w] \in {"inspect", "judge"} /\ pc[w] \in Importing
  BY DEF SeeExisting, JudgeExisting, Importing, Publishing
<1>2. /\ TypeOK /\ Own(w) /\ my[w] \in Memory /\ disk[w] \in Disk
      /\ At(w) \in Machine /\ pc[w] \in AtWork
      /\ disk[w].file \in Package
      /\ w \in Handler \/ pc[w] \notin {"probe", "get", "receive", "sent"}
      /\ w \in Op => my[w].kind = "fetch" /\ my[w].from = None /\ ~my[w].answered
      /\ w \in Handler => my[w].kind = "put" /\ my[w].peer \in Machine
      /\ my[w].kind = "put" /\ my[w].from # None => disk[w].file = my[my[w].from].seen
  BY <1>1, Importer
<1>3. PICK d : d = [disk[w] EXCEPT !.staged = FALSE]
  OBVIOUS
<1>4. d \in Disk /\ d.file = disk[w].file /\ ~d.staged
  BY <1>2, <1>3 DEF Disk
<1>5. pc[w] = "inspect" => d = disk[w]
  <2>1. ASSUME pc[w] = "inspect" PROVE disk[w].staged = FALSE
    BY <1>2, <2>1 DEF Own, Files, Publishing, Disk
  <2> QED
    BY <1>2, <1>3, <2>1 DEF Disk
<1>6. PICK p \in {"existing", "conflict"} :
        /\ Moves(w, p, my[w], d) /\ UNCHANGED <<cache, tlock, slots, changes>>
        /\ p = "existing" => Compared(w) = "existing"
  <2>1. Compared(w) \in {"existing", "conflict"}
    BY DEF Compared
  <2>2. CASE SeeExisting(w)
    <3>1. PICK p \in {Compared(w), "conflict"} : pc' = [pc EXCEPT ![w] = p]
      BY <2>2 DEF SeeExisting
    <3>2. Moves(w, p, my[w], d) /\ UNCHANGED <<cache, tlock, slots, changes>>
      BY <1>2, <1>5, <2>2, <3>1 DEF SeeExisting, Moves, TypeOK
    <3> QED
      BY <2>1, <3>1, <3>2
  <2>3. CASE JudgeExisting(w)
    <3>1. Moves(w, Compared(w), my[w], d) /\ UNCHANGED <<cache, tlock, slots, changes>>
      BY <1>2, <1>3, <2>3 DEF JudgeExisting, Moves, TypeOK
    <3> QED
      BY <2>1, <3>1
  <2> QED
    BY <2>2, <2>3
<1>7. pc'[w] = p /\ my'[w] = my[w] /\ disk'[w] = d /\ UNCHANGED had
  BY <1>2, <1>6, Moved DEF cache
<1>8. ~my[w].answered
  BY <1>1, <1>2 DEF JudgeExisting, Late, Own, Role, SeeExisting
<1>9. Role(w)'
  BY <1>2, <1>6, <1>7, <1>8 DEF Own, Role, At, Fetching, Pushing, Importing, Imported, Publishing,
    Worker
<1>10. Files(w)' /\ Held(w)'
  BY <1>2, <1>4, <1>6, <1>7 DEF Files, Held, Publishing
<1>11. Told(w)'
  <2>1. Content(entry[At(w)]) \in had[At(w)]
    BY <1>2 DEF SeeExisting, JudgeExisting, Stays, Valid, IInv, Stood
  <2>2. p = "existing" => disk[w].file \in had[At(w)]
    BY <1>6, <2>1 DEF Compared, Offered
  <2> QED
    BY <1>4, <1>6, <1>7, <2>1, <2>2 DEF Told, At
<1>12. p \in AtWork
  BY <1>6 DEF AtWork, Imported
<1> HIDE DEF IInv
<1> QED
  BY <1>2, <1>4, <1>6, <1>9, <1>10, <1>11, <1>12, Advance

(* Stage, LockEntry, JudgeAbsent: on to the publication.                    *)
LEMMA StepStage ==
  ASSUME IInv, NEW w \in Worker, Stage(w) \/ LockEntry(w) \/ JudgeAbsent(w) PROVE IInv'
<1> USE Absent
<1>1. pc[w] \in {"inspect", "elock", "judge"} /\ pc[w] \in Importing
  BY DEF Stage, LockEntry, JudgeAbsent, Goto, Importing, Publishing
<1>2. /\ TypeOK /\ Own(w) /\ my[w] \in Memory /\ disk[w] \in Disk
      /\ At(w) \in Machine /\ pc[w] \in AtWork
      /\ disk[w].file \in Package
      /\ w \in Handler \/ pc[w] \notin {"probe", "get", "receive", "sent"}
      /\ w \in Op => my[w].kind = "fetch" /\ my[w].from = None /\ ~my[w].answered
      /\ w \in Handler => my[w].kind = "put" /\ my[w].peer \in Machine
      /\ my[w].kind = "put" /\ my[w].from # None => disk[w].file = my[my[w].from].seen
  BY <1>1, Importer
<1>3. PICK d : d = [disk[w] EXCEPT !.staged = TRUE]
  OBVIOUS
<1>4. d \in Disk /\ d.file = disk[w].file /\ d.staged
  BY <1>2, <1>3 DEF Disk
<1>5. pc[w] # "inspect" => d = disk[w]
  <2>1. ASSUME pc[w] # "inspect" PROVE disk[w].staged = TRUE
    BY <1>1, <1>2, <2>1 DEF Own, Files, Publishing, Disk
  <2> QED
    BY <1>2, <1>3, <2>1 DEF Disk
<1>6. PICK p \in {"elock", "judge", "place"} :
        /\ Moves(w, p, my[w], d) /\ UNCHANGED <<cache, tlock, slots, changes>>
        /\ p = "place" => entry[At(w)] = None /\ ~my[w].answered
        /\ p = "elock" => pc[w] = "inspect"
  <2>1. CASE Stage(w)
    BY <1>2, <1>3, <2>1 DEF Stage, Goto, Moves, TypeOK
  <2>2. CASE LockEntry(w) \/ JudgeAbsent(w)
    BY <1>2, <1>5, <2>2 DEF LockEntry, JudgeAbsent, Goto, Late, Moves, TypeOK
  <2> QED
    BY <2>1, <2>2
<1>7. pc'[w] = p /\ my'[w] = my[w] /\ disk'[w] = d /\ UNCHANGED <<entry, restore, orphaned, had>>
  BY <1>2, <1>6, Moved DEF cache
<1>8. Role(w)'
  BY <1>1, <1>2, <1>6, <1>7 DEF Own, Role, At, Fetching, Pushing, Importing, Imported, Publishing,
    Worker
<1>9. Files(w)'
  BY <1>2, <1>4, <1>6, <1>7 DEF Files, Publishing
<1>10. Held(w)'
  BY <1>2, <1>6, <1>7 DEF Held, At, IInv, RestoreWithEntry
<1>11. Told(w)'
  BY <1>6, <1>7 DEF Told
<1>12. p \in AtWork
  BY <1>6 DEF AtWork, Importing, Publishing
<1> HIDE DEF IInv
<1> QED
  BY <1>2, <1>4, <1>6, <1>8, <1>9, <1>10, <1>11, <1>12, Advance

(* ImportFails: the staging directory goes, and the memory of what moved.   *)
LEMMA StepImportFails == ASSUME IInv, NEW w \in Worker, ImportFails(w) PROVE IInv'
<1> USE Absent
<1>1. PICK from \in {"inspect", "elock", "judge", "place"} : Fail(w, from)
  BY DEF ImportFails
<1>2. pc[w] \in Importing /\ pc[w] \in {"inspect", "elock", "judge", "place"}
  BY <1>1 DEF Fail, Goto, Importing, Publishing
<1>3. /\ TypeOK /\ Own(w) /\ my[w] \in Memory /\ disk[w] \in Disk
      /\ At(w) \in Machine /\ pc[w] \in AtWork
      /\ disk[w].file \in Package
      /\ w \in Handler \/ pc[w] \notin {"probe", "get", "receive", "sent"}
      /\ w \in Op => my[w].kind = "fetch" /\ my[w].from = None /\ ~my[w].answered
      /\ w \in Handler => my[w].kind = "put" /\ my[w].peer \in Machine
      /\ my[w].kind = "put" /\ my[w].from # None => disk[w].file = my[my[w].from].seen
  BY <1>2, Importer
<1>4. PICK d : d = [disk[w] EXCEPT !.staged = FALSE]
  OBVIOUS
<1>5. d \in Disk /\ d.file = disk[w].file /\ ~d.staged
  BY <1>3, <1>4 DEF Disk
<1>6. PICK r : r = [my[w] EXCEPT !.moved = None, !.movedRestore = None]
  OBVIOUS
<1>7. /\ r \in Memory /\ r.at = my[w].at /\ r.peer = my[w].peer /\ r.kind = my[w].kind
      /\ r.from = my[w].from /\ r.answered = my[w].answered
  BY <1>3, <1>6 DEF Memory
<1>8. Moves(w, "failed", r, d) /\ UNCHANGED <<cache, tlock, slots, changes>>
  BY <1>1, <1>3, <1>4, <1>6 DEF ImportFails, Fail, Goto, Moves, TypeOK
<1>9. pc'[w] = "failed" /\ my'[w] = r /\ disk'[w] = d
  BY <1>3, <1>8, Moved
<1>10. Role(w)'
  BY <1>2, <1>3, <1>7, <1>9 DEF Own, Role, At, Fetching, Pushing, Importing, Imported, Publishing,
    Worker
<1>11. Files(w)' /\ Held(w)' /\ Told(w)'
  BY <1>5, <1>9 DEF Files, Held, Told, Publishing
<1>12. "failed" \in AtWork
  BY DEF AtWork, Imported
<1> HIDE DEF IInv
<1> QED
  BY <1>3, <1>5, <1>7, <1>8, <1>10, <1>11, <1>12, Advance

(* Spooled: the payload has come in.                                        *)
LEMMA StepSpooled == ASSUME IInv, NEW h \in Handler, Spooled(h) PROVE IInv'
<1> USE Absent
<1>1. h \in Worker /\ TypeOK /\ Own(h) /\ my[h] \in Memory /\ disk[h] \in Disk
  BY Typed DEF IInv, Worker
<1>2. pc[h] = "spool" /\ my[h].from # None
  BY DEF Spooled, Goto
<1>3. /\ my[h].kind = "put" /\ my[h].peer \in Machine /\ At(h) \in Machine /\ ~my[h].answered
      /\ h \notin Op
  BY <1>1, <1>2 DEF Own, Role
<1>4. PICK o \in Op : o = my[h].from
  BY <1>1, <1>2, Typed
<1>5. pc[o] = "sent" /\ disk[o].file \in Package /\ disk[o].file = my[o].seen
  <2>1. pc[o] = "sent"
    BY <1>1, <1>2, <1>3, <1>4 DEF Own, Link
  <2>2. Files(o)
    BY <1>4 DEF IInv, Own, Worker
  <2> QED
    BY <2>1, <2>2 DEF Files
<1>6. PICK d : d = [disk[h] EXCEPT !.file = disk[o].file]
  OBVIOUS
<1>7. d \in Disk /\ d.file = disk[o].file /\ d.staged = disk[h].staged
  BY <1>1, <1>5, <1>6 DEF Disk
<1>8. Moves(h, "inspect", my[h], d) /\ UNCHANGED <<cache, tlock, slots, changes>>
  BY <1>1, <1>4, <1>6 DEF Spooled, Goto, Moves, TypeOK
<1>9. pc'[h] = "inspect" /\ my'[h] = my[h] /\ disk'[h] = d
  BY <1>1, <1>8, Moved
<1>10. Role(h)'
  BY <1>2, <1>3, <1>9 DEF Role, At, Importing
<1>11. Files(h)' /\ Held(h)' /\ Told(h)'
  BY <1>1, <1>2, <1>5, <1>7, <1>9 DEF Own, Files, Held, Told, Publishing
<1>12. "inspect" \in AtWork /\ pc[h] \in AtWork
  BY <1>2 DEF AtWork, Importing
<1> HIDE DEF IInv
<1> QED
  BY <1>1, <1>4, <1>5, <1>7, <1>8, <1>10, <1>11, <1>12, Advance

------------------------------------------------------------------------------
(* Beginnings, and what happens to a worker that is not at work.            *)

LEMMA Spent == ASSUME TypeOK, NEW kind, Spend(kind) PROVE changes' \in 0 .. MaxChange
  BY LimitAssumption DEF TypeOK, Spend

(* StartFetch and StartPush.                                                *)
LEMMA StepStart ==
  ASSUME IInv, NEW o \in Op, NEW m \in Machine,
         \/ \E b \in Build \cup {None} : StartFetch(o, m, b)
         \/ \E n \in Machine : StartPush(o, m, n)
  PROVE  IInv'
<1> USE Absent
<1>1. o \in Worker /\ TypeOK /\ Own(o) /\ disk[o] \in Disk /\ o \notin Handler
  BY Typed DEF IInv, Worker
<1> DEFINE Begun(r) ==
      /\ pc[o] = "idle"
      /\ Moves(o, "tlock", r, disk[o]) /\ UNCHANGED <<cache, tlock, slots, changes>>
      /\ r.at = m /\ r.from = None /\ ~r.answered
      /\ r.kind = "fetch" \/ (r.kind = "push" /\ r.peer \in Machine)
<1>2. PICK r \in Memory : Begun(r)
  <2>1. ASSUME NEW b \in Build \cup {None}, StartFetch(o, m, b) PROVE \E r \in Memory : Begun(r)
    <3>1. PICK r : r = [Blank EXCEPT !.kind = "fetch", !.at = m, !.want = b]
      OBVIOUS
    <3>2. r \in Memory /\ r.at = m /\ r.from = None /\ ~r.answered /\ r.kind = "fetch"
      BY <3>1 DEF Memory, Blank
    <3>3. Moves(o, "tlock", r, disk[o])
      BY <1>1, <2>1, <3>1 DEF StartFetch, Goto, Moves, TypeOK
    <3> QED
      BY <2>1, <3>2, <3>3 DEF StartFetch, Goto
  <2>2. ASSUME NEW n \in Machine, StartPush(o, m, n) PROVE \E r \in Memory : Begun(r)
    <3>1. PICK r : r = [Blank EXCEPT !.kind = "push", !.at = m, !.peer = n]
      OBVIOUS
    <3>2. r \in Memory /\ r.at = m /\ r.from = None /\ ~r.answered /\ r.kind = "push" /\ r.peer = n
      BY <3>1 DEF Memory, Blank
    <3>3. Moves(o, "tlock", r, disk[o])
      BY <1>1, <2>2, <3>1 DEF StartPush, Goto, Moves, TypeOK
    <3> QED
      BY <2>2, <3>2, <3>3 DEF StartPush, Goto
  <2> QED
    BY <2>1, <2>2
<1>3. pc'[o] = "tlock" /\ my'[o] = r /\ disk'[o] = disk[o]
  BY <1>1, <1>2, Moved
<1>4. Role(o)'
  BY <1>1, <1>2, <1>3 DEF Role, At, Fetching, Pushing
<1>5. Locked(o)' /\ Files(o)' /\ Held(o)' /\ Told(o)' /\ Link(o)'
  BY <1>1, <1>2, <1>3, Phases DEF Own, Locked, Files, Held, Told, Publishing, Link
<1>6. LocksOf({o}) /\ tlock' \in [Machine -> Worker \cup {None}] /\ changes' \in 0 .. MaxChange
  BY <1>1, <1>2 DEF LocksOf, TypeOK
<1>7. \A h \in Handler : my[h].from # o
  BY <1>1, <1>2, NotAsked
<1>8. Own(o)' /\ "tlock" \in Phase
  BY <1>4, <1>5 DEF Own, Phase
<1> HIDE DEF IInv
<1> QED
  BY <1>1, <1>2, <1>6, <1>7, <1>8, QuietMove DEF Moves

(* TakeLock.                                                                *)
LEMMA StepTakeLock == ASSUME IInv, NEW w \in Worker, TakeLock(w) PROVE IInv'
<1> USE Absent
<1>1. TypeOK /\ Own(w) /\ my[w] \in Memory /\ pc[w] = "tlock" /\ At(w) \in Machine
  BY Typed DEF IInv, TakeLock, Own, Role
<1>2. my[w].kind \in {"fetch", "push", "head", "get", "put"} /\ disk[w] = Nothing
  BY <1>1 DEF Own, Role, Files, Worker
<1>3. PICK p \in {"local", "read", "spool"} : p = First[my[w].kind]
  BY <1>2 DEF First
<1>4. /\ my[w].kind = "fetch" => p = "local"
      /\ my[w].kind \in {"push", "head", "get"} => p = "read"
      /\ my[w].kind = "put" => p = "spool"
  BY <1>3 DEF First
<1>5. PICK d : d = IF my[w].kind = "put" THEN [Nothing EXCEPT !.file = Part] ELSE Nothing
  OBVIOUS
<1>6. d \in Disk /\ (my[w].kind # "put" => d.file = None) /\ ~d.staged
  BY <1>5 DEF Nothing, Disk
<1>7. Moves(w, p, my[w], d) /\ UNCHANGED <<cache, slots, changes>>
  <2>1. disk' = [disk EXCEPT ![w] = d]
    BY <1>1, <1>2, <1>5 DEF TakeLock, TypeOK, Nothing
  <2> QED
    BY <1>1, <1>3, <2>1 DEF TakeLock, Moves, TypeOK
<1>8. pc'[w] = p /\ my'[w] = my[w] /\ disk'[w] = d
  BY <1>1, <1>7, Moved
<1>9. Role(w)'
  BY <1>1, <1>4, <1>8 DEF Own, Role, At, Fetching, Pushing, Worker
<1>10. Files(w)' /\ Held(w)' /\ Told(w)'
  BY <1>1, <1>4, <1>6, <1>8 DEF Own, Role, Files, Held, Told, Publishing, Worker
<1>11. /\ tlock' \in [Machine -> Worker \cup {None}] /\ tlock'[At(w)] = w
       /\ \A m \in Machine : m # At(w) => tlock'[m] = tlock[m]
  BY <1>1 DEF TakeLock, TypeOK
<1>12. Locked(w)'
  BY <1>1, <1>3, <1>8, <1>11 DEF Locked, At
<1>13. LocksOf({w})
  BY <1>1, <1>11 DEF TakeLock, Free, LocksOf
<1>14. Link(w)'
  <2>1. CASE my[w].from = None
    BY <1>8, <2>1 DEF Link
  <2>2. CASE my[w].from # None
    <3>1. PICK o \in Worker : o = my[w].from /\ o # w
      BY <1>1, <2>2, Typed DEF Own, Role, Worker
    <3>2. pc'[o] = pc[o] /\ my'[o] = my[o]
      BY <1>1, <1>7, <3>1, Moved
    <3>3. p \notin Importing \cup Imported
      BY <1>3 DEF Importing, Imported, Publishing
    <3> QED
      BY <1>1, <1>8, <3>1, <3>2, <3>3 DEF Own, Link, At
  <2> QED
    BY <2>1, <2>2
<1>15. Own(w)' /\ p \in Phase /\ p \notin Over /\ pc[w] \notin Over
  BY <1>1, <1>3, <1>9, <1>10, <1>12, <1>14 DEF Own, Phase, AtWork, Exporting, Over
<1>16. \A h \in Handler : my[h].from # w
  BY <1>1, NotAsked
<1>17. changes' \in 0 .. MaxChange
  BY <1>1, <1>7 DEF TypeOK
<1> HIDE DEF IInv
<1> QED
  BY <1>1, <1>6, <1>7, <1>11, <1>13, <1>15, <1>16, <1>17, QuietMove DEF Moves

(* PruneStaging: what belongs to nobody that is at work.                    *)
LEMMA StepPruneStaging == ASSUME IInv, NEW w \in Worker, PruneStaging(w) PROVE IInv'
<1> USE Absent
<1>1. TypeOK /\ Own(w) /\ my[w] \in Memory /\ pc[w] \in Phase
  BY Typed DEF IInv
<1>2. pc[w] \in {"dead", "stuck"} /\ At(w) \in Machine
  BY <1>1 DEF PruneStaging, Free, Own, Role, Locked, Files, Phase, Over, Worker
<1>3. Nothing \in Disk /\ Nothing.file = None /\ ~Nothing.staged
  BY DEF Nothing, Disk
<1>4. Moves(w, pc[w], my[w], Nothing) /\ UNCHANGED <<cache, slots, changes>>
  BY <1>1 DEF PruneStaging, Moves, TypeOK
<1>5. pc'[w] = pc[w] /\ my'[w] = my[w] /\ disk'[w] = Nothing
  BY <1>1, <1>4, Moved
<1>6. /\ tlock' \in [Machine -> Worker \cup {None}] /\ tlock'[At(w)] = None
      /\ \A m \in Machine : m # At(w) => tlock'[m] = tlock[m]
  BY <1>1, <1>2 DEF PruneStaging, TypeOK
<1>7. /\ Role(w)'
      /\ Locked(w)' /\ Files(w)'
      /\ Held(w)' /\ Told(w)'
  <2>1. Role(w)'
    BY <1>1, <1>2, <1>5 DEF Own, Role, At
  <2>2. Locked(w)' /\ Files(w)'
    BY <1>1, <1>2, <1>3, <1>5, Phases DEF Locked, Files, Publishing
  <2>3. Held(w)' /\ Told(w)'
    BY <1>1, <1>2, <1>4, <1>5 DEF Own, Held, Told, Publishing, cache
  <2> QED
    BY <2>1, <2>2, <2>3
<1>8. LocksOf({w})
  BY <1>1, <1>6 DEF PruneStaging, Free, LocksOf
<1>9. my[w].from = None
  BY <1>1, <1>2 DEF Own, Role, Worker, Importing, Imported, Publishing
<1>10. Own(w)'
  BY <1>5, <1>7, <1>9 DEF Own, Link
<1>11. \A h \in Handler : my[h].from # w
  BY <1>1, <1>2, NotAsked
<1>12. changes' \in 0 .. MaxChange
  BY <1>1, <1>4 DEF TypeOK
<1> HIDE DEF IInv
<1> QED
  BY <1>1, <1>3, <1>4, <1>6, <1>8, <1>10, <1>11, <1>12, QuietMove DEF Moves

(* GiveUp: nobody waits for the request any more.                           *)
LEMMA StepGiveUp == ASSUME IInv, NEW h \in Handler, GiveUp(h) PROVE IInv'
<1> USE Absent
<1>1. /\ h \in Worker /\ TypeOK /\ Own(h) /\ my[h] \in Memory /\ pc[h] \in Phase /\ disk[h] \in Disk
      /\ h \notin Op
  BY Typed DEF IInv, Worker
<1>2. PICK r : r = [my[h] EXCEPT !.from = None]
  OBVIOUS
<1>3. /\ r \in Memory /\ r.from = None /\ r.at = my[h].at /\ r.peer = my[h].peer
      /\ r.kind = my[h].kind /\ r.want = my[h].want /\ r.answered = my[h].answered
      /\ r.seen = my[h].seen /\ r.moved = my[h].moved /\ r.movedRestore = my[h].movedRestore
      /\ (my[h].from = None => r = my[h])
  BY <1>1, <1>2 DEF Memory
<1>4. Moves(h, pc[h], r, disk[h]) /\ UNCHANGED <<cache, tlock, slots, changes>>
  BY <1>1, <1>2 DEF GiveUp, Moves, TypeOK
<1>5. /\ pc'[h] = pc[h] /\ my'[h] = r /\ disk'[h] = disk[h]
      /\ UNCHANGED <<entry, restore, orphaned, had, tlock>>
  BY <1>1, <1>4, Moved DEF cache
<1>6. Role(h)'
  BY <1>1, <1>3, <1>5 DEF Own, Role, At, GiveUp, Blank
<1>7. Locked(h)' /\ Files(h)' /\ Link(h)'
  BY <1>1, <1>3, <1>5 DEF Own, Locked, Files, Link, At
<1>8. Held(h)' /\ Told(h)'
  BY <1>1, <1>3, <1>5 DEF Own, Held, Told, Restores, At
<1>9. LocksOf({h}) /\ tlock' \in [Machine -> Worker \cup {None}] /\ changes' \in 0 .. MaxChange
  BY <1>1, <1>4 DEF LocksOf, TypeOK
<1>10. Own(h)' /\ \A g \in Handler : my[g].from # h
  BY <1>1, <1>6, <1>7, <1>8, NotAsked DEF Own
<1> HIDE DEF IInv
<1> QED
  BY <1>1, <1>3, <1>4, <1>9, <1>10, QuietMove DEF Moves

(* EndStuck: the lock stays with a process that does nothing more.          *)
LEMMA StepEndStuck == ASSUME IInv, NEW o \in Op, EndStuck(o) PROVE IInv'
<1> USE Absent
<1>1. pc[o] = "shared"
  BY DEF EndStuck, Goto
<1>2. /\ o \in Worker /\ TypeOK /\ Own(o) /\ my[o] \in Memory /\ disk[o] \in Disk
      /\ At(o) \in Machine /\ my[o].from = None /\ ~my[o].answered /\ o \notin Handler
  BY <1>1, Fetcher
<1>3. Moves(o, "stuck", my[o], disk[o]) /\ UNCHANGED <<cache, tlock, slots>>
  BY <1>2 DEF EndStuck, Goto, Moves, TypeOK
<1>4. pc'[o] = "stuck" /\ my'[o] = my[o] /\ disk'[o] = disk[o]
  BY <1>2, <1>3, Moved
<1>5. Role(o)'
  BY <1>1, <1>2, <1>4 DEF Own, Role, At, Fetching, Pushing, Importing, Imported, Publishing
<1>6. Locked(o)' /\ Files(o)' /\ Link(o)' /\ Held(o)' /\ Told(o)'
  BY <1>1, <1>2, <1>4, Phases DEF Own, Locked, Files, Link, Held, Told, Publishing
<1>7. LocksOf({o}) /\ tlock' \in [Machine -> Worker \cup {None}] /\ changes' \in 0 .. MaxChange
  BY <1>2, <1>3, Spent DEF LocksOf, TypeOK, EndStuck
<1>8. Own(o)' /\ "stuck" \in Phase /\ \A h \in Handler : my[h].from # o
  BY <1>1, <1>2, <1>5, <1>6, NotAsked DEF Own, Phase, Over
<1> HIDE DEF IInv
<1> QED
  BY <1>2, <1>3, <1>7, <1>8, QuietMove DEF Moves

------------------------------------------------------------------------------
(* Ends.                                                                    *)

(* Who is idle has nothing.                                                 *)
LEMMA Rested ==
  ASSUME NEW w \in Worker, pc'[w] = "idle", my'[w] = Blank,
         ~disk'[w].staged, disk'[w].file = None, disk'[w] \in Disk,
         \A m \in Machine : tlock'[m] # w
  PROVE  Own(w)'
<1> USE Absent
<1>1. /\ Blank.from = None /\ ~Blank.answered /\ Blank.kind = None /\ Blank.at = None
      /\ Blank \in Memory /\ Nothing = [file |-> None, staged |-> FALSE]
  BY DEF Blank, Memory, Nothing
<1>2. disk'[w] = Nothing
  BY <1>1 DEF Disk
<1>3. Role(w)'
  BY <1>1 DEF Role
<1>4. Locked(w)' /\ Files(w)' /\ Link(w)'
  BY <1>1, <1>2, Phases DEF Locked, Files, Link, Publishing
<1>5. Held(w)' /\ Told(w)'
  BY DEF Held, Told
<1> QED
  BY <1>3, <1>4, <1>5 DEF Own

LEMMA BlankTyped == Blank \in Memory /\ Blank.from = None
  BY DEF Blank, Memory

(* What the end of a worker does to the locks.                              *)
LEMMA Released ==
  ASSUME TypeOK, NEW w \in Worker, tlock' = Unlocked(w)
  PROVE  /\ tlock' \in [Machine -> Worker \cup {None}]
         /\ \A m \in Machine : tlock'[m] # w
         /\ \A W \in SUBSET Worker : w \in W => LocksOf(W)
  BY Absent DEF TypeOK, Unlocked, LocksOf

(* LockTimeout, ExportFails, NoneLeft, PutFails and Done of a fetch or push.*)
LEMMA StepOpEnds ==
  ASSUME IInv, NEW o \in Op,
         LockTimeout(o) \/ ExportFails(o) \/ NoneLeft(o) \/ PutFails(o) \/ Done(o)
  PROVE  IInv'
<1> USE Absent
<1>1. /\ pc[o] \in {"tlock", "read", "write", "local", "choose", "put", "sent", "fetched", "shared"}
      /\ pc' = [pc EXCEPT ![o] = "idle"] /\ Finish(o)
  BY DEF LockTimeout, ExportFails, NoneLeft, PutFails, Done, Goto, Exporting
<1>2. /\ o \in Worker /\ TypeOK /\ Own(o) /\ my[o] \in Memory /\ disk[o] \in Disk
      /\ o \notin Handler
  BY <1>1, Fetcher
<1>3. PICK d : d = [disk[o] EXCEPT !.file = None]
  OBVIOUS
<1>4. d \in Disk /\ d.file = None /\ ~d.staged
  BY <1>1, <1>2, <1>3 DEF Disk, Own, Files, Publishing, Nothing
<1>5. disk' = [disk EXCEPT ![o] = d]
  <2>1. CASE LockTimeout(o) \/ NoneLeft(o)
    <3>1. disk[o].file = None
      BY <1>2, <2>1 DEF LockTimeout, NoneLeft, Goto, Own, Files, Nothing
    <3>2. d = disk[o]
      BY <1>2, <1>3, <3>1 DEF Disk
    <3> QED
      BY <1>2, <2>1, <3>2 DEF LockTimeout, NoneLeft, TypeOK
  <2>2. CASE ExportFails(o) \/ PutFails(o) \/ Done(o)
    BY <1>2, <1>3, <2>2 DEF ExportFails, PutFails, Done, RemoveFile, TypeOK
  <2> QED
    BY <2>1, <2>2
<1>6. Moves(o, "idle", Blank, d)
  BY <1>1, <1>5 DEF Moves, Finish
<1>7. /\ tlock' \in [Machine -> Worker \cup {None}] /\ LocksOf({o})
      /\ \A m \in Machine : tlock'[m] # o
  BY <1>1, <1>2, Released DEF Finish
<1>8. Own(o)'
  BY <1>2, <1>4, <1>6, <1>7, Rested, Moved
<1>9. UNCHANGED <<cache, slots, changes>> /\ changes' \in 0 .. MaxChange
  BY <1>1, <1>2 DEF Finish, GiveSlot, TypeOK, slots
<1>10. \A h \in Handler : my[h].from # o
  BY <1>1, <1>2, NotAsked DEF PutFails, Unanswered, LockTimeout, ExportFails, NoneLeft, Done, Goto,
    Exporting
<1>11. "idle" \in Phase
  BY DEF Phase, Over
<1> HIDE DEF IInv
<1> QED
  BY <1>2, <1>4, <1>6, <1>7, <1>8, <1>9, <1>10, <1>11, BlankTyped, QuietMove DEF Moves

------------------------------------------------------------------------------
(* Steps of several workers.                                                *)

LEMMA Whole ==
  ASSUME IInv, TypeOK', NEW W \in SUBSET Worker, LocksOf(W), Grown,
         \A v \in Worker \ W : Apart(W, v),
         \A w \in W : Own(w)',
         Sole', Stood', RestoreWithEntry', Counted'
  PROVE  IInv'
<1>1. ASSUME NEW v \in Worker \ W PROVE Own(v)'
  <2>1. TypeOK /\ Own(v) /\ Apart(W, v)
    BY DEF IInv
  <2>2. ASSUME my[v].from # None, my[v].from \notin W
        PROVE  /\ pc'[my[v].from] = pc[my[v].from]
               /\ \/ my'[my[v].from] = my[my[v].from]
                  \/ my'[my[v].from] = [my[my[v].from] EXCEPT !.from = None]
    <3>1. my[v].from \in Worker \ W
      BY <2>1, <2>2, Typed DEF Worker
    <3> QED
      BY <3>1 DEF Apart
  <2> QED
    BY <2>1, <2>2, Others
<1>2. \A v \in Worker : Own(v)'
  BY <1>1
<1> QED
  BY <1>2 DEF IInv

LEMMA JointMove ==
  ASSUME IInv, TypeOK', NEW W \in SUBSET Worker, LocksOf(W), UNCHANGED cache,
         \A v \in Worker \ W : pc'[v] = pc[v] /\ my'[v] = my[v] /\ disk'[v] = disk[v],
         \A h \in Handler \ W : my[h].from \in W => Link(h)',
         \A w \in W : Own(w)',
         Sole', Counted'
  PROVE  IInv'
<1> USE Absent
<1>1. Grown /\ Stood' /\ RestoreWithEntry'
  BY CacheKept DEF IInv, Grown, cache
<1>2. ASSUME NEW v \in Worker \ W PROVE Apart(W, v)
  <2>1. my'[v].from \in W => Link(v)'
    <3>1. my[v].from # None => v \in Handler
      BY DEF IInv, Own, Role, Worker
    <3>2. None \notin W
      OBVIOUS
    <3> QED
      BY <3>1, <3>2
  <2>2. Undisturbed(At(v))
    BY DEF Undisturbed, cache
  <2> QED
    BY <2>1, <2>2 DEF Apart
<1> HIDE DEF IInv
<1> QED
  BY <1>1, <1>2, Whole

LEMMA Nested ==
  ASSUME NEW f \in [Machine -> [Machine -> Nat]], NEW n \in Machine, NEW p \in Machine,
         NEW x \in Nat
  PROVE  [f EXCEPT ![n][p] = x] \in [Machine -> [Machine -> Nat]]
<1>1. [f[n] EXCEPT ![p] = x] \in [Machine -> Nat]
  OBVIOUS
<1> QED
  BY <1>1

(* A request that ends gives one slot back, or loses it for good.           *)
LEMMA SlotGiven ==
  ASSUME IInv, NEW h \in Handler, pc[h] \notin Over, pc'[h] \in Over,
         \A g \in Handler : g # h => /\ pc'[g] \in Over <=> pc[g] \in Over
                                     /\ At(g)' = At(g) /\ my'[g].peer = my[g].peer,
         \/ active' = GiveSlot(h) /\ leaked' = leaked
         \/ active' = active /\ leaked' = [leaked EXCEPT ![At(h)][my[h].peer] = @ + 1]
  PROVE  /\ Counted'
         /\ active' \in [Machine -> [Machine -> Nat]]
         /\ leaked' \in [Machine -> [Machine -> Nat]]
<1> USE Absent
<1>1. TypeOK /\ h \in Worker /\ h \notin Op
  BY DEF IInv, Worker
<1>2. PICK n, p \in Machine : n = At(h) /\ p = my[h].peer
  BY <1>1 DEF IInv, Own, Role, Over
<1>3. ASSUME NEW m \in Machine, NEW c \in Machine, ~(m = n /\ c = p)
      PROVE  Under(m, c)' = Under(m, c)
  BY <1>2, <1>3 DEF Under
<1>4. h \in Under(n, p) /\ Under(n, p)' = Under(n, p) \ {h}
  BY <1>2 DEF Under
<1>5. /\ IsFiniteSet(Under(n, p)') /\ Cardinality(Under(n, p)') = Cardinality(Under(n, p)) - 1
      /\ IsFiniteSet(Under(n, p)) /\ Cardinality(Under(n, p)) \in Nat
      /\ Cardinality(Under(n, p)') \in Nat
  BY <1>4, FS_RemoveElement, FS_CardinalityType DEF IInv, Counted
<1>6. /\ active[n][p] \in Nat /\ leaked[n][p] \in Nat
      /\ active[n][p] = leaked[n][p] + Cardinality(Under(n, p))
  BY <1>1 DEF TypeOK, IInv, Counted
<1>7. /\ \/ active'[n][p] = active[n][p] - 1 /\ leaked'[n][p] = leaked[n][p]
         \/ active'[n][p] = active[n][p] /\ leaked'[n][p] = leaked[n][p] + 1
      /\ \A m, c \in Machine : ~(m = n /\ c = p) =>
           active'[m][c] = active[m][c] /\ leaked'[m][c] = leaked[m][c]
  BY <1>1, <1>2 DEF GiveSlot, TypeOK
<1>8. Counted'
  BY <1>3, <1>5, <1>6, <1>7 DEF Counted, IInv
<1>9. PICK x, y : x = active[n][p] - 1 /\ y = leaked[n][p] + 1
  OBVIOUS
<1>10. active' = active \/ active' = [active EXCEPT ![n][p] = x]
  BY <1>1, <1>2, <1>9 DEF GiveSlot
<1>11. leaked' = leaked \/ leaked' = [leaked EXCEPT ![n][p] = y]
  BY <1>2, <1>9
<1>12. x \in Nat /\ y \in Nat
  BY <1>5, <1>6, <1>9
<1>13. active \in [Machine -> [Machine -> Nat]] /\ leaked \in [Machine -> [Machine -> Nat]]
  BY <1>1 DEF TypeOK
<1>14. active' \in [Machine -> [Machine -> Nat]]
  <2>1. [active EXCEPT ![n][p] = x] \in [Machine -> [Machine -> Nat]]
    BY <1>12, <1>13, Nested
  <2> QED
    BY <1>10, <1>13, <2>1, Zenon
<1>15. leaked' \in [Machine -> [Machine -> Nat]]
  BY <1>11, <1>12, <1>13, Nested
<1> QED
  BY <1>8, <1>14, <1>15

Ends(h) ==
  /\ tlock' = Unlocked(h)
  /\ UNCHANGED cache
  /\ changes' \in 0 .. MaxChange
  /\ \/ active' = GiveSlot(h) /\ leaked' = leaked
     \/ active' = active /\ leaked' = [leaked EXCEPT ![At(h)][my[h].peer] = @ + 1]

LEMMA Finished == ASSUME TypeOK, NEW h \in Handler, Finish(h) PROVE Ends(h)
  BY DEF Finish, Ends, TypeOK

(* A request ends, and perhaps the process that waited for it goes on.      *)
LEMMA EndMove ==
  ASSUME IInv, NEW h \in Handler, NEW W \in SUBSET Worker, h \in W,
         \A g \in Handler : g \in W => g = h,
         pc[h] \notin Over, pc'[h] = "idle", my'[h] = Blank,
         pc' \in [Worker -> Phase], my' \in [Worker -> Memory], disk' \in [Worker -> Disk],
         Ends(h),
         \A v \in Worker \ W : pc'[v] = pc[v] /\ my'[v] = my[v] /\ disk'[v] = disk[v],
         \A g \in Handler : g # h /\ my[g].from \in W => Link(g)',
         \A w \in W : w # h => Own(w)',
         ~disk'[h].staged, disk'[h].file = None
  PROVE  IInv'
<1> USE Absent
<1>1. TypeOK /\ h \in Worker
  BY DEF IInv, Worker
<1>2. /\ tlock' \in [Machine -> Worker \cup {None}] /\ LocksOf(W)
      /\ \A m \in Machine : tlock'[m] # h
  BY <1>1, Released DEF Ends
<1>3. \A g \in Handler : g # h => g \in Worker \ W
  BY DEF Worker
<1>4. /\ Counted'
      /\ active' \in [Machine -> [Machine -> Nat]]
      /\ leaked' \in [Machine -> [Machine -> Nat]]
  <2>1. "idle" \in Over
    BY DEF Over
  <2>2. \A g \in Handler : g # h => /\ pc'[g] \in Over <=> pc[g] \in Over
                                    /\ At(g)' = At(g) /\ my'[g].peer = my[g].peer
    BY <1>3 DEF At
  <2>3. \/ active' = GiveSlot(h) /\ leaked' = leaked
        \/ active' = active /\ leaked' = [leaked EXCEPT ![At(h)][my[h].peer] = @ + 1]
    BY DEF Ends
  <2> HIDE DEF IInv
  <2> QED
    BY <2>1, <2>2, <2>3, SlotGiven
<1>5. UNCHANGED cache /\ changes' \in 0 .. MaxChange
  BY DEF Ends
<1>6. TypeOK'
  BY <1>1, <1>2, <1>4, <1>5 DEF TypeOK, cache
<1>7. Own(h)'
  <2>1. disk'[h] \in Disk
    BY <1>1
  <2> QED
    BY <1>1, <1>2, <2>1, Rested
<1>8. Sole'
  BY <1>3, SoleKept, BlankTyped DEF IInv
<1> HIDE DEF IInv
<1> QED
  BY <1>2, <1>4, <1>5, <1>6, <1>7, <1>8, JointMove

(* LockTimeout, ExportFails, Unsent, SpoolFails and Reject of a request,    *)
(* and LockError.                                                           *)
LEMMA StepHandlerEnds ==
  ASSUME IInv, NEW h \in Handler,
         LockTimeout(h) \/ ExportFails(h) \/ Unsent(h) \/ SpoolFails(h) \/ Reject(h) \/ LockError(h)
  PROVE  IInv'
<1> USE Absent
<1>1. h \in Worker /\ TypeOK /\ Own(h) /\ disk[h] \in Disk
  BY Typed DEF IInv, Worker
<1>2. /\ pc[h] \in {"tlock", "read", "write", "send", "stream", "spool"} \cup Imported
      /\ pc' = [pc EXCEPT ![h] = "idle"] /\ my' = [my EXCEPT ![h] = Blank]
  BY DEF LockTimeout, ExportFails, Unsent, SpoolFails, Reject, LockError, Goto, Exporting, Finish
<1>3. PICK d : d = [disk[h] EXCEPT !.file = None]
  OBVIOUS
<1>4. d \in Disk /\ d.file = None /\ ~d.staged
  BY <1>1, <1>2, <1>3 DEF Disk, Own, Files, Publishing, Nothing, Imported
<1>5. disk' = [disk EXCEPT ![h] = d]
  <2>1. CASE LockTimeout(h) \/ LockError(h)
    <3>1. disk[h].file = None
      BY <1>1, <2>1 DEF LockTimeout, LockError, Goto, Own, Files, Nothing
    <3>2. d = disk[h]
      BY <1>1, <1>3, <3>1 DEF Disk
    <3> QED
      BY <1>1, <2>1, <3>2 DEF LockTimeout, LockError, TypeOK
  <2>2. CASE ExportFails(h) \/ Unsent(h) \/ SpoolFails(h) \/ Reject(h)
    BY <1>1, <1>3, <2>2 DEF ExportFails, Unsent, SpoolFails, Reject, RemoveFile, TypeOK
  <2> QED
    BY <2>1, <2>2
<1>6. Moves(h, "idle", Blank, d)
  BY <1>2, <1>5 DEF Moves
<1>7. /\ pc'[h] = "idle" /\ my'[h] = Blank /\ disk'[h] = d
      /\ \A v \in Worker \ {h} : pc'[v] = pc[v] /\ my'[v] = my[v] /\ disk'[v] = disk[v]
  BY <1>1, <1>6, Moved
<1>8. /\ pc' \in [Worker -> Phase] /\ my' \in [Worker -> Memory] /\ disk' \in [Worker -> Disk]
  BY <1>1, <1>2, <1>4, <1>5, BlankTyped DEF TypeOK, Phase, Over
<1>9. Ends(h)
  <2>1. CASE LockError(h)
    <3>1. \A m \in Machine : tlock[m] # h
      BY <1>1, <2>1 DEF LockError, Goto, Own, Locked
    <3>2. Unlocked(h) = tlock
      BY <1>1, <3>1 DEF Unlocked, TypeOK
    <3> QED
      BY <1>1, <2>1, <3>2, Spent DEF LockError, Ends
  <2>2. CASE LockTimeout(h) \/ ExportFails(h) \/ Unsent(h) \/ SpoolFails(h) \/ Reject(h)
    BY <1>1, <2>2, Finished DEF LockTimeout, ExportFails, Unsent, SpoolFails, Reject
  <2> QED
    BY <2>1, <2>2
<1>10. pc[h] \notin Over
  BY <1>2 DEF Over, Imported
<1>11. \A g \in Handler : my[g].from # h
  BY <1>1, NotAsked
<1>12. PICK W \in SUBSET Worker : W = {h}
  BY <1>1
<1>13. /\ h \in W /\ \A g \in Handler : g \in W => g = h
       /\ \A v \in Worker \ W : pc'[v] = pc[v] /\ my'[v] = my[v] /\ disk'[v] = disk[v]
       /\ \A g \in Handler : g # h /\ my[g].from \in W => Link(g)'
       /\ \A w \in W : w # h => Own(w)'
       /\ ~disk'[h].staged /\ disk'[h].file = None
  BY <1>4, <1>7, <1>11, <1>12
<1> HIDE DEF IInv
<1> QED
  BY <1>7, <1>8, <1>9, <1>10, <1>13, EndMove

(* The process that waits for the answer of h.                              *)
LEMMA Waiter ==
  ASSUME IInv, NEW h \in Handler, my[h].from # None
  PROVE  /\ h \in Worker /\ TypeOK /\ Own(h) /\ my[h].from \in Op /\ my[h].from \in Worker
         /\ my[h].from # h /\ Own(my[h].from) /\ my[h].from \notin Handler
         /\ my[my[h].from] \in Memory /\ disk[my[h].from] \in Disk
         /\ pc[my[h].from] \in AtWork
         /\ At(my[h].from) \in Machine /\ tlock[At(my[h].from)] = my[h].from
         /\ disk[h] \in Disk /\ my[h] \in Memory
         /\ pc[h] \notin {"idle", "dead"} /\ At(h) \in Machine
<1>1. h \in Worker /\ TypeOK
  BY DEF IInv, Worker
<1>2. my[h].from \in Op /\ my[h].from \in Worker
  BY <1>1, Typed DEF Worker
<1>3. Own(h) /\ Own(my[h].from)
  BY <1>1, <1>2 DEF IInv
<1>4. pc[my[h].from] \in AtWork
  BY <1>3 DEF Own, Link, AtWork
<1>5. pc[h] \notin {"idle", "dead"} /\ At(h) \in Machine
  BY <1>3, BlankTyped DEF Own, Role
<1>6. my[my[h].from] \in Memory /\ disk[my[h].from] \in Disk /\ disk[h] \in Disk /\ my[h] \in Memory
  BY <1>1, <1>2, Typed
<1>7. At(my[h].from) \in Machine /\ tlock[At(my[h].from)] = my[h].from
  BY <1>3, <1>4, Phases DEF Own, Role, Locked
<1> QED
  BY <1>1, <1>2, <1>3, <1>4, <1>5, <1>6, <1>7, Absent

(* RespondHead.                                                             *)
LEMMA StepRespondHead == ASSUME IInv, NEW h \in Handler, RespondHead(h) PROVE IInv'
<1> USE Absent
<1>1. PICK o : o = my[h].from
  OBVIOUS
<1>2. /\ h \in Worker /\ TypeOK /\ Own(h) /\ o \in Op /\ o \in Worker /\ o # h /\ Own(o)
      /\ my[o] \in Memory /\ disk[h] \in Disk /\ pc[o] \in AtWork /\ At(h) \in Machine
      /\ o \notin Handler /\ At(o) \in Machine /\ tlock[At(o)] = o
  BY <1>1, Waiter DEF RespondHead
<1>3. pc[h] = "send" /\ pc[o] = "probe"
  BY <1>1, <1>2 DEF RespondHead, Goto, Own, Link
<1>4. PICK d, r : d = [disk[h] EXCEPT !.file = None] /\ r = [my[o] EXCEPT !.found = @ \cup {At(h)}]
  OBVIOUS
<1>5. d \in Disk /\ d.file = None /\ ~d.staged
  BY <1>2, <1>3, <1>4 DEF Disk, Own, Files, Publishing
<1>6. /\ r \in Memory /\ r.at = my[o].at /\ r.peer = my[o].peer /\ r.kind = my[o].kind
      /\ r.from = my[o].from /\ r.answered = my[o].answered
  BY <1>2, <1>4 DEF Memory
<1>7. /\ pc' = [pc EXCEPT ![h] = "idle"] /\ disk' = [disk EXCEPT ![h] = d]
      /\ my' = [my EXCEPT ![h] = Blank, ![o] = r]
      /\ active' = GiveSlot(h) /\ tlock' = Unlocked(h) /\ UNCHANGED <<cache, leaked, changes>>
  BY <1>1, <1>2, <1>4 DEF RespondHead, Goto, RemoveFile, TypeOK
<1>8. /\ pc'[h] = "idle" /\ my'[h] = Blank /\ disk'[h] = d
      /\ pc'[o] = "probe" /\ my'[o] = r /\ disk'[o] = disk[o]
      /\ \A v \in Worker \ {h, o} : pc'[v] = pc[v] /\ my'[v] = my[v] /\ disk'[v] = disk[v]
  BY <1>2, <1>3, <1>7 DEF TypeOK
<1>9. /\ pc' \in [Worker -> Phase] /\ my' \in [Worker -> Memory] /\ disk' \in [Worker -> Disk]
  BY <1>2, <1>5, <1>6, <1>7, BlankTyped DEF TypeOK, Phase, Over
<1>10. Own(o)'
  <2>1. Role(o)'
    BY <1>2, <1>3, <1>6, <1>8 DEF Own, Role, At
  <2>2. tlock'[At(o)] = o
    BY <1>2, <1>7 DEF Unlocked
  <2>3. Locked(o)' /\ Files(o)' /\ Held(o)' /\ Told(o)'
    BY <1>2, <1>3, <1>6, <1>8, <2>2 DEF Own, Locked, Files, Held, Told, Publishing, At
  <2>4. Link(o)'
    BY <1>2, <1>6, <1>8 DEF Link, Own, Role
  <2> QED
    BY <2>1, <2>3, <2>4 DEF Own
<1>11. ASSUME NEW g \in Handler, g # h, my[g].from \in {h, o} PROVE Link(g)'
  <2>1. my[g].from = o /\ g \in Worker \ {h, o}
    BY <1>2, <1>11, NotAsked DEF Worker
  <2>2. my[g].kind = "head"
    BY <1>2, <1>3, <2>1 DEF IInv, Own, Link
  <2> QED
    BY <1>8, <2>1, <2>2 DEF Link
<1>12. pc[h] \notin Over
  BY <1>3 DEF Over
<1>13. PICK W \in SUBSET Worker : W = {h, o}
  BY <1>2
<1>14. /\ h \in W /\ \A g \in Handler : g \in W => g = h
       /\ \A v \in Worker \ W : pc'[v] = pc[v] /\ my'[v] = my[v] /\ disk'[v] = disk[v]
       /\ \A g \in Handler : g # h /\ my[g].from \in W => Link(g)'
       /\ \A w \in W : w # h => Own(w)'
       /\ ~disk'[h].staged /\ disk'[h].file = None
  BY <1>2, <1>5, <1>8, <1>10, <1>11, <1>13
<1>15. Ends(h)
  BY <1>2, <1>7 DEF Ends, TypeOK
<1> HIDE DEF IInv
<1> QED
  BY <1>8, <1>9, <1>12, <1>14, <1>15, EndMove

(* Streamed: the package has arrived.                                       *)
LEMMA StepStreamed == ASSUME IInv, NEW h \in Handler, Streamed(h) PROVE IInv'
<1> USE Absent
<1>1. PICK o : o = my[h].from
  OBVIOUS
<1>2. /\ h \in Worker /\ TypeOK /\ Own(h) /\ o \in Op /\ o \in Worker /\ o # h /\ Own(o)
      /\ my[o] \in Memory /\ disk[h] \in Disk /\ disk[o] \in Disk /\ pc[o] \in AtWork
      /\ o \notin Handler /\ At(o) \in Machine /\ tlock[At(o)] = o
  BY <1>1, Waiter DEF Streamed
<1>3. pc[h] = "stream" /\ my[h].kind = "get" /\ pc[o] \in {"get", "receive"}
  <2>1. pc[h] = "stream"
    BY DEF Streamed
  <2>2. my[h].kind = "get"
    BY <1>2, <2>1 DEF Own, Role, Importing, Imported, Publishing
  <2> QED
    BY <1>1, <1>2, <2>1, <2>2 DEF Own, Link
<1>4. PICK d, e : d = [disk[h] EXCEPT !.file = None] /\ e = [disk[o] EXCEPT !.file = disk[h].file]
  OBVIOUS
<1>5. /\ d \in Disk /\ d.file = None /\ ~d.staged
      /\ e \in Disk /\ e.file \in Package /\ ~e.staged
  BY <1>2, <1>3, <1>4 DEF Disk, Own, Files, Publishing
<1>6. /\ pc' = [pc EXCEPT ![h] = "idle", ![o] = "inspect"]
      /\ disk' = [disk EXCEPT ![o] = e, ![h] = d]
      /\ my' = [my EXCEPT ![h] = Blank] /\ Finish(h)
  BY <1>1, <1>2, <1>4 DEF Streamed, Finish, TypeOK
<1>7. /\ pc'[h] = "idle" /\ my'[h] = Blank /\ disk'[h] = d
      /\ pc'[o] = "inspect" /\ my'[o] = my[o] /\ disk'[o] = e
      /\ \A v \in Worker \ {h, o} : pc'[v] = pc[v] /\ my'[v] = my[v] /\ disk'[v] = disk[v]
  BY <1>2, <1>3, <1>6 DEF TypeOK
<1>8. /\ pc' \in [Worker -> Phase] /\ my' \in [Worker -> Memory] /\ disk' \in [Worker -> Disk]
  BY <1>2, <1>5, <1>6, BlankTyped DEF TypeOK, Phase, Over, AtWork, Importing
<1>9. Own(o)'
  <2>1. Role(o)'
    BY <1>2, <1>3, <1>7 DEF Own, Role, At, Fetching, Pushing, Importing, Imported, Publishing
  <2>2. tlock'[At(o)] = o
    BY <1>2, <1>6 DEF Unlocked, Finish
  <2>3. Locked(o)' /\ Files(o)' /\ Held(o)' /\ Told(o)'
    BY <1>2, <1>3, <1>5, <1>7, <2>2 DEF Own, Locked, Files, Held, Told, Publishing, At
  <2>4. Link(o)'
    BY <1>2, <1>7 DEF Link, Own, Role
  <2> QED
    BY <2>1, <2>3, <2>4 DEF Own
<1>10. ASSUME NEW g \in Handler, g # h, my[g].from \in {h, o} PROVE Link(g)'
  BY <1>1, <1>2, <1>3, <1>10, NotAsked DEF IInv, Sole
<1>11. pc[h] \notin Over
  BY <1>3 DEF Over
<1>12. PICK W \in SUBSET Worker : W = {h, o}
  BY <1>2
<1>13. /\ h \in W /\ \A g \in Handler : g \in W => g = h
       /\ \A v \in Worker \ W : pc'[v] = pc[v] /\ my'[v] = my[v] /\ disk'[v] = disk[v]
       /\ \A g \in Handler : g # h /\ my[g].from \in W => Link(g)'
       /\ \A w \in W : w # h => Own(w)'
       /\ ~disk'[h].staged /\ disk'[h].file = None
  BY <1>2, <1>5, <1>7, <1>9, <1>10, <1>12
<1>14. Ends(h)
  BY <1>2, <1>6, Finished
<1> HIDE DEF IInv
<1> QED
  BY <1>7, <1>8, <1>11, <1>13, <1>14, EndMove

(* Accept: the client learns that its package stands there.                 *)
LEMMA StepAccept == ASSUME IInv, NEW h \in Handler, Accept(h) PROVE IInv'
<1> USE Absent
<1>1. PICK o : o = my[h].from
  OBVIOUS
<1>2. /\ h \in Worker /\ TypeOK /\ Own(h) /\ o \in Op /\ o \in Worker /\ o # h /\ Own(o)
      /\ my[o] \in Memory /\ disk[h] \in Disk /\ disk[o] \in Disk /\ pc[o] \in AtWork
      /\ o \notin Handler /\ At(o) \in Machine /\ tlock[At(o)] = o
  BY <1>1, Waiter DEF Accept
<1>3. pc[h] \in {"created", "existing"} /\ pc[h] \in Imported
  BY DEF Accept, Imported
<1>4. /\ my[h].kind = "put" /\ pc[o] = "sent" /\ At(h) = my[o].peer /\ disk[h].file = my[o].seen
  <2>1. my[h].kind = "put"
    BY <1>2, <1>3 DEF Own, Role
  <2> QED
    BY <1>1, <1>2, <1>3, <2>1 DEF Own, Link
<1>5. PICK d : d = [disk[h] EXCEPT !.file = None]
  OBVIOUS
<1>6. d \in Disk /\ d.file = None /\ ~d.staged
  BY <1>2, <1>3, <1>5 DEF Disk, Own, Files, Publishing
<1>7. /\ pc' = [pc EXCEPT ![h] = "idle", ![o] = "shared"] /\ disk' = [disk EXCEPT ![h] = d]
      /\ my' = [my EXCEPT ![h] = Blank] /\ Finish(h) /\ UNCHANGED cache
  BY <1>1, <1>2, <1>5 DEF Accept, RemoveFile, Finish, TypeOK
<1>8. /\ pc'[h] = "idle" /\ my'[h] = Blank /\ disk'[h] = d
      /\ pc'[o] = "shared" /\ my'[o] = my[o] /\ disk'[o] = disk[o]
      /\ \A v \in Worker \ {h, o} : pc'[v] = pc[v] /\ my'[v] = my[v] /\ disk'[v] = disk[v]
  BY <1>2, <1>7 DEF TypeOK
<1>9. /\ pc' \in [Worker -> Phase] /\ my' \in [Worker -> Memory] /\ disk' \in [Worker -> Disk]
  BY <1>2, <1>6, <1>7, BlankTyped DEF TypeOK, Phase, Over, AtWork
<1>10. Own(o)'
  <2>1. Role(o)'
    BY <1>2, <1>4, <1>8 DEF Own, Role, At, Fetching, Pushing, Importing, Imported, Publishing
  <2>2. tlock'[At(o)] = o
    BY <1>2, <1>7 DEF Unlocked, Finish
  <2>3. Locked(o)' /\ Files(o)' /\ Held(o)'
    BY <1>2, <1>4, <1>8, <2>2 DEF Own, Locked, Files, Held, Publishing, At
  <2>4. my[o].seen \in had[my[o].peer]
    BY <1>2, <1>3, <1>4 DEF Own, Told
  <2>5. Told(o)'
    BY <1>7, <1>8, <2>4 DEF Told, cache
  <2>6. Link(o)'
    BY <1>2, <1>8 DEF Link, Own, Role
  <2> QED
    BY <2>1, <2>3, <2>5, <2>6 DEF Own
<1>11. ASSUME NEW g \in Handler, g # h, my[g].from \in {h, o} PROVE Link(g)'
  BY <1>1, <1>2, <1>4, <1>11, NotAsked DEF IInv, Sole
<1>12. pc[h] \notin Over
  BY <1>3 DEF Over
<1>13. PICK W \in SUBSET Worker : W = {h, o}
  BY <1>2
<1>14. /\ h \in W /\ \A g \in Handler : g \in W => g = h
       /\ \A v \in Worker \ W : pc'[v] = pc[v] /\ my'[v] = my[v] /\ disk'[v] = disk[v]
       /\ \A g \in Handler : g # h /\ my[g].from \in W => Link(g)'
       /\ \A w \in W : w # h => Own(w)'
       /\ ~disk'[h].staged /\ disk'[h].file = None
  BY <1>2, <1>6, <1>8, <1>10, <1>11, <1>13
<1>15. Ends(h)
  BY <1>2, <1>7, Finished
<1> HIDE DEF IInv
<1> QED
  BY <1>8, <1>9, <1>12, <1>14, <1>15, EndMove

(* RespondGet: the package begins to flow.                                  *)
LEMMA StepRespondGet == ASSUME IInv, NEW h \in Handler, RespondGet(h) PROVE IInv'
<1> USE Absent
<1>1. PICK o : o = my[h].from
  OBVIOUS
<1>2. /\ h \in Worker /\ TypeOK /\ Own(h) /\ o \in Op /\ o \in Worker /\ o # h /\ Own(o)
      /\ my[o] \in Memory /\ disk[h] \in Disk /\ disk[o] \in Disk /\ pc[o] \in AtWork
      /\ o \notin Handler /\ At(o) \in Machine /\ tlock[At(o)] = o
  BY <1>1, Waiter DEF RespondGet
<1>3. pc[h] = "send" /\ my[h].kind = "get" /\ pc[o] \in {"get", "receive"}
  BY <1>1, <1>2 DEF RespondGet, Own, Link
<1>4. PICK d : d = [disk[o] EXCEPT !.file = Part]
  OBVIOUS
<1>5. d \in Disk /\ ~d.staged
  BY <1>2, <1>3, <1>4 DEF Disk, Own, Files, Publishing
<1>6. /\ pc' = [pc EXCEPT ![h] = "stream", ![o] = "receive"] /\ disk' = [disk EXCEPT ![o] = d]
      /\ UNCHANGED <<cache, tlock, my, slots, changes>>
  BY <1>1, <1>2, <1>4 DEF RespondGet, TypeOK
<1>7. /\ pc'[h] = "stream" /\ my'[h] = my[h] /\ disk'[h] = disk[h]
      /\ pc'[o] = "receive" /\ my'[o] = my[o] /\ disk'[o] = d
      /\ \A v \in Worker \ {h, o} : pc'[v] = pc[v] /\ my'[v] = my[v] /\ disk'[v] = disk[v]
  BY <1>2, <1>6 DEF TypeOK
<1>8. TypeOK'
  BY <1>2, <1>5, <1>6 DEF TypeOK, Phase, AtWork, cache, slots
<1>9. Own(o)'
  <2>1. Role(o)'
    BY <1>2, <1>3, <1>7 DEF Own, Role, At, Fetching, Pushing, Importing, Imported, Publishing
  <2>2. Locked(o)' /\ Files(o)' /\ Held(o)' /\ Told(o)'
    BY <1>2, <1>3, <1>5, <1>6, <1>7 DEF Own, Locked, Files, Held, Told, Publishing, At
  <2>3. Link(o)'
    BY <1>2, <1>7 DEF Link, Own, Role
  <2> QED
    BY <2>1, <2>2, <2>3 DEF Own
<1>10. Own(h)'
  <2>1. Role(h)'
    BY <1>2, <1>3, <1>7 DEF Own, Role, At
  <2>2. Locked(h)' /\ Files(h)' /\ Held(h)' /\ Told(h)'
    BY <1>2, <1>3, <1>6, <1>7, Phases DEF Own, Locked, Files, Held, Told, Publishing, At, AtWork
  <2>3. Link(h)'
    BY <1>1, <1>3, <1>7 DEF Link
  <2> QED
    BY <2>1, <2>2, <2>3 DEF Own
<1>11. ASSUME NEW g \in Handler \ {h, o}, my[g].from \in {h, o} PROVE Link(g)'
  BY <1>1, <1>2, <1>3, <1>11, NotAsked DEF IInv, Sole
<1>12. Sole'
  BY <1>6, SoleKept DEF IInv
<1>13. Counted'
  <2>1. \A g \in Handler : g # h => pc'[g] = pc[g]
    BY <1>2, <1>7 DEF Worker
  <2>2. "stream" \notin Over /\ "send" \notin Over
    BY DEF Over
  <2> QED
    BY <1>3, <1>6, <1>7, <2>1, <2>2, CountKept DEF IInv, At
<1>14. LocksOf({h, o})
  BY <1>6 DEF LocksOf
<1> HIDE DEF IInv
<1> QED
  BY <1>2, <1>6, <1>7, <1>8, <1>9, <1>10, <1>11, <1>12, <1>13, <1>14, JointMove

------------------------------------------------------------------------------
(* Publications: steps under the entry lock, at the entry's paths.          *)

(* Nothing but what stands at m changes, and that keeps to the rules.       *)
Alters(m) ==
  /\ entry' \in [Machine -> Entry \cup {None}]
  /\ restore' \in [Machine -> Build \cup {None}]
  /\ had' \in [Machine -> SUBSET Package]
  /\ orphaned' \in SUBSET Machine
  /\ Grown
  /\ \A n \in Machine : n # m => entry'[n] = entry[n] /\ restore'[n] = restore[n]
  /\ entry'[m] # None => Content(entry'[m]) \in had'[m]
  /\ m \notin orphaned' /\ restore'[m] # None =>
       entry'[m] # None /\ entry'[m].zstd /\ entry'[m].gen = restore'[m]

LEMMA Altered ==
  ASSUME IInv, NEW m \in Machine, Alters(m)
  PROVE  Grown /\ Stood' /\ RestoreWithEntry'
<1>1. Stood'
  BY DEF IInv, Stood, Alters, Grown
<1>2. RestoreWithEntry'
  BY DEF IInv, RestoreWithEntry, Alters, Grown
<1> QED
  BY <1>1, <1>2 DEF Alters

LEMMA CacheMove ==
  ASSUME IInv, NEW w \in Worker, pc[w] \in Publishing, Alters(At(w)),
         NEW p \in Importing \cup Imported, NEW r \in Memory, NEW d \in Disk, Moves(w, p, r, d),
         UNCHANGED <<tlock, slots, changes>>,
         r.at = my[w].at, r.peer = my[w].peer, r.kind = my[w].kind, r.from = my[w].from,
         d.file = disk[w].file,
         Role(w)', Files(w)', Held(w)', Told(w)'
  PROVE  IInv'
<1> USE Absent
<1>1. pc[w] \in Importing /\ p \in AtWork
  BY Phases
<1>2. /\ TypeOK /\ Own(w) /\ At(w) \in Machine /\ pc[w] \in AtWork
      /\ my[w].kind = "put" /\ my[w].from # None => disk[w].file = my[my[w].from].seen
  BY <1>1, Importer
<1>3. /\ pc'[w] = p /\ my'[w] = r /\ disk'[w] = d /\ At(w)' = At(w)
      /\ \A v \in Worker \ {w} : pc'[v] = pc[v] /\ my'[v] = my[v] /\ disk'[v] = disk[v]
  BY <1>2, Moved DEF At
<1>4. TypeOK'
  BY <1>1, <1>2 DEF TypeOK, Alters, Moves, slots, Phase
<1>5. Locked(w)'
  BY <1>1, <1>2, <1>3, Phases DEF Own, Locked
<1>6. \A h \in Handler : my[h].from # w
  <2>1. w \in Handler \/ pc[w] \notin {"probe", "get", "receive", "sent"}
    BY DEF Publishing
  <2> QED
    BY <2>1, NotAsked
<1>7. Link(w)'
  <2>1. CASE r.from = None
    BY <1>3, <2>1 DEF Link
  <2>2. CASE r.from # None
    <3>1. PICK o \in Worker : o = my[w].from /\ o # w
      BY <1>2, <2>2, Typed DEF Own, Role, Worker
    <3>2. pc'[o] = pc[o] /\ my'[o] = my[o]
      BY <1>3, <3>1
    <3> QED
      BY <1>2, <1>3, <2>2, <3>1, <3>2 DEF Own, Link, At
  <2> QED
    BY <2>1, <2>2
<1>8. Own(w)'
  BY <1>5, <1>7 DEF Own
<1>9. ASSUME NEW v \in Worker \ {w} PROVE Apart({w}, v)
  <2>1. pc[v] \in Publishing => Undisturbed(At(v))
    <3>1. SUFFICES ASSUME pc[v] \in Publishing PROVE Undisturbed(At(v))
      OBVIOUS
    <3>2. At(v) \in Machine /\ pc[v] \in AtWork
      BY <3>1, Phases, Importer
    <3>3. At(v) # At(w)
      BY <1>2, <3>2, Alone DEF IInv, Own, OneAtWork
    <3> QED
      BY <3>2, <3>3 DEF Alters, Undisturbed
  <2>2. my'[v].from \in {w} => Link(v)'
    <3>1. my[v].from # None => v \in Handler
      BY DEF IInv, Own, Role, Worker
    <3> QED
      BY <1>3, <1>6, <3>1
  <2> QED
    BY <1>3, <2>1, <2>2 DEF Apart
<1>10. Grown /\ Stood' /\ RestoreWithEntry'
  BY <1>2, Altered
<1>11. LocksOf({w})
  BY DEF LocksOf
<1>12. \A h \in Handler : my'[h].from = my[h].from /\ my'[h].kind = my[h].kind
                          /\ At(h)' = At(h) /\ my'[h].peer = my[h].peer
  BY <1>3 DEF At, Worker
<1>13. \A h \in Handler : pc'[h] \in Over <=> pc[h] \in Over
  <2>1. pc[w] \notin Over /\ p \notin Over
    BY DEF Publishing, Importing, Imported, Over
  <2> QED
    BY <1>3, <2>1 DEF Worker
<1>14. Sole' /\ Counted'
  BY <1>12, <1>13, SoleKept, CountKept DEF IInv
<1> HIDE DEF IInv
<1> QED
  BY <1>4, <1>8, <1>9, <1>10, <1>11, <1>14, Whole

(* What a publication knows of its worker.                                  *)
LEMMA Publisher ==
  ASSUME IInv, NEW w \in Worker, pc[w] \in Publishing
  PROVE  /\ TypeOK /\ Role(w) /\ Files(w) /\ Held(w) /\ Stood /\ RestoreWithEntry
         /\ my[w] \in Memory /\ disk[w] \in Disk /\ At(w) \in Machine
         /\ disk[w].file \in Package /\ disk[w].staged
         /\ pc[w] # "judge" => ~my[w].answered
         /\ w \in Op => my[w].kind = "fetch" /\ my[w].from = None /\ ~my[w].answered
         /\ w \in Handler => my[w].kind = "put" /\ my[w].peer \in Machine /\ w \notin Op
         /\ entry[At(w)] \in Entry \cup {None} /\ restore[At(w)] \in Build \cup {None}
         /\ my[w].moved \in Entry \cup {None} /\ my[w].movedRestore \in Build \cup {None}
<1>1. pc[w] \in Importing
  BY Phases
<1>2. /\ TypeOK /\ Own(w) /\ my[w] \in Memory /\ disk[w] \in Disk /\ At(w) \in Machine
      /\ disk[w].file \in Package
      /\ w \in Op => my[w].kind = "fetch" /\ my[w].from = None /\ ~my[w].answered
      /\ w \in Handler => my[w].kind = "put" /\ my[w].peer \in Machine
  BY <1>1, Importer
<1>3. disk[w].staged /\ (pc[w] # "judge" => ~my[w].answered)
  BY <1>2 DEF Own, Files, Role, Publishing
<1>4. entry[At(w)] \in Entry \cup {None} /\ restore[At(w)] \in Build \cup {None}
  BY <1>2 DEF TypeOK
<1>5. Role(w) /\ Files(w) /\ Held(w) /\ Stood /\ RestoreWithEntry
  BY <1>2 DEF Own, IInv
<1> HIDE DEF IInv
<1> QED
  BY <1>2, <1>3, <1>4, <1>5, Typed, Absent

(* Its role goes with it to the next step.                                  *)
LEMMA RoleStays ==
  ASSUME NEW w \in Worker, At(w) \in Machine, NEW p \in Importing \cup Imported, NEW r \in Memory,
         pc'[w] = p, my'[w] = r,
         r.at = my[w].at, r.peer = my[w].peer, r.kind = my[w].kind, r.from = my[w].from,
         ~r.answered,
         w \in Op => my[w].kind = "fetch" /\ my[w].from = None,
         w \in Handler => my[w].kind = "put" /\ my[w].peer \in Machine /\ w \notin Op
  PROVE  Role(w)'
<1>1. p \notin {"idle", "dead"}
  BY DEF Importing, Imported, Publishing
<1> QED
  BY <1>1 DEF Role, At, Fetching

(* JudgeInvalid and JudgeReplaceable: the restore is moved first.           *)
LEMMA StepMoveRestore ==
  ASSUME IInv, NEW w \in Worker, JudgeInvalid(w) \/ JudgeReplaceable(w) PROVE IInv'
<1> USE Absent
<1>1. pc[w] = "judge" /\ pc[w] \in Publishing /\ ~my[w].answered /\ entry[At(w)] # None
  BY DEF JudgeInvalid, JudgeReplaceable, Condemns, Publishing, Late, Valid
<1>2. /\ TypeOK /\ Role(w) /\ RestoreWithEntry /\ Stood
      /\ my[w] \in Memory /\ disk[w] \in Disk /\ At(w) \in Machine
      /\ disk[w].file \in Package /\ disk[w].staged
      /\ w \in Op => my[w].kind = "fetch" /\ my[w].from = None
      /\ w \in Handler => my[w].kind = "put" /\ my[w].peer \in Machine /\ w \notin Op
      /\ entry[At(w)] \in Entry \cup {None} /\ restore[At(w)] \in Build \cup {None}
  BY <1>1, Publisher
<1>3. PICK p \in {"quarantine", "replace"} :
        /\ MoveRestore(w, p)
        /\ p = "quarantine" => ~entry[At(w)].ok
        /\ p = "replace" => w \in Op /\ entry[At(w)].zstd /\ entry[At(w)].gen = my[w].want
  <2>1. CASE JudgeInvalid(w)
    BY <2>1 DEF JudgeInvalid, Condemns, Valid, Intact
  <2>2. CASE JudgeReplaceable(w)
    BY <2>2 DEF JudgeReplaceable, MayReplace
  <2> QED
    BY <2>1, <2>2
<1>4. PICK r, m : r = [my[w] EXCEPT !.movedRestore = restore[At(w)]] /\ m = At(w)
  OBVIOUS
<1>5. /\ r \in Memory /\ r.at = my[w].at /\ r.peer = my[w].peer /\ r.kind = my[w].kind
      /\ r.from = my[w].from /\ ~r.answered /\ r.want = my[w].want /\ r.movedRestore = restore[m]
  BY <1>1, <1>2, <1>4 DEF Memory
<1>6. /\ Moves(w, p, r, disk[w]) /\ restore' = [restore EXCEPT ![m] = None]
      /\ UNCHANGED <<entry, had, orphaned, tlock, slots, changes>>
  BY <1>2, <1>3, <1>4 DEF MoveRestore, Goto, Moves, TypeOK
<1>7. pc'[w] = p /\ my'[w] = r /\ disk'[w] = disk[w] /\ At(w)' = m
  <2>1. pc'[w] = p /\ my'[w] = r /\ disk'[w] = disk[w]
    BY <1>2, <1>6, Moved
  <2> QED
    BY <1>4, <1>5, <2>1 DEF At
<1>8. Alters(At(w))
  BY <1>2, <1>4, <1>6 DEF Alters, TypeOK, Grown, Stood
<1>9. p \in Importing \cup Imported
  BY <1>3 DEF Importing, Publishing
<1>10. Role(w)'
  BY <1>2, <1>5, <1>7, <1>9, RoleStays
<1>11. Files(w)' /\ Told(w)'
  BY <1>2, <1>3, <1>7 DEF Files, Told, Publishing
<1>12. Restores(m, entry[m], restore[m])
  BY <1>2, <1>4 DEF Restores, RestoreWithEntry
<1>13. Held(w)'
  BY <1>1, <1>2, <1>3, <1>4, <1>5, <1>6, <1>7, <1>12 DEF Held, Restores, TypeOK
<1> HIDE DEF IInv
<1> QED
  BY <1>1, <1>2, <1>5, <1>6, <1>8, <1>9, <1>10, <1>11, <1>13, CacheMove

(* Quarantine and Replace: the entry follows.                               *)
LEMMA StepTakeAway ==
  ASSUME IInv, NEW w \in Worker, Quarantine(w) \/ Replace(w) PROVE IInv'
<1> USE Absent
<1>1. pc[w] \in {"quarantine", "replace"} /\ pc[w] \in Publishing
  BY DEF Quarantine, Replace, Goto, Publishing
<1>2. /\ TypeOK /\ Held(w) /\ Stood
      /\ my[w] \in Memory /\ disk[w] \in Disk /\ At(w) \in Machine
      /\ disk[w].file \in Package /\ disk[w].staged /\ ~my[w].answered
      /\ w \in Op => my[w].kind = "fetch" /\ my[w].from = None
      /\ w \in Handler => my[w].kind = "put" /\ my[w].peer \in Machine /\ w \notin Op
      /\ entry[At(w)] \in Entry \cup {None}
  BY <1>1, Publisher
<1>3. PICK p \in {"place", "swap"} :
        Goto(w, pc[w], p) /\ TakeAway(w)
  BY DEF Quarantine, Replace, Goto
<1>4. PICK r, m : r = [my[w] EXCEPT !.moved = entry[At(w)]] /\ m = At(w)
  OBVIOUS
<1>5. /\ r \in Memory /\ r.at = my[w].at /\ r.peer = my[w].peer /\ r.kind = my[w].kind
      /\ r.from = my[w].from /\ ~r.answered /\ r.want = my[w].want
      /\ r.moved = entry[m] /\ r.movedRestore = my[w].movedRestore
  BY <1>2, <1>4 DEF Memory
<1>6. /\ Moves(w, p, r, disk[w]) /\ entry' = [entry EXCEPT ![m] = None]
      /\ UNCHANGED <<restore, had, orphaned, tlock, slots, changes>>
  BY <1>2, <1>3, <1>4 DEF TakeAway, Goto, Moves, TypeOK
<1>7. pc'[w] = p /\ my'[w] = r /\ disk'[w] = disk[w] /\ At(w)' = m /\ entry'[m] = None
  <2>1. pc'[w] = p /\ my'[w] = r /\ disk'[w] = disk[w]
    BY <1>2, <1>6, Moved
  <2>2. entry'[m] = None
    BY <1>2, <1>4, <1>6 DEF TypeOK
  <2> QED
    BY <1>4, <1>5, <2>1, <2>2 DEF At
<1>8. /\ entry[m] # None /\ Restores(m, entry[m], my[w].movedRestore)
      /\ m \notin orphaned => restore[m] = None
  BY <1>1, <1>2, <1>4 DEF Held
<1>9. Alters(At(w))
  BY <1>2, <1>4, <1>6, <1>7, <1>8 DEF Alters, TypeOK, Grown
<1>10. p \in Importing \cup Imported
  BY <1>3 DEF Importing, Publishing
<1>11. Role(w)'
  BY <1>2, <1>5, <1>7, <1>10, RoleStays
<1>12. Files(w)' /\ Told(w)'
  BY <1>2, <1>3, <1>7 DEF Files, Told, Publishing
<1>13. Held(w)'
  BY <1>2, <1>3, <1>4, <1>5, <1>6, <1>7, <1>8 DEF Held, Restores, Stood
<1> HIDE DEF IInv
<1> QED
  BY <1>1, <1>2, <1>5, <1>6, <1>9, <1>10, <1>11, <1>12, <1>13, CacheMove

(* MoveFails and RollBack: what was moved is put back, if it can be.        *)
LEMMA StepPutBack ==
  ASSUME IInv, NEW w \in Worker, MoveFails(w) \/ RollBack(w) PROVE IInv'
<1> USE Absent
<1>1. PICK from \in {"quarantine", "replace", "swap"} :
        /\ Fail(w, from)
        /\ restore' = PutBack(w)
        /\ UNCHANGED had
        /\ from = "swap" => RollBack(w)
        /\ from # "swap" => UNCHANGED <<entry, orphaned>>
  BY DEF MoveFails, RollBack
<1>2. pc[w] = from /\ pc[w] \in Publishing
  BY <1>1 DEF Fail, Goto, Publishing
<1>3. /\ TypeOK /\ Held(w) /\ Stood
      /\ my[w] \in Memory /\ disk[w] \in Disk /\ At(w) \in Machine
      /\ disk[w].file \in Package /\ ~my[w].answered
      /\ w \in Op => my[w].kind = "fetch" /\ my[w].from = None
      /\ w \in Handler => my[w].kind = "put" /\ my[w].peer \in Machine /\ w \notin Op
      /\ entry[At(w)] \in Entry \cup {None} /\ restore[At(w)] \in Build \cup {None}
      /\ my[w].moved \in Entry \cup {None} /\ my[w].movedRestore \in Build \cup {None}
  BY <1>1, <1>2, Publisher
<1>4. PICK r, d, m : /\ r = [my[w] EXCEPT !.moved = None, !.movedRestore = None]
                     /\ d = [disk[w] EXCEPT !.staged = FALSE]
                     /\ m = At(w)
  OBVIOUS
<1>5. /\ r \in Memory /\ r.at = my[w].at /\ r.peer = my[w].peer /\ r.kind = my[w].kind
      /\ r.from = my[w].from /\ ~r.answered
      /\ d \in Disk /\ d.file = disk[w].file /\ ~d.staged
  BY <1>3, <1>4 DEF Memory, Disk
<1>6. Moves(w, "failed", r, d) /\ UNCHANGED <<tlock, slots, changes>>
  BY <1>1, <1>3, <1>4 DEF Fail, Goto, Moves, TypeOK
<1>7. pc'[w] = "failed" /\ my'[w] = r /\ disk'[w] = d
  BY <1>3, <1>6, Moved
<1>8. /\ restore' \in [Machine -> Build \cup {None}]
      /\ \A n \in Machine : n # m => restore'[n] = restore[n]
      /\ restore'[m] = IF restore[m] = None THEN my[w].movedRestore ELSE restore[m]
  BY <1>1, <1>3, <1>4 DEF PutBack, TypeOK
<1>9. m \notin orphaned => restore[m] = None
  BY <1>1, <1>2, <1>3, <1>4 DEF Held
<1>10. Alters(At(w))
  <2>1. CASE from # "swap"
    <3>1. entry[m] # None /\ Restores(m, entry[m], my[w].movedRestore)
      BY <1>1, <1>2, <1>3, <1>4, <2>1 DEF Held
    <3> QED
      BY <1>1, <1>3, <1>4, <1>8, <1>9, <2>1, <3>1 DEF Alters, Restores, Grown, Stood, TypeOK
  <2>2. CASE from = "swap"
    <3>1. /\ entry[m] = None /\ my[w].moved # None /\ Content(my[w].moved) \in had[m]
          /\ Restores(m, my[w].moved, my[w].movedRestore)
      BY <1>1, <1>2, <1>3, <1>4, <2>2 DEF Held
    <3>2. CASE entry' = [entry EXCEPT ![At(w)] = my[w].moved] /\ UNCHANGED orphaned
      BY <1>1, <1>3, <1>4, <1>8, <1>9, <3>1, <3>2 DEF Alters, Restores, Grown, TypeOK
    <3>3. CASE orphaned' = orphaned \cup {At(w)} /\ UNCHANGED entry
      BY <1>1, <1>3, <1>4, <1>8, <3>1, <3>3 DEF Alters, Grown, TypeOK
    <3> QED
      BY <1>1, <2>2, <3>2, <3>3 DEF RollBack
  <2> QED
    BY <2>1, <2>2
<1>11. "failed" \in Importing \cup Imported
  BY DEF Imported
<1>12. Role(w)'
  BY <1>3, <1>5, <1>7, <1>11, RoleStays
<1>13. Files(w)' /\ Held(w)' /\ Told(w)'
  BY <1>5, <1>7 DEF Files, Held, Told, Publishing
<1> HIDE DEF IInv
<1> QED
  BY <1>2, <1>5, <1>6, <1>10, <1>11, <1>12, <1>13, CacheMove

(* Place: the package becomes the entry.                                    *)
LEMMA StepPlace == ASSUME IInv, NEW w \in Worker, Place(w) PROVE IInv'
<1> USE Absent
<1>1. pc[w] \in {"place", "swap"} /\ pc[w] \in Publishing /\ pc' = [pc EXCEPT ![w] = "created"]
  BY DEF Place, Goto, Publishing
<1>2. /\ TypeOK /\ Held(w)
      /\ my[w] \in Memory /\ disk[w] \in Disk /\ At(w) \in Machine
      /\ disk[w].file \in Package /\ ~my[w].answered
      /\ w \in Op => my[w].kind = "fetch" /\ my[w].from = None
      /\ w \in Handler => my[w].kind = "put" /\ my[w].peer \in Machine /\ w \notin Op
  BY <1>1, Publisher
<1>3. PICK r, d, m, q : /\ r = [my[w] EXCEPT !.moved = None, !.movedRestore = None]
                        /\ d = [disk[w] EXCEPT !.staged = FALSE]
                        /\ m = At(w)
                        /\ q = disk[w].file
  OBVIOUS
<1>4. /\ r \in Memory /\ r.at = my[w].at /\ r.peer = my[w].peer /\ r.kind = my[w].kind
      /\ r.from = my[w].from /\ ~r.answered
      /\ d \in Disk /\ d.file = q /\ ~d.staged
  BY <1>2, <1>3 DEF Memory, Disk
<1>5. PICK e : e = [gen |-> q.gen, zstd |-> q.zstd, ok |-> TRUE]
  OBVIOUS
<1>6. e \in Entry /\ Content(e) = q /\ q \in Package
  BY <1>2, <1>3, <1>5 DEF Entry, Package, Content
<1>7. /\ Moves(w, "created", r, d) /\ UNCHANGED <<restore, orphaned, tlock, slots, changes>>
      /\ entry' = [entry EXCEPT ![m] = e] /\ had' = [had EXCEPT ![m] = @ \cup {q}]
  BY <1>1, <1>2, <1>3, <1>5 DEF Place, Moves, Offered, TypeOK
<1>8. pc'[w] = "created" /\ my'[w] = r /\ disk'[w] = d /\ At(w)' = m
  <2>1. pc'[w] = "created" /\ my'[w] = r /\ disk'[w] = d
    BY <1>2, <1>7, Moved
  <2> QED
    BY <1>3, <1>4, <2>1 DEF At
<1>9. entry'[m] = e /\ q \in had'[m]
  BY <1>2, <1>3, <1>7 DEF TypeOK
<1>10. m \notin orphaned => restore[m] = None
  BY <1>1, <1>2, <1>3 DEF Held
<1>11. Alters(At(w))
  BY <1>2, <1>3, <1>6, <1>7, <1>9, <1>10 DEF Alters, Grown, TypeOK
<1>12. "created" \in Importing \cup Imported
  BY DEF Imported
<1>13. Role(w)'
  BY <1>2, <1>4, <1>8, <1>12, RoleStays
<1>14. Files(w)' /\ Held(w)' /\ Told(w)'
  BY <1>4, <1>6, <1>8, <1>9 DEF Files, Held, Told, Publishing
<1> HIDE DEF IInv
<1> QED
  BY <1>1, <1>3, <1>4, <1>7, <1>11, <1>12, <1>13, <1>14, CacheMove

------------------------------------------------------------------------------
(* Requests.                                                                *)

(* What is sent, and from where to where: a probe, a get or a put.          *)
Sends(o, n, kind, mine, to) ==
  /\ mine.at = my[o].at /\ mine.kind = my[o].kind /\ mine.from = None /\ ~mine.answered
  /\ mine.seen = my[o].seen /\ mine.want = my[o].want
  /\ \/ kind = "head" /\ pc[o] = "probe" /\ to = "probe"
     \/ kind = "get" /\ pc[o] = "choose" /\ to = "get"
     \/ kind = "put" /\ pc[o] = "put" /\ to = "sent" /\ n = mine.peer /\ mine.peer = my[o].peer

(* The client of a request, sent or refused, is in its role.                *)
LEMMA SenderOwn ==
  ASSUME IInv, NEW o \in Op, NEW n \in Machine, NEW kind, NEW mine \in Memory, NEW to,
         Sends(o, n, kind, mine, to),
         pc'[o] = to, my'[o] = mine, disk'[o] = disk[o], tlock' = tlock
  PROVE  Own(o)' /\ to \in AtWork /\ At(o) \in Machine /\ o \in Worker
<1> USE Absent
<1>1. pc[o] \in {"probe", "choose", "put"} /\ to \in {"probe", "get", "sent"}
  BY DEF Sends
<1>2. /\ o \in Worker /\ TypeOK /\ Own(o) /\ At(o) \in Machine /\ my[o].from = None
      /\ ~my[o].answered /\ o \notin Handler
  BY <1>1, Fetcher
<1>3. Role(o)'
  BY <1>1, <1>2 DEF Own, Role, At, Sends, Fetching, Pushing, Importing, Imported, Publishing
<1>4. Locked(o)' /\ Files(o)'
  BY <1>1, <1>2 DEF Own, Locked, Files, At, Sends, AtWork, Publishing
<1>5. Held(o)' /\ Told(o)' /\ Link(o)'
  BY <1>1 DEF Held, Told, Link, Sends
<1> QED
  BY <1>1, <1>2, <1>3, <1>4, <1>5 DEF Own, AtWork

(* Nobody answers.                                                          *)
LEMMA StepRefused ==
  ASSUME IInv, NEW o \in Op, NEW n \in Machine, NEW kind, NEW mine \in Memory, NEW to,
         Sends(o, n, kind, mine, to),
         my' = [my EXCEPT ![o] = mine], pc' = [pc EXCEPT ![o] = to],
         UNCHANGED <<cache, tlock, disk, slots, changes>>
  PROVE  IInv'
<1> USE Absent
<1>1. TypeOK /\ o \in Worker /\ o \notin Handler
  BY DEF IInv, Worker
<1>2. Moves(o, to, mine, disk[o]) /\ disk[o] \in Disk
  BY <1>1, Typed DEF Moves, TypeOK
<1>3. pc'[o] = to /\ my'[o] = mine /\ disk'[o] = disk[o]
      /\ \A v \in Worker : v # o => pc'[v] = pc[v] /\ my'[v] = my[v] /\ disk'[v] = disk[v]
  BY <1>1, <1>2, Moved
<1>4. Own(o)' /\ to \in AtWork
  BY <1>3, SenderOwn
<1>5. ASSUME NEW h \in Handler, my[h].from = o PROVE Link(h)'
  <2>1. pc[o] = "probe" /\ to = "probe"
    BY <1>1, <1>5, NotAsked DEF Sends
  <2>2. my[h].kind = "head" /\ my'[h] = my[h]
    BY <1>1, <1>3, <1>5, <2>1 DEF IInv, Own, Link, Worker
  <2> QED
    BY <1>3, <1>5, <2>1, <2>2 DEF Link
<1>6. LocksOf({o}) /\ tlock' \in [Machine -> Worker \cup {None}] /\ changes' \in 0 .. MaxChange
  BY <1>1 DEF LocksOf, TypeOK
<1>7. to \in Phase
  BY <1>4 DEF Phase
<1> HIDE DEF IInv
<1> QED
  BY <1>1, <1>2, <1>4, <1>5, <1>6, <1>7, QuietMove DEF Moves

(* The server counts one more.                                              *)
LEMMA SlotTaken ==
  ASSUME IInv, NEW h \in Handler, NEW n \in Machine, NEW p \in Machine,
         pc[h] = "idle", pc'[h] = "tlock", At(h)' = n, my'[h].peer = p,
         \A g \in Handler : g # h => /\ pc'[g] \in Over <=> pc[g] \in Over
                                     /\ At(g)' = At(g) /\ my'[g].peer = my[g].peer,
         active' = [active EXCEPT ![n][p] = @ + 1], leaked' = leaked
  PROVE  Counted' /\ active' \in [Machine -> [Machine -> Nat]]
<1> USE Absent
<1>1. TypeOK
  BY DEF IInv
<1>2. pc[h] \in Over /\ pc'[h] \notin Over
  BY DEF Over
<1>3. ASSUME NEW m \in Machine, NEW c \in Machine, ~(m = n /\ c = p)
      PROVE  Under(m, c)' = Under(m, c)
  BY <1>2, <1>3 DEF Under
<1>4. h \notin Under(n, p) /\ Under(n, p)' = Under(n, p) \cup {h}
  BY <1>2 DEF Under
<1>5. /\ IsFiniteSet(Under(n, p)') /\ Cardinality(Under(n, p)') = Cardinality(Under(n, p)) + 1
      /\ Cardinality(Under(n, p)) \in Nat
  BY <1>4, FS_AddElement, FS_CardinalityType DEF IInv, Counted
<1>6. /\ active[n][p] \in Nat /\ leaked[n][p] \in Nat
      /\ active[n][p] = leaked[n][p] + Cardinality(Under(n, p))
  BY <1>1 DEF TypeOK, IInv, Counted
<1>7. /\ active'[n][p] = active[n][p] + 1
      /\ \A m, c \in Machine : ~(m = n /\ c = p) => active'[m][c] = active[m][c]
  BY <1>1 DEF TypeOK
<1>8. Counted'
  BY <1>3, <1>5, <1>6, <1>7 DEF Counted, IInv
<1>9. PICK x : x = active[n][p] + 1
  OBVIOUS
<1>10. /\ x \in Nat /\ active' = [active EXCEPT ![n][p] = x]
       /\ active \in [Machine -> [Machine -> Nat]]
  BY <1>1, <1>6, <1>9 DEF TypeOK
<1>11. active' \in [Machine -> [Machine -> Nat]]
  BY <1>10, Nested
<1> QED
  BY <1>8, <1>11

(* The request is under way.                                                *)
LEMMA StepAdmitted ==
  ASSUME IInv, NEW o \in Op, NEW h \in Handler, NEW n \in Machine, NEW kind, NEW mine \in Memory,
         NEW to, Sends(o, n, kind, mine, to), pc[h] = "idle",
         my' = [my EXCEPT ![o] = mine,
                  ![h] = [Blank EXCEPT !.kind = kind, !.at = n, !.peer = At(o), !.from = o]],
         pc' = [pc EXCEPT ![o] = to, ![h] = "tlock"],
         active' = [active EXCEPT ![n][At(o)] = @ + 1],
         UNCHANGED <<cache, tlock, disk, leaked, changes>>
  PROVE  IInv'
<1> USE Absent
<1>1. TypeOK /\ o \in Worker /\ o \notin Handler /\ h \in Worker /\ h \notin Op /\ Own(h) /\ o # h
  BY DEF IInv, Worker
<1>2. PICK r : r = [Blank EXCEPT !.kind = kind, !.at = n, !.peer = At(o), !.from = o]
  OBVIOUS
<1>3. /\ pc'[o] = to /\ my'[o] = mine /\ disk'[o] = disk[o]
      /\ pc'[h] = "tlock" /\ my'[h] = r /\ disk'[h] = disk[h]
      /\ \A v \in Worker \ {o, h} : pc'[v] = pc[v] /\ my'[v] = my[v] /\ disk'[v] = disk[v]
  BY <1>1, <1>2 DEF TypeOK
<1>4. Own(o)' /\ to \in AtWork /\ At(o) \in Machine
  BY <1>3, SenderOwn
<1>5. kind \in {"head", "get", "put"} /\ to \in {"probe", "get", "sent"}
  BY DEF Sends
<1>6. /\ r \in Memory /\ r.kind = kind /\ r.at = n /\ r.peer = At(o) /\ r.from = o /\ ~r.answered
  BY <1>2, <1>4, <1>5 DEF Memory, Blank
<1>7. Own(h)'
  <2>1. Role(h)'
    BY <1>1, <1>3, <1>4, <1>5, <1>6 DEF Role, At
  <2>2. Locked(h)' /\ Files(h)' /\ Held(h)' /\ Told(h)'
    BY <1>1, <1>3, Phases DEF Own, Locked, Files, Held, Told, Publishing
  <2>3. Link(h)'
    <3>1. "tlock" \notin Importing \cup Imported
      BY DEF Importing, Imported, Publishing
    <3>2. \/ kind = "head" /\ to = "probe"
          \/ kind = "get" /\ to = "get"
          \/ kind = "put" /\ to = "sent" /\ n = mine.peer
      BY DEF Sends
    <3>3. my'[h].from = o /\ my'[h].kind = kind /\ At(h)' = n
      BY <1>3, <1>6 DEF At
    <3> QED
      BY <1>3, <3>1, <3>2, <3>3 DEF Link
  <2> QED
    BY <2>1, <2>2, <2>3 DEF Own
<1>8. ASSUME NEW g \in Handler \ {o, h}, my[g].from \in {o, h} PROVE Link(g)' /\ kind = "head"
  <2>1. my[g].from = o
    BY <1>1, <1>8, NotAsked
  <2>2. pc[o] = "probe" /\ to = "probe" /\ kind = "head"
    BY <1>1, <2>1, NotAsked DEF Sends
  <2>3. my[g].kind = "head" /\ my'[g] = my[g]
    BY <1>1, <1>3, <1>8, <2>1, <2>2 DEF IInv, Own, Link, Worker
  <2> QED
    BY <1>3, <2>1, <2>2, <2>3 DEF Link
<1>9. Sole'
  <2>1. \A g \in Handler : g # h => my'[g] = my[g]
    BY <1>1, <1>3 DEF Worker
  <2>2. \A g \in Handler : g # h /\ my[g].from = o => kind = "head" /\ my[g].kind = "head"
    <3>1. SUFFICES ASSUME NEW g \in Handler, g # h, my[g].from = o
                   PROVE  kind = "head" /\ my[g].kind = "head"
      OBVIOUS
    <3>2. kind = "head" /\ pc[o] = "probe"
      BY <1>1, <1>8, <3>1 DEF Sends
    <3> QED
      BY <1>1, <3>1, <3>2 DEF IInv, Own, Link, Worker
  <2>3. my'[h].from = o /\ my'[h].kind = kind
    BY <1>3, <1>6
  <2>4. Sole
    BY DEF IInv
  <2>5. SUFFICES ASSUME NEW f \in Handler, NEW g \in Handler, my'[f].from # None,
                        my'[f].from = my'[g].from, my'[f].kind # "head"
                 PROVE  f = g
    BY DEF Sole
  <2>6. CASE f = h
    BY <2>1, <2>2, <2>3, <2>5, <2>6
  <2>7. CASE f # h
    BY <2>1, <2>2, <2>3, <2>4, <2>5, <2>7 DEF Sole
  <2> HIDE DEF IInv
  <2> QED
    BY <2>6, <2>7
<1>10. Counted' /\ active' \in [Machine -> [Machine -> Nat]]
  <2>1. At(h)' = n /\ my'[h].peer = At(o)
    BY <1>3, <1>6 DEF At
  <2>2. \A g \in Handler : g # h => /\ pc'[g] \in Over <=> pc[g] \in Over
                                    /\ At(g)' = At(g) /\ my'[g].peer = my[g].peer
    BY <1>1, <1>3 DEF At, Worker
  <2> HIDE DEF IInv
  <2> QED
    BY <1>3, <1>4, <2>1, <2>2, SlotTaken
<1>11. TypeOK'
  <2>1. pc' \in [Worker -> Phase] /\ my' \in [Worker -> Memory]
    BY <1>1, <1>2, <1>4, <1>6 DEF TypeOK, Phase
  <2> QED
    BY <1>1, <1>10, <2>1 DEF TypeOK, cache
<1>12. PICK W \in SUBSET Worker : W = {o, h}
  BY <1>1
<1>13. /\ LocksOf(W) /\ \A w \in W : Own(w)'
       /\ \A v \in Worker \ W : pc'[v] = pc[v] /\ my'[v] = my[v] /\ disk'[v] = disk[v]
       /\ \A g \in Handler \ W : my[g].from \in W => Link(g)'
  BY <1>3, <1>4, <1>7, <1>8, <1>12 DEF LocksOf
<1> HIDE DEF IInv
<1> QED
  BY <1>9, <1>10, <1>11, <1>13, JointMove

(* Probe, Get and Put.                                                      *)
LEMMA StepSend ==
  ASSUME IInv, NEW o \in Op, NEW h \in Handler, NEW m \in Machine,
         Put(o, h) \/ Probe(o, h, m) \/ Get(o, h, m)
  PROVE  IInv'
<1> USE Absent
<1>1. pc[o] \in {"put", "probe", "choose"}
  BY DEF Put, Probe, Get
<1>2. /\ o \in Worker /\ TypeOK /\ Own(o) /\ my[o] \in Memory /\ At(o) \in Machine
      /\ my[o].from = None /\ ~my[o].answered
  BY <1>1, Fetcher
<1> DEFINE Sent(n, kind, mine, to) == Send(o, h, n, kind, mine, to) /\ Sends(o, n, kind, mine, to)
<1>3. \E n \in Machine, mine \in Memory, kind \in {"head", "get", "put"},
         to \in {"probe", "get", "sent"} : Sent(n, kind, mine, to)
  <2>1. CASE Put(o, h)
    <3>1. my[o].peer \in Machine
      BY <1>2, <2>1 DEF Put, Own, Role, Fetching, Importing, Imported, Publishing
    <3>2. Sent(my[o].peer, "put", my[o], "sent")
      BY <1>2, <2>1 DEF Put, Sends
    <3> QED
      BY <1>2, <3>1, <3>2
  <2>2. CASE Probe(o, h, m)
    <3>1. PICK r : r = [my[o] EXCEPT !.ask = @ \ {m}]
      OBVIOUS
    <3>2. /\ r \in Memory /\ r.at = my[o].at /\ r.kind = my[o].kind /\ r.from = None /\ ~r.answered
          /\ r.seen = my[o].seen /\ r.want = my[o].want
      BY <1>2, <3>1 DEF Memory
    <3>3. Sent(m, "head", r, "probe")
      BY <2>2, <3>1, <3>2 DEF Probe, Sends
    <3> QED
      BY <3>2, <3>3
  <2>3. CASE Get(o, h, m)
    <3>1. PICK r : r = [my[o] EXCEPT !.found = @ \ {m}, !.peer = m]
      OBVIOUS
    <3>2. /\ r \in Memory /\ r.at = my[o].at /\ r.kind = my[o].kind /\ r.from = None /\ ~r.answered
          /\ r.seen = my[o].seen /\ r.want = my[o].want
      BY <1>2, <3>1 DEF Memory
    <3>3. Sent(m, "get", r, "get")
      BY <2>3, <3>1, <3>2 DEF Get, Sends
    <3> QED
      BY <3>2, <3>3
  <2> QED
    BY <2>1, <2>2, <2>3
<1>4. PICK n \in Machine, mine \in Memory, kind \in {"head", "get", "put"},
         to \in {"probe", "get", "sent"} : Sent(n, kind, mine, to)
  BY <1>3
<1>5. CASE my' = [my EXCEPT ![o] = mine] /\ pc' = [pc EXCEPT ![o] = to] /\ UNCHANGED active
  <2>1. UNCHANGED <<cache, tlock, disk, slots, changes>>
    BY <1>4, <1>5 DEF Send, slots
  <2> HIDE DEF IInv
  <2> QED
    BY <1>4, <1>5, <2>1, StepRefused
<1>6. CASE ~(my' = [my EXCEPT ![o] = mine] /\ pc' = [pc EXCEPT ![o] = to] /\ UNCHANGED active)
  <2>1. /\ pc[h] = "idle"
        /\ my' = [my EXCEPT ![o] = mine,
                    ![h] = [Blank EXCEPT !.kind = kind, !.at = n, !.peer = At(o), !.from = o]]
        /\ pc' = [pc EXCEPT ![o] = to, ![h] = "tlock"]
        /\ active' = [active EXCEPT ![n][At(o)] = @ + 1]
        /\ UNCHANGED <<cache, tlock, disk, leaked, changes>>
    BY <1>4, <1>6 DEF Send
  <2> HIDE DEF IInv
  <2> QED
    BY <1>4, <2>1, StepAdmitted
<1> QED
  BY <1>5, <1>6

------------------------------------------------------------------------------
(* The environment.                                                         *)

(* Die: nobody waits any more for what the process has asked for.           *)
LEMMA StepDie == ASSUME IInv, NEW o \in Op, Die(o) PROVE IInv'
<1> USE Absent
<1>1. o \in Worker /\ TypeOK /\ Own(o) /\ o \notin Handler /\ disk[o] \in Disk
  BY Typed DEF IInv, Worker
<1>2. pc[o] # "idle" /\ At(o) \in Machine
  BY <1>1 DEF Die, Own, Role
<1>3. PICK r : r = [Blank EXCEPT !.at = At(o)]
  OBVIOUS
<1>4. r \in Memory /\ r.at = At(o) /\ r.from = None /\ ~r.answered
  BY <1>2, <1>3 DEF Memory, Blank
<1>5. /\ Deserted(o) \in [Worker -> Memory]
      /\ \A v \in Worker : IF v \in Asked(o) THEN Deserted(o)[v] = [my[v] EXCEPT !.from = None]
                                             ELSE Deserted(o)[v] = my[v]
  <2>1. \A v \in Worker : [my[v] EXCEPT !.from = None] \in Memory
    BY <1>1, Typed DEF Memory
  <2> QED
    BY <1>1, <2>1 DEF Deserted, TypeOK
<1>6. /\ pc'[o] = "dead" /\ my'[o] = r /\ disk'[o] = disk[o]
      /\ \A v \in Worker \ {o} :
           /\ pc'[v] = pc[v] /\ disk'[v] = disk[v]
           /\ IF v \in Asked(o) THEN my'[v] = [my[v] EXCEPT !.from = None] ELSE my'[v] = my[v]
  BY <1>1, <1>3, <1>5 DEF Die, TypeOK
<1>7. TypeOK'
  <2>1. pc' \in [Worker -> Phase]
    BY <1>1 DEF Die, TypeOK, Phase, Over
  <2>2. my' \in [Worker -> Memory]
    BY <1>3, <1>4, <1>5 DEF Die
  <2>3. changes' \in 0 .. MaxChange
    BY <1>1, Spent DEF Die
  <2> QED
    BY <1>1, <2>1, <2>2, <2>3 DEF Die, TypeOK, cache, slots
<1>8. Own(o)'
  <2>1. Role(o)'
    BY <1>1, <1>2, <1>4, <1>6 DEF Role, At
  <2>2. Locked(o)' /\ Files(o)' /\ Held(o)' /\ Told(o)' /\ Link(o)'
    BY <1>4, <1>6, Phases DEF Locked, Files, Held, Told, Link, Publishing
  <2> QED
    BY <2>1, <2>2 DEF Own
<1>9. \A v \in Worker \ {o} :
        /\ my'[v].kind = my[v].kind /\ my'[v].at = my[v].at /\ my'[v].peer = my[v].peer
        /\ my'[v].from # None => my'[v].from = my[v].from
  <2>1. \A v \in Worker : my[v] \in Memory
    BY <1>1, Typed
  <2> QED
    BY <1>6, <2>1 DEF Memory
<1>10. ASSUME NEW v \in Worker \ {o} PROVE Apart({o}, v)
  <2>1. my'[v].from # o
    <3>1. CASE v \in Asked(o)
      <4>1. my'[v] = [my[v] EXCEPT !.from = None] /\ my[v] \in Memory
        BY <1>1, <1>6, <3>1, Typed
      <4>2. my'[v].from = None
        BY <4>1 DEF Memory
      <4> QED
        BY <1>1, <4>2
    <3>2. CASE v \notin Asked(o)
      <4>1. my[v].from # None => v \in Handler
        BY DEF IInv, Own, Role, Worker
      <4> QED
        BY <1>1, <1>6, <3>2, <4>1 DEF Asked
    <3> QED
      BY <3>1, <3>2
  <2>2. Undisturbed(At(v))
    BY DEF Undisturbed, Die, cache
  <2> QED
    BY <1>6, <2>1, <2>2 DEF Apart
<1>11. Sole' /\ Counted'
  <2>1. \A h \in Handler : h \in Worker \ {o}
    BY <1>1 DEF Worker
  <2>2. UNCHANGED slots
    BY DEF Die
  <2> QED
    BY <1>6, <1>9, <2>1, <2>2, SoleKept, CountKept DEF IInv, At
<1>12. Grown /\ LocksOf({o}) /\ Stood' /\ RestoreWithEntry'
  BY CacheKept DEF IInv, Grown, LocksOf, Die, cache
<1> HIDE DEF IInv
<1> QED
  BY <1>1, <1>7, <1>8, <1>10, <1>11, <1>12, Whole

(* Stop: the requests of a server end with it, and its count begins anew.   *)
LEMMA StepStop == ASSUME IInv, NEW m \in Machine, Stop(m) PROVE IInv'
<1> USE Absent
<1>1. TypeOK
  BY DEF IInv
<1>2. PICK W \in SUBSET Worker : W = {h \in Handler : At(h) = m /\ pc[h] \notin Over}
  BY DEF Worker
<1>3. PICK r : r = [Blank EXCEPT !.at = m]
  OBVIOUS
<1>4. r \in Memory /\ r.at = m /\ r.from = None /\ ~r.answered
  BY <1>3 DEF Memory, Blank
<1>5. /\ pc' = [w \in Worker |-> IF w \in W THEN "dead" ELSE pc[w]]
      /\ my' = [w \in Worker |-> IF w \in W THEN r ELSE my[w]]
      /\ active' = [active EXCEPT ![m] = [c \in Machine |-> 0]]
      /\ leaked' = [leaked EXCEPT ![m] = [c \in Machine |-> 0]]
      /\ UNCHANGED <<cache, tlock, disk>> /\ Spend("death")
  BY <1>2, <1>3 DEF Stop
<1>6. /\ \A w \in W : pc'[w] = "dead" /\ my'[w] = r /\ w \in Handler /\ At(w) = m
      /\ \A v \in Worker \ W : pc'[v] = pc[v] /\ my'[v] = my[v] /\ disk'[v] = disk[v]
  BY <1>2, <1>5
<1>7. TypeOK'
  <2>1. pc' \in [Worker -> Phase] /\ my' \in [Worker -> Memory]
    BY <1>1, <1>4, <1>5 DEF TypeOK, Phase, Over
  <2>2. active' \in [Machine -> [Machine -> Nat]] /\ leaked' \in [Machine -> [Machine -> Nat]]
    BY <1>1, <1>5 DEF TypeOK
  <2> QED
    BY <1>1, <1>5, <2>1, <2>2, Spent DEF TypeOK, cache
<1>8. ASSUME NEW w \in W PROVE Own(w)'
  <2>1. Role(w)'
    BY <1>4, <1>6 DEF Role, At
  <2>2. Locked(w)' /\ Files(w)' /\ Held(w)' /\ Told(w)' /\ Link(w)'
    BY <1>4, <1>6, Phases DEF Locked, Files, Held, Told, Link, Publishing
  <2> QED
    BY <2>1, <2>2 DEF Own
<1>9. Sole'
  <2>1. \A h \in Handler : my'[h].from # None => my'[h] = my[h]
    BY <1>4, <1>6 DEF Worker
  <2> QED
    BY <2>1, SoleKept DEF IInv
<1>10. Counted'
  <2>1. ASSUME NEW c \in Machine PROVE /\ Under(m, c)' = {}
                                       /\ active'[m][c] = 0 /\ leaked'[m][c] = 0
    <3>1. ASSUME NEW h \in Handler PROVE ~(pc'[h] \notin Over /\ At(h)' = m)
      BY <1>2, <1>6 DEF Over, At, Worker
    <3> QED
      BY <1>1, <1>5, <3>1 DEF Under, TypeOK
  <2>2. ASSUME NEW n \in Machine \ {m}, NEW c \in Machine
        PROVE  /\ Under(n, c)' = Under(n, c)
               /\ active'[n][c] = active[n][c] /\ leaked'[n][c] = leaked[n][c]
    <3>1. ASSUME NEW h \in Handler
          PROVE  (pc'[h] \notin Over /\ At(h)' = n /\ my'[h].peer = c)
                   <=> (pc[h] \notin Over /\ At(h) = n /\ my[h].peer = c)
      <4>1. CASE h \in W
        BY <1>6, <4>1 DEF Over
      <4>2. CASE h \notin W
        BY <1>6, <4>2 DEF At, Worker
      <4> QED
        BY <4>1, <4>2
    <3> QED
      BY <1>1, <1>5, <3>1 DEF Under, TypeOK
  <2>3. IsFiniteSet({}) /\ Cardinality({}) = 0
    BY FS_EmptySet
  <2> QED
    BY <2>1, <2>2, <2>3 DEF Counted, IInv
<1>11. ASSUME NEW h \in Handler \ W PROVE my[h].from \notin W
  BY <1>1, <1>6, Typed DEF Worker
<1>12. LocksOf(W) /\ UNCHANGED cache
  BY <1>5 DEF LocksOf
<1> HIDE DEF IInv
<1> QED
  BY <1>6, <1>7, <1>8, <1>9, <1>10, <1>11, <1>12, JointMove

(* Nobody's step: an entry changes while no import is about to publish, or  *)
(* in a way that does not matter to it.                                     *)
LEMMA Around ==
  ASSUME IInv, NEW m \in Machine, Alters(m), changes' \in 0 .. MaxChange,
         UNCHANGED <<tlock, disk, pc, my, slots>>, ~EntryLocked(m) \/ Undisturbed(m)
  PROVE  IInv'
<1> USE Absent
<1>1. PICK W \in SUBSET Worker : W = {}
  OBVIOUS
<1>2. TypeOK'
  BY DEF IInv, TypeOK, Alters, slots
<1>3. ASSUME NEW v \in Worker \ W PROVE Apart(W, v)
  <2>1. ASSUME pc[v] \in Publishing PROVE Undisturbed(At(v))
    <3>1. At(v) \in Machine
      BY <2>1, Phases, Importer
    <3>2. CASE At(v) # m
      BY <3>1, <3>2 DEF Alters, Undisturbed
    <3>3. CASE At(v) = m
      BY <2>1, <3>3 DEF EntryLocked
    <3> QED
      BY <3>2, <3>3
  <2> QED
    BY <1>1, <2>1 DEF Apart
<1>4. Grown /\ Stood' /\ RestoreWithEntry'
  BY Altered
<1>5. Sole' /\ Counted' /\ LocksOf(W)
  BY SoleKept, CountKept DEF IInv, At, LocksOf
<1> HIDE DEF IInv
<1> QED
  BY <1>1, <1>2, <1>3, <1>4, <1>5, Whole

(* Upload, Materialize, Prune and Rot.                                      *)
LEMMA StepAround ==
  ASSUME IInv, NEW m \in Machine,
         (\E p \in Package : Upload(m, p)) \/ Materialize(m) \/ Prune(m) \/ Rot(m)
  PROVE  IInv'
<1> USE Absent
<1>1. TypeOK /\ Stood /\ RestoreWithEntry /\ entry[m] \in Entry \cup {None}
  BY DEF IInv, TypeOK
<1>2. changes' \in 0 .. MaxChange /\ UNCHANGED <<tlock, disk, pc, my, slots>>
  BY <1>1, Spent DEF Upload, Materialize, Prune, Rot
<1>3. Alters(m) /\ (~EntryLocked(m) \/ Undisturbed(m))
  <2>1. ASSUME NEW p \in Package, Upload(m, p) PROVE Alters(m) /\ ~EntryLocked(m)
    <3>1. PICK e : e = [gen |-> p.gen, zstd |-> p.zstd, ok |-> TRUE]
      OBVIOUS
    <3>2. e \in Entry /\ Content(e) = p
      BY <3>1 DEF Entry, Package, Content
    <3>3. /\ entry' = [entry EXCEPT ![m] = e] /\ restore' = [restore EXCEPT ![m] = None]
          /\ had' = [had EXCEPT ![m] = @ \cup {p}] /\ UNCHANGED orphaned
      BY <2>1, <3>1 DEF Upload
    <3>4. had[m] \cup {p} \in SUBSET Package
      BY <1>1 DEF TypeOK
    <3>5. /\ entry' \in [Machine -> Entry \cup {None}]
          /\ restore' \in [Machine -> Build \cup {None}]
          /\ had' \in [Machine -> SUBSET Package] /\ orphaned' \in SUBSET Machine
      BY <1>1, <3>2, <3>3, <3>4 DEF TypeOK
    <3>6. entry'[m] = e /\ restore'[m] = None /\ had'[m] = had[m] \cup {p}
      BY <1>1, <3>3 DEF TypeOK
    <3>7. \A n \in Machine : n # m =>
            entry'[n] = entry[n] /\ restore'[n] = restore[n] /\ had'[n] = had[n]
      BY <1>1, <3>3 DEF TypeOK
    <3>8. Alters(m)
      BY <3>2, <3>3, <3>5, <3>6, <3>7 DEF Alters, Grown
    <3> QED
      BY <2>1, <3>8 DEF Upload
  <2>2. CASE Materialize(m)
    <3>1. /\ ~EntryLocked(m) /\ entry[m] # None /\ entry[m].zstd /\ entry[m].gen \in Build
      BY <1>1, <2>2 DEF Materialize, Valid, Entry
    <3> QED
      BY <1>1, <2>2, <3>1 DEF Materialize, Alters, Grown, TypeOK, Stood
  <2>3. CASE Prune(m)
    BY <1>1, <2>3 DEF Prune, Alters, Grown, TypeOK
  <2>4. CASE Rot(m)
    <3>1. PICK e : e = [entry[m] EXCEPT !.ok = FALSE]
      OBVIOUS
    <3>2. /\ e \in Entry /\ Content(e) = Content(entry[m]) /\ ~e.ok /\ entry[m] # None
          /\ e.gen = entry[m].gen /\ e.zstd = entry[m].zstd
      BY <1>1, <2>4, <3>1 DEF Rot, Valid, Entry, Content
    <3>3. entry' = [entry EXCEPT ![m] = e] /\ UNCHANGED <<restore, had, orphaned>>
      BY <2>4, <3>1 DEF Rot
    <3>4. entry'[m] = e
      BY <1>1, <3>3 DEF TypeOK
    <3>5. Undisturbed(m)
      BY <3>2, <3>3, <3>4 DEF Undisturbed
    <3>6. Alters(m)
      BY <1>1, <3>2, <3>3, <3>4 DEF Alters, Grown, TypeOK, Stood, RestoreWithEntry
    <3> QED
      BY <3>5, <3>6
  <2> QED
    BY <2>1, <2>2, <2>3, <2>4
<1> HIDE DEF IInv
<1> QED
  BY <1>2, <1>3, Around

------------------------------------------------------------------------------
(* The invariant.                                                           *)

LEMMA InitIInv == Init => IInv
<1> SUFFICES ASSUME Init PROVE IInv
  OBVIOUS
<1> USE Absent
<1>1. TypeOK
  <2>1. Nothing \in Disk /\ Blank \in Memory /\ "idle" \in Phase /\ 0 \in 0 .. MaxChange
    BY BlankTyped, LimitAssumption DEF Nothing, Disk, Phase, Over
  <2>2. \A m \in Machine : entry[m] # None => Content(entry[m]) \in Package
    BY DEF Init, Entry, Package, Content
  <2> QED
    BY <2>1, <2>2 DEF Init, TypeOK
<1>2. ASSUME NEW w \in Worker PROVE Own(w)
  <2>1. pc[w] = "idle" /\ my[w] = Blank /\ disk[w] = Nothing
    BY DEF Init
  <2>2. Role(w) /\ Link(w)
    BY <2>1 DEF Role, Link, Blank
  <2>3. Locked(w)
    BY <2>1, Phases DEF Locked, Init
  <2>4. Files(w) /\ Held(w) /\ Told(w)
    BY <2>1 DEF Files, Held, Told, Nothing, Publishing
  <2> QED
    BY <2>2, <2>3, <2>4 DEF Own
<1>3. Sole
  BY BlankTyped DEF Init, Sole, Worker
<1>4. Stood /\ RestoreWithEntry
  BY DEF Init, Stood, RestoreWithEntry
<1>5. Counted
  <2>1. \A m, c \in Machine : Under(m, c) = {}
    BY DEF Init, Under, Over, Worker
  <2>2. IsFiniteSet({}) /\ Cardinality({}) = 0
    BY FS_EmptySet
  <2>3. \A m, c \in Machine : active[m][c] = 0 /\ leaked[m][c] = 0
    BY DEF Init
  <2> QED
    BY <2>1, <2>2, <2>3 DEF Counted
<1> QED
  BY <1>1, <1>2, <1>3, <1>4, <1>5 DEF IInv

LEMMA Stutter == IInv /\ UNCHANGED vars => IInv'
<1> SUFFICES ASSUME IInv, UNCHANGED vars PROVE IInv'
  OBVIOUS
<1>1. UNCHANGED <<entry, restore, tlock, disk, pc, my, active, changes, had, leaked, orphaned>>
  BY DEF vars, cache, slots
<1>2. TypeOK'
  BY <1>1 DEF IInv, TypeOK
<1>3. \A w \in Worker : Own(w)'
  BY <1>1 DEF IInv, Own, Role, Locked, Files, Link, Held, Told, At, Restores
<1>4. Sole' /\ Stood' /\ RestoreWithEntry' /\ Counted'
  BY <1>1 DEF IInv, Sole, Stood, RestoreWithEntry, Counted, Under, At
<1> QED
  BY <1>2, <1>3, <1>4 DEF IInv

LEMMA StepImport == ASSUME IInv, NEW w \in Worker, ImportStep(w) PROVE IInv'
<1>1. CASE SeeExisting(w) \/ JudgeExisting(w)
  BY <1>1, StepExisting
<1>2. CASE Stage(w) \/ LockEntry(w) \/ JudgeAbsent(w)
  BY <1>2, StepStage
<1>3. CASE JudgeInvalid(w) \/ JudgeReplaceable(w)
  BY <1>3, StepMoveRestore
<1>4. CASE Quarantine(w) \/ Replace(w)
  BY <1>4, StepTakeAway
<1>5. CASE MoveFails(w) \/ RollBack(w)
  BY <1>5, StepPutBack
<1>6. CASE Place(w)
  BY <1>6, StepPlace
<1>7. CASE ImportFails(w)
  BY <1>7, StepImportFails
<1> QED
  BY <1>1, <1>2, <1>3, <1>4, <1>5, <1>6, <1>7 DEF ImportStep

LEMMA StepOfWorker == ASSUME IInv, NEW w \in Worker, Step(w) \/ PruneStaging(w) PROVE IInv'
<1>1. CASE TakeLock(w)
  BY <1>1, StepTakeLock
<1>2. CASE LockTimeout(w) \/ ExportFails(w)
  BY <1>2, StepOpEnds, StepHandlerEnds DEF Worker
<1>3. CASE Read(w)
  BY <1>3, StepRead
<1>4. CASE Write(w)
  BY <1>4, StepWrite
<1>5. CASE ImportStep(w)
  BY <1>5, StepImport
<1>6. CASE PruneStaging(w)
  BY <1>6, StepPruneStaging
<1> QED
  BY <1>1, <1>2, <1>3, <1>4, <1>5, <1>6 DEF Step

LEMMA StepOfOp == ASSUME IInv, NEW o \in Op, OpStep(o) \/ EndStuck(o) \/ Die(o) PROVE IInv'
<1>1. CASE FoundLocally(o) \/ Keep(o)
  BY <1>1, StepFound
<1>2. CASE LookAround(o) \/ Probed(o) \/ GetFails(o) \/ TryNext(o)
  BY <1>2, StepOn
<1>3. CASE NoneLeft(o) \/ PutFails(o) \/ Done(o)
  BY <1>3, StepOpEnds
<1>4. ASSUME NEW h \in Handler, NEW n \in Machine, Put(o, h) \/ Probe(o, h, n) \/ Get(o, h, n)
      PROVE  IInv'
  BY <1>4, StepSend
<1>5. ASSUME NEW h \in Handler, Put(o, h) PROVE IInv'
  <2>1. PICK n \in Machine : n = At(o)
    BY <1>5, Fetcher DEF Put
  <2> QED
    BY <1>4, <1>5, <2>1
<1>6. CASE EndStuck(o)
  BY <1>6, StepEndStuck
<1>7. CASE Die(o)
  BY <1>7, StepDie
<1> QED
  BY <1>1, <1>2, <1>3, <1>4, <1>5, <1>6, <1>7 DEF OpStep

LEMMA StepOfHandler ==
  ASSUME IInv, NEW h \in Handler, HandlerStep(h) \/ GiveUp(h) \/ Timeout(h) \/ LockError(h)
  PROVE  IInv'
<1>1. CASE RespondHead(h)
  BY <1>1, StepRespondHead
<1>2. CASE RespondGet(h)
  BY <1>2, StepRespondGet
<1>3. CASE Streamed(h)
  BY <1>3, StepStreamed
<1>4. CASE Unsent(h) \/ SpoolFails(h) \/ Reject(h) \/ LockError(h)
  BY <1>4, StepHandlerEnds
<1>5. CASE Spooled(h)
  BY <1>5, StepSpooled
<1>6. CASE Accept(h)
  BY <1>6, StepAccept
<1>7. CASE GiveUp(h)
  BY <1>7, StepGiveUp
<1>8. CASE Timeout(h)
  BY <1>8, StepTimeout
<1> QED
  BY <1>1, <1>2, <1>3, <1>4, <1>5, <1>6, <1>7, <1>8 DEF HandlerStep

LEMMA NextIInv == IInv /\ [Next]_vars => IInv'
<1> SUFFICES ASSUME IInv, [Next]_vars PROVE IInv'
  OBVIOUS
<1>1. CASE UNCHANGED vars
  BY <1>1, Stutter
<1>2. ASSUME NEW w \in Worker, Step(w) \/ PruneStaging(w) PROVE IInv'
  BY <1>2, StepOfWorker
<1>3. ASSUME NEW o \in Op, OpStep(o) \/ EndStuck(o) \/ Die(o) PROVE IInv'
  BY <1>3, StepOfOp
<1>4. ASSUME NEW h \in Handler, HandlerStep(h) \/ GiveUp(h) \/ Timeout(h) \/ LockError(h)
      PROVE  IInv'
  BY <1>4, StepOfHandler
<1>5. ASSUME NEW o \in Op, NEW m \in Machine,
             \/ \E b \in Build \cup {None} : StartFetch(o, m, b)
             \/ \E n \in Machine : StartPush(o, m, n)
      PROVE  IInv'
  BY <1>5, StepStart
<1>6. ASSUME NEW m \in Machine, Stop(m) PROVE IInv'
  BY <1>6, StepStop
<1>7. ASSUME NEW m \in Machine,
             (\E p \in Package : Upload(m, p)) \/ Materialize(m) \/ Prune(m) \/ Rot(m)
      PROVE  IInv'
  BY <1>7, StepAround
<1> HIDE DEF IInv
<1> QED
  BY <1>1, <1>2, <1>3, <1>4, <1>5, <1>6, <1>7 DEF Next

(* IInv holds in every reachable state: every worker's role, lock, files    *)
(* and knowledge of the entry fit together, and the server's count is that  *)
(* of the requests under way.                                               *)
THEOREM InductiveInvariant == Spec => []IInv
<1> QED
  BY InitIInv, NextIInv, PTL DEF Spec

(* Every variable keeps to its type; above all, no slot is given back that  *)
(* was not taken.                                                           *)
THEOREM TypeCorrect == Spec => []TypeOK
<1>1. IInv => TypeOK
  BY DEF IInv
<1> QED
  BY <1>1, InductiveInvariant, PTL

(* No worker touches what another one uses, and whatever way an operation   *)
(* ends, it leaves no package, lock or slot behind.                         *)
THEOREM Resources == Spec => []ResourcesKept
<1>1. ASSUME IInv PROVE ResourcesKept
  <2>1. OneAtWork
    BY <1>1, Alone DEF IInv, Own
  <2>2. InputsKept
    BY <1>1 DEF IInv, Own, Files, InputsKept, Publishing
  <2>3. NothingLeft
    BY <1>1 DEF IInv, Own, Files, Locked, NothingLeft, Counted, Under
  <2> QED
    BY <2>1, <2>2, <2>3 DEF ResourcesKept
<1> QED
  BY <1>1, InductiveInvariant, PTL

(* What a push or a fetch reports has happened.                             *)
THEOREM Truth == Spec => []AnswersTrue
<1>1. IInv => AnswersTrue
  BY DEF IInv, Own, Told, AnswersTrue, Worker
<1> QED
  BY <1>1, InductiveInvariant, PTL

(* A restore has its compressed entry, unless a rollback failed as well.    *)
THEOREM RestoreHolds == Spec => []RestoreWithEntry
<1>1. IInv => RestoreWithEntry
  BY DEF IInv
<1> QED
  BY <1>1, InductiveInvariant, PTL

------------------------------------------------------------------------------
(* Steps.                                                                   *)

(* The steps of a publication at the entry's paths, by nobody whose request *)
(* has been answered.                                                       *)
Publishes(w) ==
  \/ JudgeInvalid(w) \/ JudgeReplaceable(w) \/ Quarantine(w) \/ Replace(w)
  \/ MoveFails(w) \/ Place(w) \/ RollBack(w)

(* Whatever else changes an entry or a restore is nobody's step.            *)
LEMMA WhoChanges ==
  ASSUME [Next]_vars
  PROVE  \/ UNCHANGED <<entry, restore>>
         \/ UNCHANGED pc
         \/ \E w \in Worker : Publishes(w)
<1>1. CASE UNCHANGED vars
  BY <1>1 DEF vars
<1>2. ASSUME NEW w \in Worker, Step(w) \/ PruneStaging(w)
      PROVE  UNCHANGED <<entry, restore>> \/ Publishes(w)
  <2>1. CASE TakeLock(w) \/ LockTimeout(w) \/ Read(w) \/ Write(w) \/ ExportFails(w)
             \/ PruneStaging(w)
    BY <2>1 DEF TakeLock, LockTimeout, Read, Write, ExportFails, PruneStaging, Finish, cache
  <2>2. CASE SeeExisting(w) \/ Stage(w) \/ LockEntry(w) \/ JudgeExisting(w) \/ JudgeAbsent(w)
             \/ ImportFails(w)
    BY <2>2 DEF SeeExisting, Stage, LockEntry, JudgeExisting, JudgeAbsent, ImportFails, cache
  <2> QED
    BY <1>2, <2>1, <2>2 DEF Step, ImportStep, Publishes
<1>3. ASSUME NEW o \in Op, OpStep(o) \/ EndStuck(o) \/ Die(o) PROVE UNCHANGED <<entry, restore>>
  <2>1. CASE FoundLocally(o) \/ LookAround(o) \/ Probed(o) \/ GetFails(o) \/ NoneLeft(o)
    BY <2>1 DEF FoundLocally, LookAround, Probed, GetFails, NoneLeft, Finish, cache
  <2>2. CASE Keep(o) \/ TryNext(o) \/ PutFails(o) \/ Done(o) \/ EndStuck(o) \/ Die(o)
    BY <2>2 DEF Keep, TryNext, PutFails, Done, EndStuck, Die, Finish, cache
  <2>3. ASSUME NEW h \in Handler, NEW n, Put(o, h) \/ Probe(o, h, n) \/ Get(o, h, n)
        PROVE  UNCHANGED <<entry, restore>>
    BY <2>3 DEF Put, Probe, Get, Send, cache
  <2> QED
    BY <1>3, <2>1, <2>2, <2>3 DEF OpStep
<1>4. ASSUME NEW h \in Handler, HandlerStep(h) \/ GiveUp(h) \/ Timeout(h) \/ LockError(h)
      PROVE  UNCHANGED <<entry, restore>>
  BY <1>4 DEF HandlerStep, RespondHead, RespondGet, Streamed, Unsent, Spooled, SpoolFails, Accept,
    Reject, GiveUp, Timeout, LockError, Finish, cache
<1>5. ASSUME NEW o \in Op, NEW m \in Machine,
             \/ \E b \in Build \cup {None} : StartFetch(o, m, b)
             \/ \E n \in Machine : StartPush(o, m, n)
      PROVE  UNCHANGED <<entry, restore>>
  BY <1>5 DEF StartFetch, StartPush, cache
<1>6. ASSUME NEW m \in Machine, Stop(m) PROVE UNCHANGED <<entry, restore>>
  BY <1>6 DEF Stop, cache
<1>7. ASSUME NEW m \in Machine,
             (\E p \in Package : Upload(m, p)) \/ Materialize(m) \/ Prune(m) \/ Rot(m)
      PROVE  UNCHANGED pc
  BY <1>7 DEF Upload, Materialize, Prune, Rot
<1> QED
  BY <1>1, <1>2, <1>3, <1>4, <1>5, <1>6, <1>7 DEF Next

(* Who publishes moves alone, and has answered nothing yet; and if a valid  *)
(* entry gives way, then to the fetch that is to replace just this one.     *)
LEMMA PublisherStep ==
  ASSUME IInv, NEW w \in Worker, Publishes(w)
  PROVE  /\ \A v \in Worker : v # w => pc'[v] = pc[v]
         /\ ~my[w].answered
         /\ Valid(At(w)) /\ entry'[At(w)] # entry[At(w)] =>
              w \in Op /\ entry[At(w)].zstd /\ entry[At(w)].gen = my[w].want
<1>1. pc[w] \in Publishing
  BY DEF Publishes, JudgeInvalid, JudgeReplaceable, Condemns, Quarantine, Replace, MoveFails, Place,
    RollBack, Fail, Goto, Publishing
<1>2. TypeOK /\ Held(w) /\ (pc[w] # "judge" => ~my[w].answered) /\ At(w) \in Machine
  BY <1>1, Publisher
<1>3. \E p : pc' = [pc EXCEPT ![w] = p]
  BY DEF Publishes, JudgeInvalid, JudgeReplaceable, MoveRestore, Quarantine, Replace, MoveFails,
    Place, RollBack, Fail, Goto
<1>4. \A v \in Worker : v # w => pc'[v] = pc[v]
  BY <1>2, <1>3 DEF TypeOK
<1>5. ~my[w].answered
  <2>1. CASE JudgeInvalid(w) \/ JudgeReplaceable(w)
    BY <2>1 DEF JudgeInvalid, JudgeReplaceable, Condemns, Late
  <2>2. CASE Quarantine(w) \/ Replace(w) \/ MoveFails(w) \/ Place(w) \/ RollBack(w)
    BY <1>2, <2>2 DEF Quarantine, Replace, MoveFails, Place, RollBack, Fail, Goto
  <2> QED
    BY <2>1, <2>2 DEF Publishes
<1>6. ASSUME Valid(At(w)), entry'[At(w)] # entry[At(w)]
      PROVE  w \in Op /\ entry[At(w)].zstd /\ entry[At(w)].gen = my[w].want
  <2>1. CASE Replace(w)
    BY <1>2, <2>1 DEF Replace, Goto, Held
  <2>2. CASE Quarantine(w)
    BY <1>2, <1>6, <2>2 DEF Quarantine, Goto, Held, Valid, Intact
  <2>3. CASE Place(w) \/ RollBack(w)
    BY <1>2, <1>6, <2>3 DEF Place, RollBack, Fail, Goto, Held, Valid
  <2>4. CASE JudgeInvalid(w) \/ JudgeReplaceable(w) \/ MoveFails(w)
    BY <1>6, <2>4 DEF JudgeInvalid, JudgeReplaceable, MoveRestore, MoveFails
  <2> QED
    BY <2>1, <2>2, <2>3, <2>4 DEF Publishes
<1> HIDE DEF IInv
<1> QED
  BY <1>4, <1>5, <1>6

(* After the 503 a request changes neither an entry nor a restore.          *)
THEOREM Final == Spec => AnsweredIsFinal
<1>1. ASSUME IInv, [Next]_vars PROVE Silent
  <2>1. SUFFICES ASSUME NEW h \in Handler, my[h].answered, pc'[h] # pc[h]
                 PROVE  UNCHANGED <<entry, restore>>
    BY DEF Silent
  <2>2. ASSUME NEW w \in Worker, Publishes(w) PROVE FALSE
    <3>1. h \in Worker
      BY DEF Worker
    <3> HIDE DEF IInv
    <3> QED
      BY <1>1, <2>1, <2>2, <3>1, PublisherStep
  <2> QED
    BY <1>1, <2>1, <2>2, WhoChanges
<1>2. IInv /\ [Next]_vars => [Silent]_vars
  BY <1>1
<1> QED
  BY <1>2, InductiveInvariant, PTL DEF Spec, AnsweredIsFinal

(* No import takes the place of a valid entry but the fetch that was begun  *)
(* because just this entry could not be decoded.                            *)
THEOREM ValidGivesWay == Spec => ValidKept
<1>1. ASSUME IInv, [Next]_vars PROVE Displacing
  <2>1. SUFFICES ASSUME NEW w \in Worker, pc'[w] # pc[w], pc[w] \in Importing, Valid(At(w)),
                        entry'[At(w)] # entry[At(w)]
                 PROVE  w \in Op /\ entry[At(w)].zstd /\ entry[At(w)].gen = my[w].want
    BY DEF Displacing
  <2>2. PICK v \in Worker : Publishes(v)
    BY <1>1, <2>1, WhoChanges
  <2> HIDE DEF IInv
  <2>3. v = w
    BY <1>1, <2>1, <2>2, PublisherStep
  <2> QED
    BY <1>1, <2>1, <2>2, <2>3, PublisherStep
<1>2. IInv /\ [Next]_vars => [Displacing]_vars
  BY <1>1
<1> QED
  BY <1>2, InductiveInvariant, PTL DEF Spec, ValidKept
================================================================================
