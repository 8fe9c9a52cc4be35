--------------------------- MODULE LanPairingProofs ---------------------------
(****************************************************************************)
(* Theorems about LanPairing for any number of clients, handlers,           *)
(* credentials and runs of the server. The argument: a client and the       *)
(* handler it waits for agree on what is acknowledged; what an              *)
(* acknowledgement names was stored by its client and sent in this run; and *)
(* as long as no shutdown has begun all handlers that can still write a     *)
(* record of this window's pairing are of one client.                       *)
(****************************************************************************)
EXTENDS LanPairing, TLAPS

(* A handler is there in a run of the server only.                          *)
Running == IF up THEN session # 0 ELSE \A s \in Slot : task[s] = None

(* Who waits, waits for a handler of its own request.                       *)
Serves(s, c) ==
  /\ task[s] # None
  /\ task[s].client = c
  /\ \/ phase[c] = "pair" /\ task[s].kind = "pair"
     \/ phase[c] = "ack" /\ task[s].kind \in {"ack", "activate"} /\ task[s].gen = got[c]

Connected ==
  \A c \in Client :
    IF phase[c] \in {"pair", "ack"} THEN conn[c] # None /\ Serves(conn[c], c)
                                    ELSE conn[c] = None

(* What a client has in hand while its command runs.                        *)
InHand ==
  \A c \in Client :
    /\ phase[c] \in {"store", "stored", "ack"} => got[c] # None
    /\ phase[c] \in {"stored", "ack"} => peer[c] = got[c] /\ got[c] \in stored[c]
    /\ phase[c] # "idle" => trust[c] = None

Acking(s) == task[s] # None /\ task[s].kind \in {"ack", "activate"}

(* What an acknowledgement names: the client has stored it, and if it may   *)
(* still become active, this run has sent it.                               *)
AckStored ==
  \A s \in Slot : Acking(s) => task[s].gen # None /\ task[s].gen \in stored[task[s].client]

HeldIssued == \A c \in Client : reserved = c /\ got[c] # None => got[c] \in issued

AckIssued ==
  \A s \in Slot : Acking(s) /\ Activatable(task[s].client, task[s].gen)
                    => task[s].gen \in issued

(* Handlers that are past the check of the window.                          *)
Past(s) == task[s] # None /\ task[s].kind \in {"pair", "activate"}

OneClient ==
  /\ window = "open" => \A s \in Slot : task[s] = None \/ task[s].kind # "discard"
  /\ WindowOpen => \A s \in Slot : Past(s) => task[s].client = reserved
  /\ \A s, t \in Slot : Past(s) /\ Past(t) => task[s].client = task[t].client
  /\ consumed => \A s \in Slot : task[s] # None /\ task[s].kind = "activate"
                   => ~Activatable(task[s].client, task[s].gen)
  /\ uses = IF consumed THEN 1 ELSE 0

WindowUse == ~stopping => OneClient

IInv ==
  /\ TypeOK /\ Running
  /\ Connected /\ InHand
  /\ AckStored /\ HeldIssued /\ AckIssued /\ WindowUse
  /\ ActiveWasStored /\ TrustKept

------------------------------------------------------------------------------
LEMMA Absent == /\ None \notin Client /\ None \notin Slot /\ None \notin Gen
                /\ None \notin Record /\ None \notin Task
  BY NoneAssumption, AbsentAssumption DEF Gen

LEMMA InitIInv == Init => IInv
<1> SUFFICES ASSUME Init PROVE IInv
  OBVIOUS
<1>1. TypeOK
  <2>1. session \in 0 .. MaxSession /\ issued \in SUBSET Gen /\ uses \in Nat
    BY BoundAssumption DEF Init
  <2>2. /\ file \in [Client -> Record \cup {None}] /\ task \in [Slot -> Task \cup {None}]
        /\ conn \in [Client -> Slot \cup {None}] /\ stored \in [Client -> SUBSET Gen]
    BY DEF Init
  <2> QED
    BY <2>1, <2>2 DEF Init, TypeOK
<1>2. Running /\ Connected /\ InHand
  BY DEF Init, Running, Connected, InHand
<1>3. AckStored /\ HeldIssued /\ AckIssued /\ WindowUse
  BY DEF Init, AckStored, HeldIssued, AckIssued, WindowUse, OneClient, Acking, Past, WindowOpen
<1>4. ActiveWasStored /\ TrustKept
  BY DEF Init, ActiveWasStored, TrustKept
<1> QED
  BY <1>1, <1>2, <1>3, <1>4 DEF IInv

(* What a pair request writes: the old credential of a retry, or a new one. *)
LEMMA Written ==
  ASSUME TypeOK, NEW c \in Client, NEW g \in IF Retried(c) THEN {file[c].gen} ELSE NextGen
  PROVE  /\ g \in Gen
         /\ Retried(c) => Pending(c) /\ g = file[c].gen
         /\ ~Retried(c) => \A s \in Slot : task[s] # None => task[s].gen # g
<1>1. CASE Retried(c)
  BY <1>1 DEF Retried, Pending, TypeOK, Record
<1>2. CASE ~Retried(c)
  <2>1. g \in Gen \ Drawn
    BY <1>2 DEF NextGen
  <2>2. ASSUME NEW s \in Slot, task[s] # None PROVE task[s].gen \in Drawn
    <3>1. task[s].gen \in {task[r].gen : r \in {q \in Slot : task[q] # None}}
      BY <2>2
    <3> QED
      BY <3>1, Zenon DEF Drawn
  <2> QED
    BY <1>2, <2>1, <2>2
<1> QED
  BY <1>1, <1>2

------------------------------------------------------------------------------
LEMMA TypeStep == TypeOK /\ Running /\ InHand /\ [Next]_vars => TypeOK'
<1> SUFFICES ASSUME TypeOK, Running, InHand, [Next]_vars PROVE TypeOK'
  OBVIOUS
<1> USE BoundAssumption, Absent DEF server, memory, client, history
<1>1. CASE Serve
  <2>1. session' \in 0 .. MaxSession
    BY <1>1 DEF Serve, TypeOK
  <2>2. issued' \in SUBSET Gen /\ uses' \in Nat
    BY <1>1 DEF Serve
  <2> QED
    BY <1>1, <2>1, <2>2 DEF Serve, TypeOK
<1>2. CASE Halt
  BY <1>2 DEF Halt, TypeOK
<1>3. ASSUME NEW s \in Slot, Expire(s) \/ Shutdown(s) PROVE TypeOK'
  <2>1. task' \in [Slot -> Task \cup {None}]
    <3>1. CASE reserved = None \/ reservedId = None \/ consumed
      BY <1>3, <3>1 DEF Expire, Shutdown, DiscardPending, TypeOK
    <3>2. CASE ~(reserved = None \/ reservedId = None \/ consumed)
      <4>1. [kind |-> "discard", client |-> reserved, gen |-> reservedId] \in Task
        BY <3>2 DEF TypeOK, Task
      <4> QED
        BY <1>3, <3>2, <4>1 DEF Expire, Shutdown, DiscardPending, Begin, TypeOK
    <3> QED
      BY <3>1, <3>2
  <2> QED
    BY <1>3, <2>1 DEF Expire, Shutdown, TypeOK
<1>4. ASSUME NEW s \in Slot, Discard(s) PROVE TypeOK'
  BY <1>4 DEF Discard, End, TypeOK
<1>5. ASSUME NEW s \in Slot, CommitPair(s) PROVE TypeOK'
  <2> DEFINE c == task[s].client
  <2>1. c \in Client
    BY <1>5 DEF CommitPair, End, TypeOK, Task
  <2>2. PICK g \in IF Retried(c) THEN {file[c].gen} ELSE NextGen :
          /\ file' = [Swept(c) EXCEPT ![c] =
                         IF Retried(c) THEN file[c]
                         ELSE [gen |-> g, status |-> "pending", fresh |-> TRUE, by |-> session]]
          /\ reservedId' = g
          /\ issued' = issued \cup {g}
          /\ got' = [d \in Client |-> IF Waits(d, s) THEN g ELSE got[d]]
          /\ trust' = [trust EXCEPT ![c] = None]
    BY <1>5 DEF CommitPair
  <2>3. g \in Gen
    BY <2>1, <2>2, Written
  <2>4. session \in 1 .. MaxSession
    BY <1>5 DEF CommitPair, End, TypeOK, Running
  <2>5. [gen |-> g, status |-> "pending", fresh |-> TRUE, by |-> session] \in Record
    BY <2>3, <2>4 DEF Record
  <2>6. Swept(c) \in [Client -> Record \cup {None}]
    BY DEF Swept, TypeOK
  <2>7. file' \in [Client -> Record \cup {None}]
    BY <2>1, <2>2, <2>5, <2>6 DEF TypeOK
  <2>8. /\ reservedId' \in Gen \cup {None} /\ issued' \in SUBSET Gen
        /\ got' \in [Client -> Gen \cup {None}] /\ trust' \in [Client -> Gen \cup {None}]
    BY <2>1, <2>2, <2>3 DEF TypeOK
  <2>9. /\ task' \in [Slot -> Task \cup {None}]
        /\ phase' \in [Client -> {"idle", "pair", "store", "stored", "ack"}]
        /\ conn' \in [Client -> Slot \cup {None}]
    BY <1>5 DEF CommitPair, End, Answer, TypeOK
  <2> QED
    BY <1>5, <2>7, <2>8, <2>9 DEF CommitPair, TypeOK
<1>6. ASSUME NEW s \in Slot, CheckAck(s) PROVE TypeOK'
  <2>1. task[s] \in Task /\ task' = [task EXCEPT ![s] = [task[s] EXCEPT !.kind = "activate"]]
    BY <1>6 DEF CheckAck, TypeOK
  <2>2. [task[s] EXCEPT !.kind = "activate"] \in Task
    BY <2>1 DEF Task
  <2> QED
    BY <1>6, <2>1, <2>2 DEF CheckAck, TypeOK
<1>7. ASSUME NEW s \in Slot, Activate(s) PROVE TypeOK'
  <2> DEFINE c == task[s].client
  <2>1. /\ c \in Client /\ task[s].gen \in Gen \cup {None} /\ file[c] \in Record
        /\ file' = [file EXCEPT ![c] = [file[c] EXCEPT !.status = "active"]]
        /\ trust' = [trust EXCEPT ![c] = IF Waits(c, s) THEN task[s].gen ELSE trust[c]]
    BY <1>7 DEF Activate, End, Activatable, Pending, TypeOK, Task
  <2>2. [file[c] EXCEPT !.status = "active"] \in Record
    BY <2>1 DEF Record
  <2>3. file' \in [Client -> Record \cup {None}] /\ trust' \in [Client -> Gen \cup {None}]
    BY <2>1, <2>2 DEF TypeOK
  <2> QED
    BY <1>7, <2>3 DEF Activate, End, Answer, TypeOK
<1>8. ASSUME NEW s \in Slot, TaskFails(s) PROVE TypeOK'
  BY <1>8 DEF TaskFails, Answer, TypeOK
<1>9. ASSUME NEW c \in Client, Store(c) \/ GiveUp(c) \/ Revoke(c) PROVE TypeOK'
  <2>1. CASE Store(c)
    <3>1. stored' = [stored EXCEPT ![c] = stored[c] \cup {got[c]}]
      BY <2>1 DEF Store
    <3>2. got[c] \in Gen
      BY <2>1 DEF Store, TypeOK, InHand
    <3>3. peer' = [peer EXCEPT ![c] = got[c]] /\ phase' = [phase EXCEPT ![c] = "stored"]
      BY <2>1 DEF Store
    <3> QED
      BY <2>1, <3>1, <3>2, <3>3 DEF Store, TypeOK
  <2>2. CASE GiveUp(c)
    BY <2>2 DEF GiveUp, TypeOK
  <2>3. CASE Revoke(c)
    BY <2>3 DEF Revoke, TypeOK
  <2> QED
    BY <1>9, <2>1, <2>2, <2>3
<1>10. ASSUME NEW c \in Client, GrowStale(c) PROVE TypeOK'
  <2>1. file[c] \in Record /\ file' = [file EXCEPT ![c] = [file[c] EXCEPT !.fresh = FALSE]]
    BY <1>10 DEF GrowStale, Pending, TypeOK
  <2>2. [file[c] EXCEPT !.fresh = FALSE] \in Record
    BY <2>1 DEF Record
  <2> QED
    BY <1>10, <2>1, <2>2 DEF GrowStale, TypeOK
<1>11. ASSUME NEW c \in Client, NEW s \in Slot, Pair(c, s) PROVE TypeOK'
  <2>1. [kind |-> "pair", client |-> c, gen |-> None] \in Task
    BY DEF Task
  <2> QED
    BY <1>11, <2>1 DEF Pair, Begin, TypeOK
<1>12. ASSUME NEW c \in Client, NEW s \in Slot, Ack(c, s) PROVE TypeOK'
  <2>1. [kind |-> "ack", client |-> c, gen |-> got[c]] \in Task
    BY DEF Task, TypeOK
  <2> QED
    BY <1>12, <2>1 DEF Ack, Begin, TypeOK
<1>13. CASE UNCHANGED vars
  BY <1>13 DEF vars, TypeOK
<1> QED
  BY <1>1, <1>2, <1>3, <1>4, <1>5, <1>6, <1>7, <1>8, <1>9, <1>10, <1>11, <1>12, <1>13 DEF Next

------------------------------------------------------------------------------
LEMMA RunningStep == TypeOK /\ Running /\ [Next]_vars => Running'
<1> SUFFICES ASSUME TypeOK, Running, [Next]_vars PROVE Running'
  OBVIOUS
<1> USE DEF Running, server
<1>1. CASE Serve
  BY <1>1 DEF Serve, TypeOK
<1>2. CASE Halt
  BY <1>2 DEF Halt
<1>3. ASSUME NEW s \in Slot, Expire(s) \/ Shutdown(s) PROVE Running'
  BY <1>3 DEF Expire, Shutdown
<1>4. ASSUME NEW s \in Slot,
             Discard(s) \/ CommitPair(s) \/ CheckAck(s) \/ Activate(s) \/ TaskFails(s)
      PROVE  Running'
  <2>1. task[s] # None /\ UNCHANGED <<session, up>>
    BY <1>4 DEF Discard, CommitPair, CheckAck, Activate, TaskFails, End
  <2> QED
    BY <2>1
<1>5. ASSUME NEW c \in Client, Store(c) \/ GiveUp(c) \/ GrowStale(c) \/ Revoke(c)
      PROVE  Running'
  BY <1>5 DEF Store, GiveUp, GrowStale, Revoke
<1>6. ASSUME NEW c \in Client, NEW s \in Slot, Pair(c, s) \/ Ack(c, s) PROVE Running'
  BY <1>6 DEF Pair, Ack
<1>7. CASE UNCHANGED vars
  BY <1>7 DEF vars
<1> QED
  BY <1>1, <1>2, <1>3, <1>4, <1>5, <1>6, <1>7 DEF Next

------------------------------------------------------------------------------
(* A handler that begins was nobody's before, and one that ends has         *)
(* answered whoever waited for it.                                          *)
LEMMA ConnectedStep ==
  TypeOK /\ Running /\ Connected /\ [Next]_vars => Connected'
<1> SUFFICES ASSUME TypeOK, Running, Connected, [Next]_vars, NEW c \in Client
             PROVE  (IF phase[c] \in {"pair", "ack"} THEN conn[c] # None /\ Serves(conn[c], c)
                                                     ELSE conn[c] = None)'
  BY DEF Connected
<1> DEFINE Goal == (IF phase[c] \in {"pair", "ack"} THEN conn[c] # None /\ Serves(conn[c], c)
                                                    ELSE conn[c] = None)'
<1>a. IF phase[c] \in {"pair", "ack"} THEN conn[c] # None /\ Serves(conn[c], c)
                                      ELSE conn[c] = None
  BY DEF Connected
<1>b. conn[c] # None => conn[c] \in Slot
  BY DEF TypeOK
<1> USE DEF Serves
<1>1. CASE Serve
  BY <1>1, <1>a, <1>b DEF Serve, client, Running
<1>2. CASE Halt
  BY <1>2, <1>a, Absent DEF Halt, TypeOK
<1>3. ASSUME NEW s \in Slot, Expire(s) \/ Shutdown(s) PROVE Goal
  <2>1. task' = task \/ (task[s] = None /\ \E t : task' = [task EXCEPT ![s] = t])
    BY <1>3 DEF Expire, Shutdown, DiscardPending, Begin
  <2>2. conn[c] # None => task'[conn[c]] = task[conn[c]]
    BY <2>1, <1>a, <1>b DEF TypeOK
  <2> QED
    BY <1>3, <1>a, <2>2 DEF Expire, Shutdown, client
<1>4. ASSUME NEW s \in Slot, Discard(s) PROVE Goal
  <2>1. conn[c] # None => conn[c] # s
    BY <1>4, <1>a DEF Discard, End
  <2> QED
    BY <1>4, <1>a, <1>b, <2>1 DEF Discard, End, client, TypeOK
<1>5. ASSUME NEW s \in Slot, CommitPair(s) \/ Activate(s) \/ TaskFails(s) PROVE Goal
  <2>1. /\ task' = [task EXCEPT ![s] = None]
        /\ \E p \in {"idle", "store"} : phase'[c] = IF Waits(c, s) THEN p ELSE phase[c]
        /\ conn'[c] = IF Waits(c, s) THEN None ELSE conn[c]
        /\ ~Waits(c, s) => got'[c] = got[c]
    <3>1. CASE CommitPair(s)
      BY <3>1 DEF CommitPair, End, Answer
    <3>2. CASE Activate(s)
      BY <3>2 DEF Activate, End, Answer
    <3>3. CASE TaskFails(s)
      BY <3>3 DEF TaskFails, Answer
    <3> QED
      BY <1>5, <3>1, <3>2, <3>3
  <2>2. CASE Waits(c, s)
    BY <2>1, <2>2
  <2>3. CASE ~Waits(c, s)
    <3>1. conn[c] # None => task'[conn[c]] = task[conn[c]]
      BY <1>b, <2>1, <2>3 DEF Waits, TypeOK
    <3>2. phase'[c] = phase[c] /\ conn'[c] = conn[c] /\ got'[c] = got[c]
      BY <2>1, <2>3
    <3> QED
      BY <1>a, <3>1, <3>2
  <2> QED
    BY <2>2, <2>3
<1>6. ASSUME NEW s \in Slot, CheckAck(s) PROVE Goal
  <2>1. task' = [task EXCEPT ![s] = [task[s] EXCEPT !.kind = "activate"]]
    BY <1>6 DEF CheckAck
  <2>2. task[s].kind = "ack" /\ UNCHANGED client
    BY <1>6 DEF CheckAck
  <2>3. CASE conn[c] = s
    <3>1. /\ task'[s].client = task[s].client /\ task'[s].gen = task[s].gen
          /\ task'[s].kind = "activate" /\ task'[s] \in Task
      BY <1>6, <2>1 DEF CheckAck, TypeOK, Task
    <3> QED
      BY <1>a, <2>2, <2>3, <3>1, Absent DEF client
  <2>4. CASE conn[c] # s
    BY <1>a, <1>b, <2>1, <2>2, <2>4 DEF client, TypeOK
  <2> QED
    BY <2>3, <2>4
<1>7. ASSUME NEW d \in Client, Store(d) \/ GiveUp(d) \/ GrowStale(d) \/ Revoke(d) PROVE Goal
  <2>1. CASE Store(d)
    BY <2>1, <1>a DEF Store, TypeOK
  <2>2. CASE GiveUp(d)
    BY <2>2, <1>a DEF GiveUp, TypeOK
  <2>3. CASE GrowStale(d) \/ Revoke(d)
    BY <2>3, <1>a DEF GrowStale, Revoke, client
  <2> QED
    BY <1>7, <2>1, <2>2, <2>3
<1>8. ASSUME NEW d \in Client, NEW s \in Slot, Pair(d, s) \/ Ack(d, s) PROVE Goal
  <2>1. CASE c = d /\ Pair(d, s)
    <3>1. task'[s] = [kind |-> "pair", client |-> c, gen |-> None]
      BY <2>1 DEF Pair, Begin, TypeOK
    <3>2. task'[s] # None
      BY <3>1, Absent DEF Task
    <3> QED
      BY <2>1, <3>1, <3>2, Absent DEF Pair, TypeOK
  <2>2. CASE c = d /\ Ack(d, s)
    <3>1. task'[s] = [kind |-> "ack", client |-> c, gen |-> got[c]]
      BY <2>2 DEF Ack, Begin, TypeOK
    <3>2. task'[s] # None
      BY <3>1, Absent DEF Task, TypeOK
    <3> QED
      BY <2>2, <3>1, <3>2, Absent DEF Ack, TypeOK
  <2>3. CASE c # d
    <3>1. phase'[c] = phase[c] /\ conn'[c] = conn[c] /\ got'[c] = got[c]
      BY <1>8, <2>3 DEF Pair, Ack, TypeOK
    <3>2. task[s] = None /\ \E t : task' = [task EXCEPT ![s] = t]
      BY <1>8 DEF Pair, Ack, Begin
    <3>3. conn[c] # None => task'[conn[c]] = task[conn[c]]
      BY <1>a, <1>b, <3>2 DEF TypeOK
    <3> QED
      BY <1>a, <3>1, <3>3
  <2> QED
    BY <1>8, <2>1, <2>2, <2>3
<1>9. CASE UNCHANGED vars
  BY <1>9, <1>a DEF vars, client
<1> QED
  BY <1>1, <1>2, <1>3, <1>4, <1>5, <1>6, <1>7, <1>8, <1>9 DEF Next
------------------------------------------------------------------------------
LEMMA InHandStep ==
  TypeOK /\ Connected /\ InHand /\ [Next]_vars => InHand'
<1> DEFINE Held(c) == /\ phase[c] \in {"store", "stored", "ack"} => got[c] # None
                      /\ phase[c] \in {"stored", "ack"} => peer[c] = got[c] /\ got[c] \in stored[c]
                      /\ phase[c] # "idle" => trust[c] = None
<1> SUFFICES ASSUME TypeOK, Connected, InHand, [Next]_vars, NEW c \in Client
             PROVE  Held(c)'
  BY DEF InHand
<1>a. Held(c)
  BY DEF InHand
<1>1. ASSUME UNCHANGED <<got, peer, stored, trust>>, phase'[c] \in {phase[c], "idle"}
      PROVE  Held(c)'
  BY <1>1, <1>a
<1>2. CASE Serve \/ UNCHANGED vars
  BY <1>2, <1>1 DEF Serve, vars, client, history
<1>3. CASE Halt
  BY <1>3, <1>1 DEF Halt, history
<1>4. ASSUME NEW s \in Slot, Expire(s) \/ Shutdown(s) \/ Discard(s) \/ CheckAck(s)
      PROVE  Held(c)'
  BY <1>4, <1>1 DEF Expire, Shutdown, Discard, CheckAck, client, history
<1>5. ASSUME NEW s \in Slot, CommitPair(s) PROVE Held(c)'
  <2> DEFINE d == task[s].client
  <2>1. d \in Client /\ task[s] # None /\ task[s].kind = "pair"
    BY <1>5 DEF CommitPair, End, TypeOK, Task
  <2>2. PICK g \in IF Retried(d) THEN {file[d].gen} ELSE NextGen :
          /\ got' = [e \in Client |-> IF Waits(e, s) THEN g ELSE got[e]]
          /\ trust' = [trust EXCEPT ![d] = None]
    BY <1>5 DEF CommitPair
  <2>3. g # None
    BY <2>1, <2>2, Written, Absent
  <2>4. /\ phase'[c] = IF Waits(c, s) THEN "store" ELSE phase[c]
        /\ peer' = peer /\ stored' = stored
    BY <1>5 DEF CommitPair, Answer
  <2>5. CASE Waits(c, s)
    <3>1. Serves(s, c)
      BY <2>5, Absent DEF Connected, Waits
    <3>2. d = c
      BY <3>1 DEF Serves
    <3> QED
      BY <2>2, <2>3, <2>4, <2>5, <3>2 DEF TypeOK
  <2>6. CASE ~Waits(c, s)
    <3>1. trust[c] = None => trust'[c] = None
      BY <2>2 DEF TypeOK
    <3> QED
      BY <1>a, <2>2, <2>4, <2>6, <3>1
  <2> QED
    BY <2>5, <2>6
<1>6. ASSUME NEW s \in Slot, Activate(s) PROVE Held(c)'
  <2>1. /\ phase'[c] = IF Waits(c, s) THEN "idle" ELSE phase[c]
        /\ UNCHANGED <<got, peer, stored>>
        /\ ~Waits(c, s) => trust'[c] = trust[c]
    BY <1>6 DEF Activate, Answer, TypeOK
  <2> QED
    BY <2>1, <1>a
<1>7. ASSUME NEW s \in Slot, TaskFails(s) PROVE Held(c)'
  BY <1>7, <1>1 DEF TaskFails, Answer, history
<1>8. ASSUME NEW d \in Client, Store(d) PROVE Held(c)'
  BY <1>8, <1>a DEF Store, history, TypeOK
<1>9. ASSUME NEW d \in Client, GiveUp(d) PROVE Held(c)'
  BY <1>9, <1>1 DEF GiveUp, history, TypeOK
<1>10. ASSUME NEW d \in Client, GrowStale(d) \/ Revoke(d) PROVE Held(c)'
  BY <1>10, <1>a DEF GrowStale, Revoke, client, history, TypeOK
<1>11. ASSUME NEW d \in Client, NEW s \in Slot, Pair(d, s) PROVE Held(c)'
  BY <1>11, <1>a DEF Pair, TypeOK
<1>12. ASSUME NEW d \in Client, NEW s \in Slot, Ack(d, s) PROVE Held(c)'
  BY <1>12, <1>a DEF Ack, history, TypeOK
<1> QED
  BY <1>2, <1>3, <1>4, <1>5, <1>6, <1>7, <1>8, <1>9, <1>10, <1>11, <1>12 DEF Next

------------------------------------------------------------------------------
(* An acknowledgement begins with what its client has stored, and nothing   *)
(* that is stored is forgotten.                                             *)
LEMMA AckStoredStep ==
  TypeOK /\ InHand /\ AckStored /\ [Next]_vars => AckStored'
<1> DEFINE Fine(s) == Acking(s) => task[s].gen # None /\ task[s].gen \in stored[task[s].client]
<1> SUFFICES ASSUME TypeOK, InHand, AckStored, [Next]_vars, NEW s \in Slot
             PROVE  Fine(s)'
  BY DEF AckStored
<1>a. Fine(s)
  BY DEF AckStored
<1> USE DEF Acking
<1>1. ASSUME \A c \in Client : stored[c] \subseteq stored'[c],
             \/ task'[s] = task[s]
             \/ task'[s] = None
             \/ task'[s].kind \in {"pair", "discard"}
      PROVE  Fine(s)'
  <2>1. CASE task'[s] = task[s] /\ task[s] # None
    <3>1. task[s].client \in Client
      BY <2>1 DEF TypeOK, Task
    <3> QED
      BY <1>a, <1>1, <2>1, <3>1
  <2> QED
    BY <1>1, <2>1
<1>2. CASE Serve \/ Halt \/ UNCHANGED vars
  BY <1>2, <1>1 DEF Serve, Halt, vars, client
<1>3. ASSUME NEW r \in Slot, Expire(r) \/ Shutdown(r) PROVE Fine(s)'
  <2>1. /\ stored' = stored
        /\ \/ task' = task
           \/ task' = [task EXCEPT ![r] = [kind |-> "discard", client |-> reserved, gen |-> reservedId]]
    BY <1>3 DEF Expire, Shutdown, DiscardPending, Begin, client
  <2>2. task'[s] = task[s] \/ task'[s].kind = "discard"
    BY <2>1 DEF TypeOK
  <2> QED
    BY <1>1, <2>1, <2>2
<1>4. ASSUME NEW r \in Slot, Discard(r) \/ CommitPair(r) \/ Activate(r) \/ TaskFails(r)
      PROVE  Fine(s)'
  <2>1. stored' = stored /\ task' = [task EXCEPT ![r] = None]
    BY <1>4 DEF Discard, CommitPair, Activate, TaskFails, End, client
  <2>2. task'[s] = task[s] \/ task'[s] = None
    BY <2>1 DEF TypeOK
  <2> QED
    BY <1>1, <2>1, <2>2
<1>5. ASSUME NEW r \in Slot, CheckAck(r) PROVE Fine(s)'
  <2>1. CASE s = r
    <3>1. /\ task[s] \in Task /\ task[s].kind = "ack" /\ stored' = stored
          /\ task'[s] = [task[s] EXCEPT !.kind = "activate"] /\ task[s] # None
      BY <1>5, <2>1 DEF CheckAck, client, TypeOK
    <3>2. task'[s].gen = task[s].gen /\ task'[s].client = task[s].client
      BY <3>1 DEF Task
    <3> QED
      BY <1>a, <3>1, <3>2
  <2>2. CASE s # r
    <3>1. stored' = stored /\ task'[s] = task[s]
      BY <1>5, <2>2 DEF CheckAck, client, TypeOK
    <3> QED
      BY <3>1, <1>1
  <2> QED
    BY <2>1, <2>2
<1>6. ASSUME NEW d \in Client, Store(d) \/ GiveUp(d) \/ GrowStale(d) \/ Revoke(d)
      PROVE  Fine(s)'
  <2>1. task' = task
    BY <1>6 DEF Store, GiveUp, GrowStale, Revoke
  <2>2. \A c \in Client : stored[c] \subseteq stored'[c]
    BY <1>6 DEF Store, GiveUp, GrowStale, Revoke, client, TypeOK
  <2> QED
    BY <1>1, <2>1, <2>2
<1>7. ASSUME NEW d \in Client, NEW r \in Slot, Pair(d, r) PROVE Fine(s)'
  <2>1. stored' = stored /\ task' = [task EXCEPT ![r] = [kind |-> "pair", client |-> d, gen |-> None]]
    BY <1>7 DEF Pair, Begin
  <2>2. task'[s] = task[s] \/ task'[s].kind = "pair"
    BY <2>1 DEF TypeOK
  <2> QED
    BY <1>1, <2>1, <2>2
<1>8. ASSUME NEW d \in Client, NEW r \in Slot, Ack(d, r) PROVE Fine(s)'
  <2>1. /\ stored' = stored
        /\ task' = [task EXCEPT ![r] = [kind |-> "ack", client |-> d, gen |-> got[d]]]
        /\ phase[d] = "stored"
    BY <1>8 DEF Ack, Begin
  <2>2. CASE s = r
    BY <2>1, <2>2 DEF InHand, TypeOK
  <2>3. CASE s # r
    <3>1. task'[s] = task[s]
      BY <2>1, <2>3 DEF TypeOK
    <3> QED
      BY <1>1, <2>1, <3>1
  <2> QED
    BY <2>2, <2>3
<1> QED
  BY <1>2, <1>3, <1>4, <1>5, <1>6, <1>7, <1>8 DEF Next
------------------------------------------------------------------------------
(* Who holds the reservation has nothing in hand but what this run sent.    *)
LEMMA HeldIssuedStep == TypeOK /\ HeldIssued /\ [Next]_vars => HeldIssued'
<1> SUFFICES ASSUME TypeOK, HeldIssued, [Next]_vars,
                    NEW c \in Client, reserved' = c, got'[c] # None
             PROVE  got'[c] \in issued'
  BY DEF HeldIssued
<1> USE Absent
<1>1. ASSUME UNCHANGED got, issued \subseteq issued', reserved' \in {reserved, None}
      PROVE  got'[c] \in issued'
  BY <1>1 DEF HeldIssued
<1>2. CASE Serve \/ Halt \/ UNCHANGED vars
  BY <1>2, <1>1 DEF Serve, Halt, vars, client, memory, history
<1>3. ASSUME NEW r \in Slot,
             \/ Expire(r) \/ Shutdown(r) \/ Discard(r)
             \/ CheckAck(r) \/ Activate(r) \/ TaskFails(r)
      PROVE  got'[c] \in issued'
  BY <1>3, <1>1 DEF Expire, Shutdown, Discard, CheckAck, Activate, TaskFails,
                    client, memory, history
<1>4. ASSUME NEW r \in Slot, CommitPair(r) PROVE got'[c] \in issued'
  BY <1>4 DEF CommitPair, HeldIssued
<1>5. ASSUME NEW d \in Client, Store(d) \/ GiveUp(d) \/ GrowStale(d) \/ Revoke(d)
      PROVE  got'[c] \in issued'
  BY <1>5, <1>1 DEF Store, GiveUp, GrowStale, Revoke, client, memory, history
<1>6. ASSUME NEW d \in Client, NEW r \in Slot, Pair(d, r) PROVE got'[c] \in issued'
  BY <1>6 DEF Pair, TypeOK
<1>7. ASSUME NEW d \in Client, NEW r \in Slot, Ack(d, r) PROVE got'[c] \in issued'
  BY <1>7, <1>1 DEF Ack, memory, history
<1> QED
  BY <1>2, <1>3, <1>4, <1>5, <1>6, <1>7 DEF Next

(* So an acknowledgement of a pending record begins with that only.         *)
LEMMA AckIssuedStep ==
  TypeOK /\ Running /\ HeldIssued /\ AckIssued /\ [Next]_vars => AckIssued'
<1> DEFINE Known(s) == Acking(s) /\ Activatable(task[s].client, task[s].gen)
                         => task[s].gen \in issued
           NotNew(c) == Pending(c)' => Pending(c) /\ file'[c].gen = file[c].gen
<1> SUFFICES ASSUME TypeOK, Running, HeldIssued, AckIssued, [Next]_vars, NEW s \in Slot
             PROVE  Known(s)'
  BY DEF AckIssued
<1>a. Known(s)
  BY DEF AckIssued
<1> USE DEF Acking, Activatable
<1>2. ASSUME \A d \in Client : NotNew(d), issued \subseteq issued',
             \/ task'[s] = task[s]
             \/ task'[s] = None
             \/ task'[s].kind \in {"pair", "discard"}
      PROVE  Known(s)'
  <2>1. CASE task'[s] = task[s] /\ task[s] # None
    <3>1. task[s].client \in Client
      BY <2>1 DEF TypeOK, Task
    <3> QED
      BY <1>a, <1>2, <2>1, <3>1
  <2> QED
    BY <1>2, <2>1
<1>3. CASE Serve
  BY <1>3, Absent DEF Serve, Running
<1>4. CASE Halt \/ UNCHANGED vars
  <2>1. UNCHANGED <<issued, file>>
    BY <1>4 DEF Halt, vars, memory, client, history
  <2>2. task'[s] = task[s] \/ task'[s] = None
    BY <1>4 DEF Halt, vars
  <2> QED
    BY <1>2, <2>1, <2>2 DEF Pending
<1>5. ASSUME NEW r \in Slot, Expire(r) \/ Shutdown(r) PROVE Known(s)'
  <2>1. /\ UNCHANGED <<file, issued>>
        /\ \/ task' = task
           \/ task' = [task EXCEPT ![r] = [kind |-> "discard", client |-> reserved, gen |-> reservedId]]
    BY <1>5 DEF Expire, Shutdown, DiscardPending, Begin, client, memory, history
  <2>2. task'[s] = task[s] \/ task'[s].kind = "discard"
    BY <2>1 DEF TypeOK
  <2> QED
    BY <1>2, <2>1, <2>2 DEF Pending
<1>6. ASSUME NEW r \in Slot, Discard(r) \/ Activate(r) \/ TaskFails(r)
      PROVE  Known(s)'
  <2>1. /\ issued' = issued
        /\ task' = [task EXCEPT ![r] = None]
    BY <1>6 DEF Discard, Activate, TaskFails, End, client, memory, history
  <2>2. task'[s] = task[s] \/ task'[s] = None
    BY <2>1 DEF TypeOK
  <2>3. ASSUME NEW d \in Client PROVE NotNew(d)
    <3>1. CASE Discard(r)
      BY <3>1, Absent DEF Discard, Pending, TypeOK
    <3>2. CASE Activate(r)
      <4> DEFINE e == task[r].client
      <4>1. /\ file[e] \in Record /\ e \in Client
            /\ file' = [file EXCEPT ![e] = [file[e] EXCEPT !.status = "active"]]
        BY <3>2 DEF Activate, End, Pending, TypeOK, Task
      <4>2. [file[e] EXCEPT !.status = "active"].status = "active"
        BY <4>1 DEF Record
      <4> QED
        BY <4>1, <4>2 DEF Pending, TypeOK
    <3>3. CASE TaskFails(r)
      BY <3>3 DEF TaskFails, Pending
    <3> QED
      BY <1>6, <3>1, <3>2, <3>3
  <2> QED
    BY <1>2, <2>1, <2>2, <2>3
<1>7. ASSUME NEW r \in Slot, CommitPair(r) PROVE Known(s)'
  <2> DEFINE d == task[r].client
  <2>1. d \in Client
    BY <1>7 DEF CommitPair, End, TypeOK, Task
  <2>2. PICK g \in IF Retried(d) THEN {file[d].gen} ELSE NextGen :
          /\ file' = [Swept(d) EXCEPT ![d] =
                         IF Retried(d) THEN file[d]
                         ELSE [gen |-> g, status |-> "pending", fresh |-> TRUE, by |-> session]]
          /\ issued' = issued \cup {g}
    BY <1>7 DEF CommitPair
  <2>3. task' = [task EXCEPT ![r] = None]
    BY <1>7 DEF CommitPair, End
  <2>5. file'[d].gen = g
    BY <2>1, <2>2 DEF Swept
  <2>6. ASSUME NEW e \in Client, e # d PROVE NotNew(e)
    BY <2>1, <2>2, <2>6 DEF Swept, Pending
  <2>7. task'[s] = task[s] \/ task'[s] = None
    BY <2>3 DEF TypeOK
  <2>8. CASE task'[s] # None /\ task[s].client = d
    BY <2>2, <2>5, <2>7, <2>8
  <2>9. CASE task'[s] # None /\ task[s].client # d
    <3>1. task[s].client \in Client /\ task'[s] = task[s]
      BY <2>7, <2>9 DEF TypeOK, Task
    <3>2. NotNew(task[s].client)
      BY <2>6, <2>9, <3>1
    <3> QED
      BY <1>a, <2>2, <3>1, <3>2
  <2> QED
    BY <2>7, <2>8, <2>9
<1>8. ASSUME NEW r \in Slot, CheckAck(r) PROVE Known(s)'
  <2>1. UNCHANGED <<file, issued>>
    BY <1>8 DEF CheckAck, client, memory, history
  <2>2. CASE s = r
    <3>1. /\ task[s] \in Task /\ task[s].kind = "ack" /\ task[s] # None
          /\ task'[s] = [task[s] EXCEPT !.kind = "activate"]
      BY <1>8, <2>2 DEF CheckAck, TypeOK
    <3>2. task'[s].gen = task[s].gen /\ task'[s].client = task[s].client
      BY <3>1 DEF Task
    <3> QED
      BY <1>a, <2>1, <3>1, <3>2 DEF Pending
  <2>3. CASE s # r
    <3>1. task'[s] = task[s]
      BY <1>8, <2>3 DEF CheckAck, TypeOK
    <3> QED
      BY <1>2, <2>1, <3>1 DEF Pending
  <2> QED
    BY <2>2, <2>3
<1>9. ASSUME NEW d \in Client, Store(d) \/ GiveUp(d) \/ GrowStale(d) \/ Revoke(d)
      PROVE  Known(s)'
  <2>1. UNCHANGED <<task, issued>>
    BY <1>9 DEF Store, GiveUp, GrowStale, Revoke, client, memory, history
  <2>2. ASSUME NEW e \in Client PROVE NotNew(e)
    <3>1. CASE GrowStale(d)
      <4>1. file[d] \in Record /\ file' = [file EXCEPT ![d] = [file[d] EXCEPT !.fresh = FALSE]]
        BY <3>1 DEF GrowStale, Pending, TypeOK
      <4>2. /\ [file[d] EXCEPT !.fresh = FALSE].gen = file[d].gen
            /\ [file[d] EXCEPT !.fresh = FALSE].status = file[d].status
        BY <4>1 DEF Record
      <4> QED
        BY <3>1, <4>1, <4>2 DEF GrowStale, Pending, TypeOK
    <3>2. CASE ~GrowStale(d)
      BY <1>9, <3>2 DEF Store, GiveUp, Revoke, Pending, TypeOK
    <3> QED
      BY <3>1, <3>2
  <2> QED
    BY <1>2, <2>1, <2>2
<1>10. ASSUME NEW d \in Client, NEW r \in Slot, Pair(d, r) PROVE Known(s)'
  <2>1. /\ UNCHANGED <<file, issued>>
        /\ task' = [task EXCEPT ![r] = [kind |-> "pair", client |-> d, gen |-> None]]
    BY <1>10 DEF Pair, Begin
  <2>3. task'[s] = task[s] \/ task'[s].kind = "pair"
    BY <2>1 DEF TypeOK
  <2> QED
    BY <1>2, <2>1, <2>3 DEF Pending
<1>11. ASSUME NEW d \in Client, NEW r \in Slot, Ack(d, r) PROVE Known(s)'
  <2>1. /\ UNCHANGED <<file, issued>> /\ Authenticate(d)
        /\ task' = [task EXCEPT ![r] = [kind |-> "ack", client |-> d, gen |-> got[d]]]
    BY <1>11 DEF Ack, Begin, client, memory, history
  <2>2. CASE s = r
    <3>1. task'[s] = [kind |-> "ack", client |-> d, gen |-> got[d]]
      BY <2>1, <2>2 DEF TypeOK
    <3>2. got[d] # None
      BY <2>1, Absent DEF Authenticate, TypeOK, Record
    <3>3. Pending(d) => got[d] \in issued
      BY <2>1, <3>2 DEF Authenticate, Pending, HeldIssued
    <3> QED
      BY <2>1, <3>1, <3>3 DEF Pending
  <2>3. CASE s # r
    <3>1. task'[s] = task[s]
      BY <2>1, <2>3 DEF TypeOK
    <3> QED
      BY <1>2, <2>1, <3>1 DEF Pending
  <2> QED
    BY <2>2, <2>3
<1> QED
  BY <1>3, <1>4, <1>5, <1>6, <1>7, <1>8, <1>9, <1>10, <1>11 DEF Next
------------------------------------------------------------------------------
(* As long as no shutdown has begun, a handler passes the check of the      *)
(* window only for the client that holds it, and the first to activate      *)
(* leaves the others nothing to activate.                                   *)
LEMMA WindowUseStep ==
  TypeOK /\ Running /\ WindowUse /\ [Next]_vars => WindowUse'
<1> DEFINE Due(f, s) == /\ f[task[s].client] # None
                        /\ f[task[s].client].status = "pending"
                        /\ f[task[s].client].gen = task[s].gen
           NotAnew(s) == Due(file', s) => Due(file, s)
<1> SUFFICES ASSUME TypeOK, Running, WindowUse, [Next]_vars, ~stopping'
             PROVE  OneClient'
  BY DEF WindowUse
<1> USE DEF Past, WindowOpen
<1>1. ASSUME ~stopping, UNCHANGED <<window, consumed, uses>>,
             window = "open" => reserved' = reserved,
             \A s \in Slot : \/ task'[s] = None
                             \/ task'[s] = task[s] /\ NotAnew(s)
                             \/ task'[s].kind = "ack"
      PROVE  OneClient'
  <2>1. OneClient
    BY <1>1 DEF WindowUse
  <2>2. \A s \in Slot : Past(s)' => Past(s) /\ task'[s] = task[s]
    BY <1>1
  <2>3. consumed' => \A s \in Slot : (task[s] # None /\ task[s].kind = "activate"
                       => ~Activatable(task[s].client, task[s].gen))'
    BY <1>1, <2>1, <2>2 DEF OneClient, Activatable, Pending
  <2>4. window' = "open" => \A s \in Slot : task'[s] = None \/ task'[s].kind # "discard"
    BY <1>1, <2>1 DEF OneClient
  <2> QED
    BY <1>1, <2>1, <2>2, <2>3, <2>4 DEF OneClient
<1>2. CASE Serve
  BY <1>2 DEF Serve, Running, OneClient
<1>3. CASE Halt
  BY <1>3, <1>1 DEF Halt, memory, history
<1>4. ASSUME NEW r \in Slot, Expire(r) PROVE OneClient'
  <2>1. /\ window' = "expired" /\ OneClient
        /\ UNCHANGED <<file, consumed, uses>>
        /\ \/ task' = task
           \/ task[r] = None /\ task' = [task EXCEPT ![r] =
                [kind |-> "discard", client |-> reserved, gen |-> reservedId]]
    BY <1>4 DEF Expire, DiscardPending, Begin, memory, history, WindowUse
  <2>2. \A s \in Slot : Past(s)' => Past(s) /\ task'[s] = task[s]
    BY <2>1 DEF TypeOK
  <2> QED
    BY <2>1, <2>2 DEF OneClient, Activatable, Pending
<1>5. ASSUME NEW r \in Slot, Shutdown(r) PROVE OneClient'
  BY <1>5 DEF Shutdown
<1>6. ASSUME NEW r \in Slot, Discard(r) PROVE OneClient'
  <2>1. /\ ~stopping /\ window # "open" /\ UNCHANGED <<window, consumed, uses>>
        /\ task' = [task EXCEPT ![r] = None]
    BY <1>6 DEF Discard, End, server, history, WindowUse, OneClient
  <2>2. ASSUME NEW s \in Slot, task[s] # None PROVE NotAnew(s)
    BY <1>6, <2>2, Absent DEF Discard, Activatable, Pending, TypeOK, Task
  <2> QED
    BY <1>1, <2>1, <2>2 DEF TypeOK
<1>7. ASSUME NEW r \in Slot, CommitPair(r) PROVE OneClient'
  <2> DEFINE d == task[r].client
  <2>1. /\ ~stopping /\ UNCHANGED <<window, consumed, uses, reserved>>
        /\ task' = [task EXCEPT ![r] = None] /\ d \in Client
    BY <1>7 DEF CommitPair, End, server, TypeOK, Task
  <2>2. PICK g \in IF Retried(d) THEN {file[d].gen} ELSE NextGen :
          file' = [Swept(d) EXCEPT ![d] =
                     IF Retried(d) THEN file[d]
                     ELSE [gen |-> g, status |-> "pending", fresh |-> TRUE, by |-> session]]
    BY <1>7 DEF CommitPair
  <2>3. ASSUME NEW s \in Slot, task[s] # None PROVE NotAnew(s)
    <3>1. task[s].client \in Client
      BY <2>3 DEF TypeOK, Task
    <3>2. CASE task[s].client # d
      <4>1. file'[task[s].client] \in {file[task[s].client], None}
        BY <2>1, <2>2, <3>1, <3>2 DEF Swept
      <4> QED
        BY <4>1
    <3>3. CASE task[s].client = d /\ Retried(d)
      BY <2>1, <2>2, <3>3 DEF Swept
    <3>4. CASE task[s].client = d /\ ~Retried(d)
      <4>1. file'[d].gen = g
        BY <2>1, <2>2, <3>4 DEF Swept
      <4>2. task[s].gen # g
        BY <2>1, <2>2, <2>3, <3>4, Written
      <4> QED
        BY <3>4, <4>1, <4>2
    <3> QED
      BY <3>2, <3>3, <3>4
  <2> QED
    BY <1>1, <2>1, <2>3 DEF TypeOK
<1>8. ASSUME NEW r \in Slot, CheckAck(r) PROVE OneClient'
  <2>1. /\ OneClient /\ WindowOpen /\ reserved = task[r].client
        /\ UNCHANGED <<window, consumed, uses, reserved>>
        /\ task' = [task EXCEPT ![r] = [task[r] EXCEPT !.kind = "activate"]]
        /\ task[r] \in Task
    BY <1>8 DEF CheckAck, server, memory, history, WindowUse, TypeOK
  <2>2. /\ [task[r] EXCEPT !.kind = "activate"].kind = "activate"
        /\ [task[r] EXCEPT !.kind = "activate"].client = reserved
    BY <2>1 DEF Task
  <2>3. \A s \in Slot : Past(s)' => task'[s].client = reserved
    BY <2>1, <2>2 DEF OneClient, TypeOK
  <2>4. \A s \in Slot : task'[s] = None \/ task'[s].kind # "discard"
    BY <2>1, <2>2 DEF OneClient, TypeOK
  <2> QED
    BY <2>1, <2>3, <2>4 DEF OneClient
<1>9. ASSUME NEW r \in Slot, Activate(r) PROVE OneClient'
  <2> DEFINE c == task[r].client
  <2>1. /\ OneClient /\ c \in Client /\ file[c] \in Record /\ Past(r)
        /\ task[r] # None /\ task[r].kind = "activate"
        /\ Activatable(c, task[r].gen)
        /\ window' = window /\ consumed' = TRUE /\ uses' = uses + 1
        /\ task' = [task EXCEPT ![r] = None]
        /\ file' = [file EXCEPT ![c] = [file[c] EXCEPT !.status = "active"]]
    BY <1>9 DEF Activate, End, server, Activatable, Pending, WindowUse, TypeOK, Task
  <2>2. ~consumed /\ uses' = 1
    BY <2>1 DEF OneClient
  <2>3. \A s \in Slot : task'[s] # None => task'[s] = task[s]
    BY <2>1 DEF TypeOK
  <2>4. \A s \in Slot : Past(s)' => task'[s].client = c
    BY <2>1, <2>3 DEF OneClient
  <2>5. file'[c].status = "active"
    <3>1. [file[c] EXCEPT !.status = "active"].status = "active"
      BY <2>1 DEF Record
    <3> QED
      BY <2>1, <3>1 DEF TypeOK
  <2>6. \A s \in Slot : (task[s] # None /\ task[s].kind = "activate"
                            => ~Activatable(task[s].client, task[s].gen))'
    BY <2>4, <2>5 DEF Activatable, Pending
  <2>7. window' = "open" => \A s \in Slot : task'[s] = None \/ task'[s].kind # "discard"
    BY <2>1, <2>3 DEF OneClient
  <2> QED
    BY <2>1, <2>2, <2>4, <2>6, <2>7 DEF OneClient
<1>10. ASSUME NEW r \in Slot, TaskFails(r) PROVE OneClient'
  BY <1>10, <1>1 DEF TaskFails, server, memory, history, Activatable, Pending, TypeOK
<1>11. ASSUME NEW d \in Client, Store(d) \/ GiveUp(d) \/ GrowStale(d) \/ Revoke(d)
       PROVE  OneClient'
  <2>1. UNCHANGED <<stopping, window, task, consumed, uses, reserved>>
    BY <1>11 DEF Store, GiveUp, GrowStale, Revoke, server, memory, history
  <2>2. ASSUME NEW s \in Slot, task[s] # None PROVE NotAnew(s)
    <3>1. CASE GrowStale(d)
      <4>1. file[d] \in Record /\ file' = [file EXCEPT ![d] = [file[d] EXCEPT !.fresh = FALSE]]
        BY <3>1 DEF GrowStale, Pending, TypeOK
      <4>2. /\ [file[d] EXCEPT !.fresh = FALSE].gen = file[d].gen
            /\ [file[d] EXCEPT !.fresh = FALSE].status = file[d].status
        BY <4>1 DEF Record
      <4> QED
        BY <2>2, <3>1, <4>1, <4>2 DEF GrowStale, Activatable, Pending, TypeOK, Task
    <3>2. CASE ~GrowStale(d)
      BY <1>11, <2>2, <3>2 DEF Store, GiveUp, Revoke, Activatable, Pending, TypeOK, Task
    <3> QED
      BY <3>1, <3>2
  <2> QED
    BY <1>1, <2>1, <2>2
<1>12. ASSUME NEW d \in Client, NEW r \in Slot, Pair(d, r) PROVE OneClient'
  <2> DEFINE t == [kind |-> "pair", client |-> d, gen |-> None]
  <2>1. /\ OneClient /\ WindowOpen /\ reserved \in {None, d} /\ reserved' = d
        /\ UNCHANGED <<window, consumed, uses>>
        /\ task' = [task EXCEPT ![r] = t]
    BY <1>12 DEF Pair, Begin, server, WindowUse
  <2>2. \A s \in Slot : Past(s)' => task'[s].client = d
    <3>1. \A s \in Slot : Past(s) => task[s].client = d
      BY <2>1, Absent DEF OneClient, TypeOK, Task
    <3> QED
      BY <2>1, <3>1 DEF TypeOK
  <2>3. \A s \in Slot : task'[s] = None \/ task'[s].kind # "discard"
    BY <2>1 DEF OneClient, TypeOK
  <2> QED
    BY <2>1, <2>2, <2>3 DEF OneClient
<1>13. ASSUME NEW d \in Client, NEW r \in Slot, Ack(d, r) PROVE OneClient'
  BY <1>13, <1>1 DEF Ack, Begin, server, memory, history, Activatable, Pending, TypeOK
<1>14. CASE UNCHANGED vars
  BY <1>14, <1>1 DEF vars, server, memory, history, Activatable, Pending
<1> QED
  BY <1>2, <1>3, <1>4, <1>5, <1>6, <1>7, <1>8, <1>9, <1>10, <1>11, <1>12, <1>13, <1>14 DEF Next
------------------------------------------------------------------------------
LEMMA ActiveWasStoredStep ==
  TypeOK /\ AckStored /\ ActiveWasStored /\ [Next]_vars => ActiveWasStored'
<1> DEFINE Was(c) == file[c] # None /\ file[c].status = "active" => file[c].gen \in stored[c]
<1> SUFFICES ASSUME TypeOK, AckStored, ActiveWasStored, [Next]_vars, NEW c \in Client
             PROVE  Was(c)'
  BY DEF ActiveWasStored
<1>a. Was(c)
  BY DEF ActiveWasStored
<1>1. ASSUME stored[c] \subseteq stored'[c],
             file'[c] \in {file[c], None} \/ file'[c].status = "pending"
      PROVE  Was(c)'
  BY <1>1, <1>a
<1>2. CASE Serve \/ Halt \/ UNCHANGED vars
  BY <1>2, <1>1 DEF Serve, Halt, vars, client
<1>3. ASSUME NEW r \in Slot, Expire(r) \/ Shutdown(r) \/ CheckAck(r) \/ TaskFails(r)
      PROVE  Was(c)'
  BY <1>3, <1>1 DEF Expire, Shutdown, CheckAck, TaskFails, client
<1>4. ASSUME NEW r \in Slot, Discard(r) PROVE Was(c)'
  BY <1>4, <1>1 DEF Discard, client, TypeOK
<1>5. ASSUME NEW r \in Slot, CommitPair(r) PROVE Was(c)'
  <2> DEFINE d == task[r].client
  <2>1. PICK g \in IF Retried(d) THEN {file[d].gen} ELSE NextGen :
          file' = [Swept(d) EXCEPT ![d] =
                     IF Retried(d) THEN file[d]
                     ELSE [gen |-> g, status |-> "pending", fresh |-> TRUE, by |-> session]]
    BY <1>5 DEF CommitPair
  <2>2. file'[c] \in {file[c], None} \/ file'[c].status = "pending"
    BY <2>1 DEF Swept
  <2> QED
    BY <1>5, <1>1, <2>2 DEF CommitPair
<1>6. ASSUME NEW r \in Slot, Activate(r) PROVE Was(c)'
  <2> DEFINE d == task[r].client
  <2>1. /\ d \in Client /\ file[d] \in Record /\ file[d].gen = task[r].gen
        /\ task[r].gen \in stored[d] /\ stored' = stored
        /\ file' = [file EXCEPT ![d] = [file[d] EXCEPT !.status = "active"]]
    BY <1>6 DEF Activate, End, Activatable, Pending, AckStored, Acking, TypeOK, Task
  <2>2. [file[d] EXCEPT !.status = "active"].gen = file[d].gen
    BY <2>1 DEF Record
  <2> QED
    BY <1>a, <2>1, <2>2 DEF TypeOK
<1>7. ASSUME NEW d \in Client, Store(d) \/ GiveUp(d) \/ Revoke(d) PROVE Was(c)'
  BY <1>7, <1>1 DEF Store, GiveUp, Revoke, client, TypeOK
<1>8. ASSUME NEW d \in Client, GrowStale(d) PROVE Was(c)'
  <2>1. /\ file[d] \in Record /\ file[d].status = "pending" /\ stored' = stored
        /\ file' = [file EXCEPT ![d] = [file[d] EXCEPT !.fresh = FALSE]]
    BY <1>8 DEF GrowStale, Pending, client, TypeOK
  <2>2. [file[d] EXCEPT !.fresh = FALSE].status = "pending"
    BY <2>1 DEF Record
  <2> QED
    BY <1>1, <2>1, <2>2 DEF TypeOK
<1>9. ASSUME NEW d \in Client, NEW r \in Slot, Pair(d, r) \/ Ack(d, r) PROVE Was(c)'
  BY <1>9, <1>1 DEF Pair, Ack, client
<1> QED
  BY <1>2, <1>3, <1>4, <1>5, <1>6, <1>7, <1>8, <1>9 DEF Next

------------------------------------------------------------------------------
(* An active record is changed by a pair request of its own client or by a  *)
(* revocation only, and both end the trust; a pair command that succeeds    *)
(* was waiting for the handler that activated what it holds itself.         *)
LEMMA TrustKeptStep ==
  TypeOK /\ Connected /\ InHand /\ TrustKept /\ [Next]_vars => TrustKept'
<1> DEFINE Good(c) == trust[c] # None =>
             /\ file[c] # None /\ file[c].status = "active" /\ file[c].gen = trust[c]
             /\ peer[c] = trust[c]
<1> SUFFICES ASSUME TypeOK, Connected, InHand, TrustKept, [Next]_vars, NEW c \in Client
             PROVE  Good(c)'
  BY DEF TrustKept
<1>a. Good(c)
  BY DEF TrustKept
<1>1. ASSUME trust'[c] \in {trust[c], None},
             trust[c] = None \/ peer'[c] = peer[c],
             file'[c] = file[c] \/ Pending(c)
      PROVE  Good(c)'
  BY <1>1, <1>a DEF Pending
<1>2. CASE Serve \/ Halt \/ UNCHANGED vars
  BY <1>2, <1>1 DEF Serve, Halt, vars, client, history
<1>3. ASSUME NEW r \in Slot, Expire(r) \/ Shutdown(r) \/ CheckAck(r) \/ TaskFails(r)
      PROVE  Good(c)'
  BY <1>3, <1>1 DEF Expire, Shutdown, CheckAck, TaskFails, client, history
<1>4. ASSUME NEW r \in Slot, Discard(r) PROVE Good(c)'
  BY <1>4, <1>1 DEF Discard, client, history, TypeOK
<1>5. ASSUME NEW r \in Slot, CommitPair(r) PROVE Good(c)'
  <2> DEFINE d == task[r].client
  <2>1. PICK g \in IF Retried(d) THEN {file[d].gen} ELSE NextGen :
          /\ file' = [Swept(d) EXCEPT ![d] =
                        IF Retried(d) THEN file[d]
                        ELSE [gen |-> g, status |-> "pending", fresh |-> TRUE, by |-> session]]
          /\ trust' = [trust EXCEPT ![d] = None]
    BY <1>5 DEF CommitPair
  <2>2. CASE c = d
    BY <2>1, <2>2 DEF TypeOK
  <2>3. CASE c # d
    <3>1. trust'[c] = trust[c] /\ (file'[c] = file[c] \/ Pending(c))
      BY <2>1, <2>3 DEF Swept, TypeOK
    <3> QED
      BY <1>5, <1>1, <3>1 DEF CommitPair
  <2> QED
    BY <2>2, <2>3
<1>6. ASSUME NEW r \in Slot, Activate(r) PROVE Good(c)'
  <2> DEFINE d == task[r].client
  <2>1. /\ d \in Client /\ file[d] \in Record /\ Pending(d) /\ file[d].gen = task[r].gen
        /\ task[r] # None /\ task[r].kind = "activate" /\ peer' = peer
        /\ file' = [file EXCEPT ![d] = [file[d] EXCEPT !.status = "active"]]
        /\ trust' = [trust EXCEPT ![d] = IF Waits(d, r) THEN task[r].gen ELSE trust[d]]
    BY <1>6 DEF Activate, End, Activatable, Pending, TypeOK, Task
  <2>2. CASE c # d \/ ~Waits(d, r)
    <3>1. trust'[c] = trust[c] /\ (file'[c] = file[c] \/ Pending(c))
      BY <2>1, <2>2 DEF TypeOK
    <3> QED
      BY <1>1, <2>1, <3>1
  <2>3. CASE c = d /\ Waits(d, r)
    <3>1. Serves(r, c)
      BY <2>3, Absent DEF Connected, Waits
    <3>2. peer[c] = task[r].gen
      BY <2>1, <3>1 DEF Serves, InHand
    <3>3. /\ [file[d] EXCEPT !.status = "active"].gen = file[d].gen
          /\ [file[d] EXCEPT !.status = "active"].status = "active"
          /\ [file[d] EXCEPT !.status = "active"] \in Record
      BY <2>1 DEF Record
    <3> QED
      BY <2>1, <2>3, <3>2, <3>3, Absent DEF TypeOK
  <2> QED
    BY <2>2, <2>3
<1>7. ASSUME NEW d \in Client, Store(d) PROVE Good(c)'
  <2>1. trust[d] = None
    BY <1>7 DEF Store, InHand
  <2> QED
    BY <1>7, <1>1, <2>1 DEF Store, history, TypeOK
<1>8. ASSUME NEW d \in Client, GiveUp(d) \/ GrowStale(d) PROVE Good(c)'
  BY <1>8, <1>1 DEF GiveUp, GrowStale, client, history, TypeOK
<1>9. ASSUME NEW d \in Client, Revoke(d) PROVE Good(c)'
  BY <1>9, <1>a DEF Revoke, client, TypeOK
<1>10. ASSUME NEW d \in Client, NEW r \in Slot, Pair(d, r) \/ Ack(d, r) PROVE Good(c)'
  BY <1>10, <1>1 DEF Pair, Ack, history, TypeOK
<1> QED
  BY <1>2, <1>3, <1>4, <1>5, <1>6, <1>7, <1>8, <1>9, <1>10 DEF Next

------------------------------------------------------------------------------
(* Every run of LanPairing satisfies the inductive invariant: what is       *)
(* waiting, held and stored fit together as the source's order of checks    *)
(* and writes intends.                                                      *)
THEOREM InductiveInvariant == Spec => []IInv
<1>1. IInv /\ [Next]_vars => IInv'
  BY TypeStep, RunningStep, ConnectedStep, InHandStep, AckStoredStep, HeldIssuedStep,
     AckIssuedStep, WindowUseStep, ActiveWasStoredStep, TrustKeptStep DEF IInv
<1> QED
  BY InitIInv, <1>1, PTL DEF Spec

(* All variables keep their types: the records and reservations that the    *)
(* coordinator and the state file hold, and what the clients hold.          *)
THEOREM TypeCorrect == Spec => []TypeOK
<1>1. IInv => TypeOK
  BY DEF IInv
<1> QED
  BY <1>1, InductiveInvariant, PTL

(* For any number of clients and handlers, a pairing window authorizes one  *)
(* client once as long as no shutdown has begun: acknowledgePairing looks   *)
(* at the window before it waits for the state file, and what it writes     *)
(* after that is of the one client that held the window.                    *)
THEOREM OneUseHolds == Spec => []OneUse
<1>1. IInv => OneUse
  BY DEF IInv, WindowUse, OneClient, OneUse
<1> QED
  BY <1>1, InductiveInvariant, PTL

(* An active record of the server's state file names a credential that its  *)
(* client has stored: beforeAcknowledge is awaited before the               *)
(* acknowledgement is sent.                                                 *)
THEOREM StoredFirst == Spec => []ActiveWasStored
<1>1. IInv => ActiveWasStored
  BY DEF IInv
<1> QED
  BY <1>1, InductiveInvariant, PTL

(* A pair command that succeeded stays good until its client pairs again or *)
(* is revoked: discardPendingPairing and the sweep of a pair request touch  *)
(* pending records only.                                                    *)
THEOREM TrustHolds == Spec => []TrustKept
<1>1. IInv => TrustKept
  BY DEF IInv
<1> QED
  BY <1>1, InductiveInvariant, PTL

(* A pending record becomes active only with a credential that this run of  *)
(* the server sent or wrote: authenticate lets a pending client acknowledge *)
(* only while it holds the reservation, which no run inherits.              *)
THEOREM IssuedOnly == Spec => ActivatesOnlyIssued
<1>1. ASSUME IInv, [Next]_vars PROVE [Issuing]_vars
  <2> SUFFICES ASSUME NEW c \in Client, Pending(c), file'[c] # None,
                      file'[c].status = "active"
               PROVE  file[c].gen \in issued
    BY DEF Issuing
  <2>1. TypeOK /\ AckIssued
    BY <1>1 DEF IInv
  <2>2. \E r \in Slot : Activate(r)
    <3>1. file'[c] # file[c]
      BY DEF Pending
    <3>2. ASSUME NEW r \in Slot, CommitPair(r) PROVE FALSE
      <4> DEFINE d == task[r].client
      <4>1. PICK g \in IF Retried(d) THEN {file[d].gen} ELSE NextGen :
              file' = [Swept(d) EXCEPT ![d] =
                         IF Retried(d) THEN file[d]
                         ELSE [gen |-> g, status |-> "pending", fresh |-> TRUE, by |-> session]]
        BY <3>2 DEF CommitPair
      <4>2. file'[c] \in {file[c], None} \/ file'[c].status = "pending"
        BY <4>1 DEF Swept
      <4> QED
        BY <3>1, <4>2
    <3>3. ASSUME NEW r \in Slot, Discard(r) PROVE FALSE
      BY <2>1, <3>1, <3>3 DEF Discard, TypeOK
    <3>4. ASSUME NEW d \in Client, Revoke(d) PROVE FALSE
      BY <2>1, <3>1, <3>4 DEF Revoke, TypeOK
    <3>5. ASSUME NEW d \in Client, GrowStale(d) PROVE FALSE
      <4>1. /\ file[d] \in Record /\ file[d].status = "pending"
            /\ file' = [file EXCEPT ![d] = [file[d] EXCEPT !.fresh = FALSE]]
        BY <2>1, <3>5 DEF GrowStale, Pending, TypeOK
      <4>2. [file[d] EXCEPT !.fresh = FALSE].status = "pending"
        BY <4>1 DEF Record
      <4> QED
        BY <2>1, <3>1, <4>1, <4>2 DEF TypeOK
    <3> QED
      BY <1>1, <3>1, <3>2, <3>3, <3>4, <3>5
      DEF Next, vars, Serve, Halt, Expire, Shutdown, CheckAck, TaskFails, Store, GiveUp,
          Pair, Ack
  <2>3. PICK r \in Slot : Activate(r)
    BY <2>2
  <2> DEFINE d == task[r].client
  <2>4. /\ d \in Client /\ file[d].gen = task[r].gen /\ Acking(r) /\ Activatable(d, task[r].gen)
        /\ file' = [file EXCEPT ![d] = [file[d] EXCEPT !.status = "active"]]
    BY <2>1, <2>3 DEF Activate, End, Activatable, Pending, Acking, TypeOK, Task
  <2>5. c = d
    BY <2>1, <2>4 DEF Pending, TypeOK
  <2> QED
    BY <2>1, <2>4, <2>5 DEF AckIssued
<1> QED
  BY <1>1, InductiveInvariant, PTL DEF Spec, ActivatesOnlyIssued
===============================================================================
