------------------------------ MODULE LanPairing ------------------------------
(****************************************************************************)
(* Pairing of clients with one LAN server: src/lan/coordinator.ts behind    *)
(* the two pairing routes of src/lan/server.ts, the client's half in        *)
(* src/lan/client.ts and src/cli/lan-commands.ts, and the server's state    *)
(* file. A handler checks the coordinator's memory, waits for the state     *)
(* file's lock, and writes the file; others run in between. A client may    *)
(* give up at any time and start anew while its old request is still being  *)
(* handled. The server may end at any time and be started again. The state  *)
(* file's own lock is taken to exclude; a write may fail. Signatures and    *)
(* the capability of the offer are taken to be right.                       *)
(****************************************************************************)
EXTENDS Naturals

CONSTANTS
  Client,      \* client machines, each running one pair command at a time
  Slot,        \* handlers that the server can have under way: a bound
  MaxGen,      \* bound on the credentials that are ever drawn
  MaxSession,  \* bound on the server's runs
  None

ASSUME BoundAssumption == MaxGen \in Nat /\ MaxSession \in Nat
ASSUME NoneAssumption == None \notin Client \cup Slot \cup (1 .. MaxGen)

Gen == 1 .. MaxGen

(* An authorized client: a secret and a pairing id are drawn together and   *)
(* are one number here; fresh is whether a pending record is younger than   *)
(* PAIRING_TTL_MS, by the run that wrote it. What waits in the server:      *)
(* "pair" and "activate" for the state file, "ack" for the rest of the      *)
(* request, "discard" for the state file too.                               *)
Record == [gen : Gen, status : {"pending", "active"}, fresh : BOOLEAN,
           by : 1 .. MaxSession]
Task == [kind : {"pair", "ack", "activate", "discard"}, client : Client,
         gen : Gen \cup {None}]
ASSUME AbsentAssumption == None \notin Record \cup Task

VARIABLES
  file,      \* authorizedClients of the state file
  session,   \* number of the server's run
  up,        \* whether it is running
  window,    \* its pairing window
  stopping,  \* whether the shutdown has begun
  reserved, reservedId, consumed,   \* the coordinator's memory
  task,      \* what is under way in the server
  phase,     \* where each client's pair command stands
  conn,      \* the handler that each client waits for
  got,       \* the credential it was sent
  peer,      \* the credential in its own state file
  issued,    \* history: credentials this run has sent or written
  uses,      \* history: how often this run's window has authorized a client
  trust,     \* history: the credential of a pair command that succeeded last
  stored     \* history: every credential each client has stored

server == <<session, up, window, stopping>>
memory == <<reserved, reservedId, consumed>>
client == <<phase, conn, got, peer, stored>>
history == <<issued, uses, trust>>
vars == <<file, server, memory, task, client, history>>

TypeOK ==
  /\ file \in [Client -> Record \cup {None}]
  /\ session \in 0 .. MaxSession
  /\ up \in BOOLEAN
  /\ window \in {"open", "expired"}
  /\ stopping \in BOOLEAN
  /\ reserved \in Client \cup {None}
  /\ reservedId \in Gen \cup {None}
  /\ consumed \in BOOLEAN
  /\ task \in [Slot -> Task \cup {None}]
  /\ phase \in [Client -> {"idle", "pair", "store", "stored", "ack"}]
  /\ conn \in [Client -> Slot \cup {None}]
  /\ got \in [Client -> Gen \cup {None}]
  /\ peer \in [Client -> Gen \cup {None}]
  /\ issued \in SUBSET Gen
  /\ uses \in Nat
  /\ trust \in [Client -> Gen \cup {None}]
  /\ stored \in [Client -> SUBSET Gen]

Init ==
  /\ file = [c \in Client |-> None]
  /\ session = 0 /\ up = FALSE /\ window = "expired" /\ stopping = FALSE
  /\ reserved = None /\ reservedId = None /\ consumed = FALSE
  /\ task = [s \in Slot |-> None]
  /\ phase = [c \in Client |-> "idle"]
  /\ conn = [c \in Client |-> None]
  /\ got = [c \in Client |-> None]
  /\ peer = [c \in Client |-> None]
  /\ issued = {} /\ uses = 0
  /\ trust = [c \in Client |-> None]
  /\ stored = [c \in Client |-> {}]

------------------------------------------------------------------------------
Pending(c) == file[c] # None /\ file[c].status = "pending"
WindowOpen == window = "open" /\ ~consumed

Begin(s, t) == task[s] = None /\ task' = [task EXCEPT ![s] = t]
End(s, kind) == /\ task[s] # None /\ task[s].kind = kind
                /\ task' = [task EXCEPT ![s] = None]

(* The client that waits for handler s, if it still waits, goes on to p.    *)
Waits(c, s) == conn[c] = s
Answer(s, p) ==
  /\ phase' = [c \in Client |-> IF Waits(c, s) THEN p ELSE phase[c]]
  /\ conn' = [c \in Client |-> IF Waits(c, s) THEN None ELSE conn[c]]

------------------------------------------------------------------------------
(* serve --pairing, and its end.                                            *)

(* Mutant: the reservation outlives the run.                                *)
ServeReserved ==
  /\ ~up
  /\ session < MaxSession
  /\ session' = session + 1
  /\ up' = TRUE
  /\ window' = "open"
  /\ stopping' = FALSE
  /\ consumed' = FALSE
  /\ issued' = {} /\ uses' = 0
  /\ UNCHANGED <<file, reserved, reservedId, task, client, trust>>

Serve ==
  /\ ~up
  /\ session < MaxSession
  /\ session' = session + 1
  /\ up' = TRUE
  /\ window' = "open"
  /\ stopping' = FALSE
  /\ reserved' = None /\ reservedId' = None /\ consumed' = FALSE
  /\ issued' = {} /\ uses' = 0
  /\ UNCHANGED <<file, task, client, trust>>

(* Mutant: it is not asked whether anybody has paired.                      *)
DiscardAlways(s) ==
  IF consumed
  THEN UNCHANGED task
  ELSE Begin(s, [kind |-> "discard", client |-> reserved, gen |-> reservedId])

(* discardPendingPairing up to its wait for the state file: there is        *)
(* nothing to discard unless a pair request has been answered.              *)
DiscardPending(s) ==
  IF reserved = None \/ reservedId = None \/ consumed
  THEN UNCHANGED task
  ELSE Begin(s, [kind |-> "discard", client |-> reserved, gen |-> reservedId])

Expire(s) ==
  /\ up
  /\ window = "open"
  /\ window' = "expired"
  /\ DiscardPending(s)
  /\ UNCHANGED <<file, session, up, stopping, memory, client, history>>

Shutdown(s) ==
  /\ up
  /\ ~stopping
  /\ stopping' = TRUE
  /\ DiscardPending(s)
  /\ UNCHANGED <<file, session, up, window, memory, client, history>>

(* Mutant: the client is removed whatever has become of it meanwhile.       *)
DiscardAnyStatus(s) ==
  /\ End(s, "discard")
  /\ file' = [file EXCEPT ![task[s].client] = None]
  /\ reserved' = None /\ reservedId' = None
  /\ UNCHANGED <<server, consumed, client, history>>

Discard(s) ==
  /\ End(s, "discard")
  /\ LET c == task[s].client
     IN  file' = IF Pending(c) /\ file[c].gen = task[s].gen
                 THEN [file EXCEPT ![c] = None] ELSE file
  /\ reserved' = None /\ reservedId' = None
  /\ UNCHANGED <<server, consumed, client, history>>

(* The process ends, after a shutdown or without one: sockets are closed,   *)
(* handlers are gone.                                                       *)
Halt ==
  /\ up
  /\ up' = FALSE
  /\ task' = [s \in Slot |-> None]
  /\ phase' = [c \in Client |-> IF conn[c] = None THEN phase[c] ELSE "idle"]
  /\ conn' = [c \in Client |-> None]
  /\ UNCHANGED <<file, session, window, stopping, memory, got, peer, stored, history>>

------------------------------------------------------------------------------
(* POST /v1/pair.                                                           *)

(* The request arrives and the coordinator reserves the window for its      *)
(* client. A request that is rejected leaves everything as it was.          *)
Pair(c, s) ==
  /\ phase[c] = "idle"
  /\ up
  /\ WindowOpen
  /\ reserved \in {None, c}
  /\ reserved' = c
  /\ Begin(s, [kind |-> "pair", client |-> c, gen |-> None])
  /\ phase' = [phase EXCEPT ![c] = "pair"]
  /\ conn' = [conn EXCEPT ![c] = s]
  /\ got' = [got EXCEPT ![c] = None]
  /\ trust' = [trust EXCEPT ![c] = None]
  /\ UNCHANGED <<file, server, reservedId, consumed, peer, stored, issued, uses>>

(* Other clients' pending records that are no longer fresh are dropped.     *)
Swept(c) == [d \in Client |-> IF d # c /\ Pending(d) /\ ~file[d].fresh
                              THEN None ELSE file[d]]

(* The pending record of a client whose request is a retry.                 *)
Retried(c) == Pending(c) /\ file[c].fresh /\ reserved = c

(* A fresh secret is one that nobody holds or remembers.                    *)
Drawn ==
  issued \cup (UNION {stored[c] \cup {got[c], trust[c]} : c \in Client})
    \cup {file[c].gen : c \in {d \in Client : file[d] # None}}
    \cup {task[s].gen : s \in {r \in Slot : task[r] # None}}
NextGen == {g \in Gen \ Drawn : \A h \in Gen \ Drawn : g <= h}

(* updateLanState of a pair request, and its answer. Neither the window nor *)
(* the reservation is looked at again.                                      *)
CommitPair(s) ==
  /\ End(s, "pair")
  /\ LET c == task[s].client
     IN  \E g \in IF Retried(c) THEN {file[c].gen} ELSE NextGen :
           /\ file' = [Swept(c) EXCEPT ![c] =
                         IF Retried(c) THEN file[c]
                         ELSE [gen |-> g, status |-> "pending", fresh |-> TRUE,
                               by |-> session]]
           /\ reservedId' = g
           /\ issued' = issued \cup {g}
           /\ got' = [d \in Client |-> IF Waits(d, s) THEN g ELSE got[d]]
           /\ trust' = [trust EXCEPT ![c] = None]
  /\ Answer(s, "store")
  /\ UNCHANGED <<server, reserved, consumed, peer, stored, uses>>

------------------------------------------------------------------------------
(* POST /v1/pair/ack.                                                       *)

(* Mutant: the acknowledgement does not wait for the peer to be stored.     *)
StoreUnawaited(c) ==
  /\ phase[c] = "store"
  /\ phase' = [phase EXCEPT ![c] = "stored"]
  /\ UNCHANGED <<file, server, memory, task, conn, got, peer, stored, history>>

(* beforeAcknowledge: the peer is stored before the acknowledgement.        *)
Store(c) ==
  /\ phase[c] = "store"
  /\ phase' = [phase EXCEPT ![c] = "stored"]
  /\ peer' = [peer EXCEPT ![c] = got[c]]
  /\ stored' = [stored EXCEPT ![c] = @ \cup {got[c]}]
  /\ UNCHANGED <<file, server, memory, task, conn, got, history>>

(* authenticate, on the route of the acknowledgement.                       *)
Authenticate(c) ==
  /\ file[c] # None /\ file[c].gen = got[c]
  /\ file[c].status = "pending" => WindowOpen /\ reserved = c /\ file[c].fresh

Ack(c, s) ==
  /\ phase[c] = "stored"
  /\ up
  /\ Authenticate(c)
  /\ Begin(s, [kind |-> "ack", client |-> c, gen |-> got[c]])
  /\ phase' = [phase EXCEPT ![c] = "ack"]
  /\ conn' = [conn EXCEPT ![c] = s]
  /\ UNCHANGED <<file, server, memory, got, peer, stored, history>>

(* acknowledgePairing up to its wait for the state file. The time that the  *)
(* record's age is taken against later is read here.                        *)
CheckAck(s) ==
  /\ task[s] # None
  /\ task[s].kind = "ack"
  /\ WindowOpen
  /\ reserved = task[s].client
  /\ Pending(task[s].client) => file[task[s].client].fresh
  /\ task' = [task EXCEPT ![s].kind = "activate"]
  /\ UNCHANGED <<file, server, memory, client, history>>

Activatable(c, g) == Pending(c) /\ file[c].gen = g

(* Mutant: the window stays open for another client.                        *)
ActivateAndReopen(s) ==
  /\ End(s, "activate")
  /\ LET c == task[s].client
     IN  /\ Activatable(c, task[s].gen)
         /\ file' = [file EXCEPT ![c].status = "active"]
         /\ trust' = [trust EXCEPT ![c] = IF Waits(c, s) THEN task[s].gen ELSE @]
  /\ reserved' = None /\ reservedId' = None
  /\ uses' = uses + 1
  /\ Answer(s, "idle")
  /\ UNCHANGED <<server, consumed, got, peer, stored, issued>>

(* updateLanState of an acknowledgement, and its answer: the pair command   *)
(* succeeds if it still waits. The record's age is the one at CheckAck.     *)
Activate(s) ==
  /\ End(s, "activate")
  /\ LET c == task[s].client
     IN  /\ Activatable(c, task[s].gen)
         /\ file' = [file EXCEPT ![c].status = "active"]
         /\ trust' = [trust EXCEPT ![c] = IF Waits(c, s) THEN task[s].gen ELSE @]
  /\ reserved' = None /\ reservedId' = None /\ consumed' = TRUE
  /\ uses' = uses + 1
  /\ Answer(s, "idle")
  /\ UNCHANGED <<server, got, peer, stored, issued>>

(* A handler is refused by its second check, or the state file cannot be    *)
(* locked or written: the reservation stays as it is.                       *)
TaskFails(s) ==
  /\ task[s] # None
  /\ task' = [task EXCEPT ![s] = None]
  /\ Answer(s, "idle")
  /\ UNCHANGED <<file, server, memory, got, peer, stored, history>>

------------------------------------------------------------------------------
(* The client's command ends without an answer, or its answer is lost.      *)
GiveUp(c) ==
  /\ phase[c] # "idle"
  /\ phase' = [phase EXCEPT ![c] = "idle"]
  /\ conn' = [conn EXCEPT ![c] = None]
  /\ UNCHANGED <<file, server, memory, task, got, peer, stored, history>>

(* Five minutes pass. A record that the present run wrote is fresh as long  *)
(* as the run's window is open.                                             *)
GrowStale(c) ==
  /\ Pending(c)
  /\ file[c].fresh
  /\ ~up \/ window = "expired" \/ file[c].by # session
  /\ file' = [file EXCEPT ![c].fresh = FALSE]
  /\ UNCHANGED <<server, memory, task, client, history>>

(* peers revoke, on the server's machine.                                   *)
Revoke(c) ==
  /\ file[c] # None
  /\ file' = [file EXCEPT ![c] = None]
  /\ trust' = [trust EXCEPT ![c] = None]
  /\ UNCHANGED <<server, memory, task, client, issued, uses>>

Next ==
  \/ Serve \/ Halt
  \/ \E s \in Slot : \/ Expire(s) \/ Shutdown(s) \/ Discard(s)
                     \/ CommitPair(s) \/ CheckAck(s) \/ Activate(s) \/ TaskFails(s)
  \/ \E c \in Client : Store(c) \/ GiveUp(c) \/ GrowStale(c) \/ Revoke(c)
  \/ \E c \in Client, s \in Slot : Pair(c, s) \/ Ack(c, s)

Spec == Init /\ [][Next]_vars
------------------------------------------------------------------------------
(* Properties.                                                              *)

(* A window authorizes one client, and that once, however requests, retries *)
(* and the expiry interleave with the writes they wait for. (Once shutdown  *)
(* has begun, a discard that ends late drops the reservation of whoever has *)
(* come to hold it, in a window that is still open.)                        *)
OneUse == ~stopping => uses <= 1

(* The server authorizes only credentials that their client has stored: an  *)
(* active client can always speak to the server, or could before it paired  *)
(* again.                                                                   *)
ActiveWasStored ==
  \A c \in Client : file[c] # None /\ file[c].status = "active" =>
    file[c].gen \in stored[c]

(* A credential becomes active only in the run of the server that sent it:  *)
(* a pending record that an earlier run left behind is not authorized by an *)
(* acknowledgement that comes late.                                         *)
Issuing ==
  \A c \in Client : Pending(c) /\ file'[c] # None /\ file'[c].status = "active" =>
    file[c].gen \in issued

ActivatesOnlyIssued == [][Issuing]_vars

(* A pair command that succeeded stays good, with one credential on both    *)
(* sides, until its client pairs again, an older request of that client is  *)
(* still answered, or it is revoked: no expiry, shutdown, restart or        *)
(* pairing of another client undoes it.                                     *)
TrustKept ==
  \A c \in Client : trust[c] # None =>
    /\ file[c] # None /\ file[c].status = "active" /\ file[c].gen = trust[c]
    /\ peer[c] = trust[c]

(* README.md: a pairing window is of one use. Once a client has used it, it *)
(* gives out no credential any more.                                        *)
NothingIssued ==
  consumed /\ consumed' => issued' = issued

OneUseWindow == [][NothingIssued]_vars
==============================================================================
