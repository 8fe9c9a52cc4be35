---------------------------- MODULE StateRegister ----------------------------
(****************************************************************************)
(* What the LAN state file promises whoever updates it: a register that is  *)
(* read and replaced in one step. An update has its effect once, between    *)
(* its call and its return, on top of all that came before; one that fails  *)
(* may have had it, and one whose process dies too. The identity that the   *)
(* first update draws stays. Once the lock has been taken from a live       *)
(* process (lost), an update may build on a state of its own.               *)
(****************************************************************************)
EXTENDS Naturals, FiniteSets

CONSTANTS
  Proc,       \* whoever updates the file: an await chain of some process
  Peer,       \* clients and peers that the file may list
  MaxListed,  \* MAX_COLLECTION_ENTRIES
  Identity,   \* the random clientIds that may be drawn
  None

(* The file: who this machine is, and whom it knows.                        *)
State == [clientId : Identity, listed : SUBSET Peer]

(* What updateLanState is called for: the identity alone (ensureLanState),  *)
(* a pairing, a revocation.                                                 *)
Update == [kind : {"ensure"}] \cup [kind : {"put", "drop"}, peer : Peer]

VARIABLES value, stage, update, lost

vars == <<value, stage, update, lost>>

Empty(id) == [clientId |-> id, listed |-> {}]

(* What is left when a revocation has been applied, and so on.              *)
Applied(u, s) ==
  IF u.kind = "ensure" THEN s
  ELSE [clientId |-> s.clientId,
        listed |-> IF u.kind = "put" THEN s.listed \cup {u.peer} ELSE s.listed \ {u.peer}]

(* parseLanState.                                                           *)
Accepts(s) == Cardinality(s.listed) <= MaxListed

Init ==
  /\ value = None
  /\ stage = [p \in Proc |-> "idle"]
  /\ update = [p \in Proc |-> None]
  /\ lost = FALSE

Call(p, u) ==
  /\ stage[p] = "idle"
  /\ stage' = [stage EXCEPT ![p] = "called"]
  /\ update' = [update EXCEPT ![p] = u]
  /\ UNCHANGED <<value, lost>>

Current == IF value = None THEN {Empty(id) : id \in Identity} ELSE {value}

Commit(p) ==
  /\ stage[p] = "called"
  /\ \E s \in IF lost THEN State ELSE Current :
       /\ Accepts(Applied(update[p], s))
       /\ value' = Applied(update[p], s)
  /\ stage' = [stage EXCEPT ![p] = "done"]
  /\ UNCHANGED <<update, lost>>

(* A call ends without an effect or with one.                               *)
Return(p) ==
  /\ stage[p] \in {"called", "done"}
  /\ stage' = [stage EXCEPT ![p] = "idle"]
  /\ update' = [update EXCEPT ![p] = None]
  /\ UNCHANGED <<value, lost>>

Die(p) ==
  /\ stage[p] \in {"called", "done"}
  /\ stage' = [stage EXCEPT ![p] = "dead"]
  /\ update' = [update EXCEPT ![p] = None]
  /\ UNCHANGED <<value, lost>>

Lose ==
  /\ lost' = TRUE
  /\ UNCHANGED <<value, stage, update>>

Next ==
  \/ \E p \in Proc :
       (\E u \in Update : Call(p, u)) \/ Commit(p) \/ Return(p) \/ Die(p)
  \/ Lose

Spec == Init /\ [][Next]_vars
==============================================================================
