---------------------------- MODULE ArtifactCache ----------------------------
(****************************************************************************)
(* What the store promises its clients for one fingerprint on one platform: *)
(* a write-once cell. A build that is published stays, and is what every    *)
(* hit returns, until it is condemned: its bytes rot, or a client finds     *)
(* that it cannot decode them. It is never overwritten in place.            *)
(****************************************************************************)
CONSTANTS Proc, Build, None

VARIABLES
  store,       \* the published build, or None
  condemned,   \* the builds that went bad or that a client could not decode
  answer       \* the build of the hit that a client is using, or None

vars == <<store, condemned, answer>>

Init ==
  /\ store = None
  /\ condemned = {}
  /\ answer = [p \in Proc |-> None]

Publish(b) ==
  /\ store = None
  /\ store' = b
  /\ UNCHANGED <<condemned, answer>>

Condemn(b) ==
  /\ condemned' = condemned \cup {b}
  /\ UNCHANGED <<store, answer>>

Drop ==
  /\ store \in condemned
  /\ store' = None
  /\ UNCHANGED <<condemned, answer>>

Hit(p) ==
  /\ store # None
  /\ answer' = [answer EXCEPT ![p] = store]
  /\ UNCHANGED <<store, condemned>>

Forget(p) ==
  /\ answer' = [answer EXCEPT ![p] = None]
  /\ UNCHANGED <<store, condemned>>

Next ==
  \/ \E b \in Build : Publish(b) \/ Condemn(b)
  \/ Drop
  \/ \E p \in Proc : Hit(p) \/ Forget(p)

Spec == Init /\ [][Next]_vars
==============================================================================
