---- MODULE MCPlanLoop ----
(* All catalogs of three entries over a few sizes, dates and leases, and    *)
(* two entries with up to two items of auxiliary data of every kind.        *)
EXTENDS PlanLoop

Bare ==
  [1 .. 3 -> {r \in [size : {1, 2}, born : {0, 1}, last : 0 .. 2, until : {None, 3}] :
                r.born <= r.last /\ (r.born = 0 \/ r.last = 1)}]

Item(kinds, owners, sizes, dates, leases) ==
  [kind : kinds, of : owners, size : sizes, at : dates, until : leases]

Items ==
  Item({"trash"}, {None}, {1}, {1}, {None})
    \cup Item({"work"}, {2}, {1, 2}, {0, 1}, {None})
    \cup Item({"invalid"}, {None, 4}, {1}, {0, 1}, {None})
    \cup Item({"invalid"}, {3}, {1}, {0}, {None, 3})
    \cup Item({"restore"}, {1, 2}, {1, 2}, {1}, {None})
    \cup Item({"torn"}, {None, 1, 2, 4}, {1}, {1}, {None})
    \cup Item({"stray"}, {1, 2}, {1}, {1}, {None})

(* An entry has one restore, and is itself readable or not.                 *)
Data ==
  {d \in UNION {[1 .. n -> Items] : n \in 1 .. 2} :
     \A i, j \in DOMAIN d :
       d[i].of = d[j].of /\ d[i].of # None /\ "work" \notin {d[i].kind, d[j].kind} => i = j}

MCInputs ==
  [cat : Bare, aux : {<<>>}]
    \cup [cat : [1 .. 2 -> [size : {1, 2}, born : {0}, last : {0, 1}, until : {None, 3}]],
          aux : Data]

MCPolicies == [retention : {None, 1}, maxEntries : {None, 0, 1}, maxSize : {None, 2, 3}]
====
