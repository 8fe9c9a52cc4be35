------------------------------ MODULE PruneProofs ------------------------------
(****************************************************************************)
(* Theorems about what a prune plans (PlanLoop) and about what it does      *)
(* beside everybody else (CachePrune), for any catalog and policy, any      *)
(* number of processes and entries, and any lease.                          *)
(****************************************************************************)
EXTENDS CachePrune, PlanLoop, FiniteSetTheorems, TLAPS

(****************************************************************************)
(* The plan. The argument: in each pass what has been selected is what the  *)
(* plan says of those already visited, so that the counters are the number  *)
(* and the size of all that would stay at this turn; a pass may then stop   *)
(* at the first that no limit asks for, since its limit asks for none that  *)
(* was used later. That a sum does not depend on the order in which it is   *)
(* added up needs induction, over the parts of a finite set.                *)
(****************************************************************************)

(* Among sets of parts of a finite set there is a smallest: induction over  *)
(* sets, in the form that needs no operator as an argument.                 *)
LEMMA SmallestSet ==
  ASSUME NEW S, IsFiniteSet(S), NEW F, F \subseteq SUBSET S, F # {}
  PROVE  \E T \in F : \A U \in F : U \subseteq T => U = T
<1>1. IsWellFoundedOn(StrictSubsetOrdering(S), SUBSET S)
  BY FS_StrictSubsetOrderingWellFounded, FS_FiniteSubsetsOfFinite
<1>2. PICK T \in F : \A U \in F : <<U, T>> \notin StrictSubsetOrdering(S)
  BY <1>1, WFMin
<1> QED
  BY <1>2 DEF StrictSubsetOrdering

(* What holds of the empty set, and of a set with one more, holds of S.     *)
LEMMA SetInduction ==
  ASSUME NEW S, IsFiniteSet(S), NEW F, {} \in F,
         \A T \in SUBSET S, x \in S : T \in F => T \cup {x} \in F
  PROVE  S \in F
<1> SUFFICES ASSUME S \notin F PROVE FALSE
  OBVIOUS
<1> DEFINE Bad == (SUBSET S) \ F
<1>1. PICK T \in Bad : \A U \in Bad : U \subseteq T => U = T
  <2>1. Bad \subseteq SUBSET S /\ Bad # {}
    OBVIOUS
  <2> HIDE DEF Bad
  <2> QED
    BY <2>1, SmallestSet
<1>2. PICK x \in T : TRUE
  BY <1>1
<1>3. (T \ {x}) \cup {x} \in F
  <2>1. T \ {x} \in F
    BY <1>1, <1>2
  <2> QED
    BY <1>1, <1>2, <2>1
<1>4. (T \ {x}) \cup {x} = T
  BY <1>2
<1> QED
  BY <1>1, <1>3, <1>4

(* The same for numbers.                                                    *)
LEMMA CountingUp ==
  ASSUME NEW G, 0 \in G, \A n \in Nat : n \in G => n + 1 \in G
  PROVE  \A n \in Nat : n \in G
<1> SUFFICES ASSUME NEW m \in Nat, m \notin G PROVE FALSE
  OBVIOUS
<1> DEFINE S == 0 .. m
           Bad == {T \in SUBSET S : \E n \in S \ G : T = 0 .. n}
<1>1. PICK T \in Bad : \A U \in Bad : U \subseteq T => U = T
  <2>1. Bad \subseteq SUBSET S /\ Bad # {}
    OBVIOUS
  <2>2. IsFiniteSet(S)
    BY FS_Interval
  <2> HIDE DEF Bad, S
  <2> QED
    BY <2>1, <2>2, SmallestSet
<1>2. PICK n \in (0 .. m) \ G : T = 0 .. n
  BY <1>1
<1>3. n - 1 \in (0 .. m) \ G
  BY <1>2
<1>4. 0 .. (n - 1) \in Bad
  BY <1>3
<1>5. 0 .. (n - 1) \subseteq 0 .. n /\ n \in 0 .. n /\ n \notin 0 .. (n - 1)
  BY <1>2
<1> QED
  BY <1>1, <1>2, <1>4, <1>5

Some(T) == CHOOSE e \in T : TRUE

(* f adds up the sizes of what is in each set of the family X.              *)
Adds(c, X, f) ==
  f = [T \in X |-> IF T = {} THEN 0 ELSE c[Some(T)].size + f[T \ {Some(T)}]]

UpTo(S, n) == {T \in SUBSET S : Cardinality(T) <= n}

(* There is such a function on the sets of at most m.                       *)
LEMMA AddsUpTo ==
  ASSUME NEW c, NEW S, IsFiniteSet(S), NEW m \in Nat
  PROVE  \E f : Adds(c, UpTo(S, m), f)
<1> DEFINE G == {n \in Nat : \E f : Adds(c, UpTo(S, n), f)}
<1>0. \A T \in SUBSET S : Cardinality(T) \in Nat /\ (Cardinality(T) = 0 <=> T = {})
  BY FS_Subset, FS_CardinalityType, FS_EmptySet
<1>1. 0 \in G
  <2> DEFINE f == [T \in UpTo(S, 0) |-> 0]
  <2>1. Adds(c, UpTo(S, 0), f)
    BY <1>0 DEF Adds, UpTo
  <2> QED
    BY <2>1
<1>2. ASSUME NEW n \in G PROVE n + 1 \in G
  <2>1. PICK f : Adds(c, UpTo(S, n), f)
    OBVIOUS
  <2> DEFINE g == [T \in UpTo(S, n + 1) |->
                     IF T = {} THEN 0 ELSE c[Some(T)].size + f[T \ {Some(T)}]]
  <2>2. ASSUME NEW T \in UpTo(S, n + 1), T # {} PROVE g[T \ {Some(T)}] = f[T \ {Some(T)}]
    <3> DEFINE U == T \ {Some(T)}
    <3>1. Some(T) \in T
      BY <2>2 DEF Some
    <3>2. Cardinality(U) = Cardinality(T) - 1 /\ U \in SUBSET S
      BY <3>1, FS_RemoveElement, FS_Subset DEF UpTo
    <3>3. U \in UpTo(S, n) /\ U \in UpTo(S, n + 1)
      BY <3>2, <1>0 DEF UpTo
    <3>4. f[U] = IF U = {} THEN 0 ELSE c[Some(U)].size + f[U \ {Some(U)}]
      BY <2>1, <3>3 DEF Adds
    <3> HIDE DEF U
    <3> QED
      BY <3>3, <3>4 DEF U
  <2>3. Adds(c, UpTo(S, n + 1), g)
    BY <2>2 DEF Adds
  <2> QED
    BY <2>3
<1> HIDE DEF G
<1>3. m \in G
  BY <1>1, <1>2, CountingUp
<1> QED
  BY <1>3 DEF G

(* And on all parts of a finite set.                                        *)
LEMMA AddsAll ==
  ASSUME NEW c, NEW S, IsFiniteSet(S)
  PROVE  \E f : Adds(c, SUBSET S, f)
<1>1. Cardinality(S) \in Nat /\ \A T \in SUBSET S : Cardinality(T) <= Cardinality(S)
  BY FS_CardinalityType, FS_Subset
<1>2. SUBSET S = UpTo(S, Cardinality(S))
  BY <1>1 DEF UpTo
<1>3. \E f : Adds(c, UpTo(S, Cardinality(S)), f)
  BY <1>1, AddsUpTo
<1> QED
  BY <1>2, <1>3

(* Two such functions agree where both are defined.                         *)
LEMMA AddsAlike ==
  ASSUME NEW c, NEW S, NEW T \in SUBSET S, NEW f, NEW g,
         IsFiniteSet(S), Adds(c, SUBSET S, f), Adds(c, SUBSET T, g)
  PROVE  f[T] = g[T]
<1> DEFINE Bad == {U \in SUBSET T : g[U] # f[U]}
<1> SUFFICES ASSUME Bad # {} PROVE FALSE
  OBVIOUS
<1>1. PICK U \in Bad : \A V \in Bad : V \subseteq U => V = U
  <2>1. Bad \subseteq SUBSET S
    OBVIOUS
  <2> HIDE DEF Bad
  <2> QED
    BY <2>1, SmallestSet
<1>2. /\ f[U] = IF U = {} THEN 0 ELSE c[Some(U)].size + f[U \ {Some(U)}]
      /\ g[U] = IF U = {} THEN 0 ELSE c[Some(U)].size + g[U \ {Some(U)}]
  BY <1>1 DEF Adds
<1>3. U # {}
  BY <1>1, <1>2
<1>4. Some(U) \in U
  BY <1>3 DEF Some
<1>5. U \ {Some(U)} \notin Bad
  BY <1>1, <1>4
<1> QED
  BY <1>1, <1>2, <1>3, <1>5

(* Bytes is the value of such a function.                                   *)
LEMMA BytesAdds ==
  ASSUME NEW c, NEW S, IsFiniteSet(S)
  PROVE  \E f : Adds(c, SUBSET S, f) /\ Bytes(c, S) = f[S]
<1> DEFINE f == CHOOSE f : Adds(c, SUBSET S, f)
<1>1. Adds(c, SUBSET S, f)
  BY AddsAll
<1>2. Bytes(c, S) = f[S]
  BY DEF Bytes, Adds, Some
<1> QED
  BY <1>1, <1>2

(* Bytes by its recursion, whatever the domain of the function it uses.     *)
LEMMA BytesFirst ==
  ASSUME NEW c, NEW S, IsFiniteSet(S)
  PROVE  Bytes(c, S) = IF S = {} THEN 0 ELSE c[Some(S)].size + Bytes(c, S \ {Some(S)})
<1> DEFINE T == S \ {Some(S)}
<1>1. PICK f : Adds(c, SUBSET S, f) /\ Bytes(c, S) = f[S]
  BY BytesAdds
<1>2. IsFiniteSet(T)
  BY FS_Subset
<1>3. PICK g : Adds(c, SUBSET T, g) /\ Bytes(c, T) = g[T]
  BY <1>2, BytesAdds
<1>4. g[T] = f[T]
  <2>1. T \in SUBSET S
    OBVIOUS
  <2> HIDE DEF T
  <2>2. Adds(c, SUBSET S, f) /\ Adds(c, SUBSET T, g)
    BY <1>1, <1>3
  <2> QED
    BY <2>1, <2>2, AddsAlike
<1>5. f[S] = IF S = {} THEN 0 ELSE c[Some(S)].size + f[T]
  BY <1>1 DEF Adds
<1> QED
  BY <1>1, <1>3, <1>4, <1>5

Sizes(c, S) == IsFiniteSet(S) /\ \A e \in S : c[e].size \in Nat

(* A sum of sizes is a number.                                              *)
LEMMA BytesType ==
  ASSUME NEW c, NEW S, Sizes(c, S)
  PROVE  Bytes(c, S) \in Nat
<1> DEFINE Bad == {T \in SUBSET S : Bytes(c, T) \notin Nat}
<1> SUFFICES ASSUME Bad # {} PROVE FALSE
  OBVIOUS
<1>1. PICK T \in Bad : \A U \in Bad : U \subseteq T => U = T
  <2>1. Bad \subseteq SUBSET S
    OBVIOUS
  <2> HIDE DEF Bad
  <2> QED
    BY <2>1, SmallestSet DEF Sizes
<1>2. IsFiniteSet(T)
  BY <1>1, FS_Subset DEF Sizes
<1>3. T # {} /\ Bytes(c, T) = c[Some(T)].size + Bytes(c, T \ {Some(T)})
  BY <1>1, <1>2, BytesFirst
<1>4. Some(T) \in T
  BY <1>3 DEF Some
<1>5. Bytes(c, T \ {Some(T)}) \in Nat
  BY <1>1, <1>4
<1>6. c[Some(T)].size \in Nat
  BY <1>1, <1>4 DEF Sizes
<1> QED
  BY <1>1, <1>3, <1>5, <1>6

(* In whatever order: any one of them may be counted first.                 *)
LEMMA BytesWithout ==
  ASSUME NEW c, NEW S, Sizes(c, S), NEW x \in S
  PROVE  Bytes(c, S) = c[x].size + Bytes(c, S \ {x})
<1> DEFINE Odd(T) == \E y \in T : Bytes(c, T) # c[y].size + Bytes(c, T \ {y})
           Bad == {T \in SUBSET S : Odd(T)}
<1> SUFFICES ASSUME Bad # {} PROVE FALSE
  OBVIOUS
<1>1. PICK T \in Bad : \A U \in Bad : U \subseteq T => U = T
  <2>1. Bad \subseteq SUBSET S
    OBVIOUS
  <2> HIDE DEF Bad
  <2> QED
    BY <2>1, SmallestSet DEF Sizes
<1>2. PICK y \in T : Bytes(c, T) # c[y].size + Bytes(c, T \ {y})
  BY <1>1
<1>3. \A U \in SUBSET T : Sizes(c, U)
  BY <1>1, FS_Subset DEF Sizes
<1> DEFINE z == Some(T)
<1>4. z \in T /\ Bytes(c, T) = c[z].size + Bytes(c, T \ {z})
  BY <1>2, <1>3, BytesFirst DEF Some, Sizes
<1>5. y # z
  BY <1>2, <1>4
<1>6. Bytes(c, T \ {z}) = c[y].size + Bytes(c, (T \ {z}) \ {y})
  <2>1. T \ {z} \in SUBSET S /\ T \ {z} \subseteq T /\ T \ {z} # T
    BY <1>1, <1>4
  <2>2. T \ {z} \notin Bad
    BY <1>1, <2>1
  <2> QED
    BY <1>5, <2>1, <2>2
<1>7. Bytes(c, T \ {y}) = c[z].size + Bytes(c, (T \ {y}) \ {z})
  <2>1. T \ {y} \in SUBSET S /\ T \ {y} \subseteq T /\ T \ {y} # T
    BY <1>1, <1>2
  <2>2. T \ {y} \notin Bad
    BY <1>1, <2>1
  <2> QED
    BY <1>4, <1>5, <2>1, <2>2
<1>8. Bytes(c, (T \ {y}) \ {z}) = Bytes(c, (T \ {z}) \ {y})
  <2>1. (T \ {y}) \ {z} = (T \ {z}) \ {y}
    OBVIOUS
  <2> QED
    BY <2>1
<1>9. /\ c[y].size \in Nat /\ c[z].size \in Nat
      /\ Bytes(c, (T \ {z}) \ {y}) \in Nat
  BY <1>2, <1>3, <1>4, BytesType DEF Sizes
<1> HIDE DEF z
<1> QED
  BY <1>2, <1>4, <1>6, <1>7, <1>8, <1>9

(* Nothing has no size.                                                     *)
LEMMA BytesEmpty == \A c : Bytes(c, {}) = 0
  BY BytesFirst, FS_EmptySet

(* More is no smaller.                                                      *)
LEMMA BytesGrow ==
  ASSUME NEW c, NEW S, Sizes(c, S), NEW T \in SUBSET S
  PROVE  Bytes(c, T) <= Bytes(c, S)
<1> DEFINE G == {U \in SUBSET S : Bytes(c, T) <= Bytes(c, T \cup U)}
<1>1. \A U \in SUBSET S : Sizes(c, T \cup U) /\ Bytes(c, T \cup U) \in Nat
  <2> SUFFICES ASSUME NEW U \in SUBSET S PROVE Sizes(c, T \cup U)
    BY BytesType
  <2>1. T \cup U \in SUBSET S
    OBVIOUS
  <2> QED
    BY <2>1, FS_Subset DEF Sizes
<1>2. {} \in G
  BY <1>1
<1>3. ASSUME NEW U \in SUBSET S, NEW x \in S, U \in G PROVE U \cup {x} \in G
  <2>1. CASE x \in T \cup U
    <3>1. T \cup (U \cup {x}) = T \cup U
      BY <2>1
    <3> QED
      BY <1>3, <3>1
  <2>2. CASE x \notin T \cup U
    <3> DEFINE V == T \cup (U \cup {x})
    <3>1. Bytes(c, V) = c[x].size + Bytes(c, V \ {x})
      <4>1. Sizes(c, V) /\ x \in V
        BY <1>1
      <4> HIDE DEF V
      <4> QED
        BY <4>1, BytesWithout
    <3>2. V \ {x} = T \cup U
      BY <2>2
    <3>3. c[x].size \in Nat /\ Bytes(c, T) \in Nat /\ Bytes(c, T \cup U) \in Nat
      <4>1. T \cup {} = T
        OBVIOUS
      <4> QED
        BY <1>1, <4>1 DEF Sizes
    <3>4. Bytes(c, T) <= Bytes(c, V)
      BY <1>3, <3>1, <3>2, <3>3
    <3> QED
      BY <1>3, <3>4
  <2> QED
    BY <2>1, <2>2
<1>4. S \in G
  <2> HIDE DEF G
  <2> QED
    BY <1>2, <1>3, SetInduction DEF Sizes
<1>5. T \cup S = S
  OBVIOUS
<1> QED
  BY <1>4, <1>5

------------------------------------------------------------------------------
(* compareLru is a strict total order on the entries of a catalog.          *)
LEMMA BeforeOrder ==
  ASSUME NEW c, CatalogOK(c), NEW e \in DOMAIN c, NEW f \in DOMAIN c
  PROVE  /\ ~(Before(c, e, f) /\ Before(c, f, e))
         /\ e # f => Before(c, e, f) \/ Before(c, f, e)
         /\ \A g \in DOMAIN c : Before(c, e, f) /\ Before(c, f, g) => Before(c, e, g)
<1>1. \A x \in DOMAIN c : x \in Int /\ c[x].last \in Int /\ c[x].born \in Int
  BY DEF CatalogOK
<1> QED
  BY <1>1 DEF Before

(* The age of auxiliary data is a date.                                     *)
LEMMA AgeType ==
  ASSUME NEW c, NEW a, CatalogOK(c), AuxOK(c, a), NEW i \in DOMAIN a
  PROVE  Age(c, a[i]) \in Int /\ i \in Int
  BY DEF CatalogOK, AuxOK, Age, RestoreOf

(* So is the order of the auxiliary data.                                   *)
LEMMA AuxBeforeOrder ==
  ASSUME NEW c, NEW a, CatalogOK(c), AuxOK(c, a), NEW i \in DOMAIN a, NEW j \in DOMAIN a
  PROVE  /\ ~(AuxBefore(c, a, i, j) /\ AuxBefore(c, a, j, i))
         /\ i # j => AuxBefore(c, a, i, j) \/ AuxBefore(c, a, j, i)
         /\ \A k \in DOMAIN a :
              AuxBefore(c, a, i, j) /\ AuxBefore(c, a, j, k) => AuxBefore(c, a, i, k)
<1>1. \A x \in DOMAIN a : x \in Int /\ Age(c, a[x]) \in Int
  BY AgeType
<1> QED
  BY <1>1 DEF AuxBefore

(* A finite set has a least element in a total order.                       *)
LEMMA LeastExists ==
  ASSUME NEW S, NEW R, IsFiniteSet(S), S # {},
         \A x, y \in S : x # y => <<x, y>> \in R \/ <<y, x>> \in R,
         \A x, y, z \in S : <<x, y>> \in R /\ <<y, z>> \in R => <<x, z>> \in R
  PROVE  \E x \in S : \A y \in S \ {x} : <<x, y>> \in R
<1> DEFINE Least(T, x) == x \in T /\ \A y \in T \ {x} : <<x, y>> \in R
           G == {T \in SUBSET S : T # {} => \E x \in T : Least(T, x)}
<1>1. {} \in G
  OBVIOUS
<1>2. ASSUME NEW T \in SUBSET S, NEW z \in S, T \in G PROVE T \cup {z} \in G
  <2>1. CASE T = {}
    <3>1. Least(T \cup {z}, z)
      BY <2>1
    <3> QED
      BY <3>1
  <2>2. CASE z \in T
    <3>1. T \cup {z} = T
      BY <2>2
    <3> QED
      BY <1>2, <3>1
  <2>3. CASE T # {} /\ z \notin T
    <3>1. PICK x \in T : Least(T, x)
      BY <1>2, <2>3
    <3>2. CASE <<x, z>> \in R
      <4>1. Least(T \cup {z}, x)
        BY <3>1, <3>2
      <4> QED
        BY <4>1
    <3>3. CASE <<z, x>> \in R
      <4>1. Least(T \cup {z}, z)
        BY <3>1, <3>3
      <4> QED
        BY <4>1
    <3> QED
      BY <2>3, <3>1, <3>2, <3>3
  <2> QED
    BY <2>1, <2>2, <2>3
<1>3. S \in G
  <2> HIDE DEF G
  <2> QED
    BY <1>1, <1>2, SetInduction
<1> QED
  BY <1>3

(* A nonempty set of entries has a least recent one.                        *)
LEMMA LeastEntry ==
  ASSUME NEW c, CatalogOK(c), NEW T \in SUBSET DOMAIN c, T # {}
  PROVE  \E e \in T : \A f \in T \ {e} : Before(c, e, f)
<1> DEFINE R == {p \in T \X T : Before(c, p[1], p[2])}
<1>1. IsFiniteSet(T)
  BY FS_Subset DEF CatalogOK
<1>2. \A x, y \in T : <<x, y>> \in R <=> Before(c, x, y)
  OBVIOUS
<1>3. /\ \A x, y \in T : x # y => <<x, y>> \in R \/ <<y, x>> \in R
      /\ \A x, y, z \in T : <<x, y>> \in R /\ <<y, z>> \in R => <<x, z>> \in R
  <2> HIDE DEF R
  <2> QED
    BY <1>2, BeforeOrder
<1>4. \E x \in T : \A y \in T \ {x} : <<x, y>> \in R
  <2> HIDE DEF R
  <2> QED
    BY <1>1, <1>3, LeastExists
<1> QED
  BY <1>2, <1>4

(* And a nonempty set of auxiliary data.                                    *)
LEMMA LeastItem ==
  ASSUME NEW c, NEW a, CatalogOK(c), AuxOK(c, a), NEW T \in SUBSET DOMAIN a, T # {}
  PROVE  \E i \in T : \A j \in T \ {i} : AuxBefore(c, a, i, j)
<1> DEFINE R == {p \in T \X T : AuxBefore(c, a, p[1], p[2])}
<1>1. IsFiniteSet(T)
  BY FS_Subset DEF AuxOK
<1>2. \A x, y \in T : <<x, y>> \in R <=> AuxBefore(c, a, x, y)
  OBVIOUS
<1>3. /\ \A x, y \in T : x # y => <<x, y>> \in R \/ <<y, x>> \in R
      /\ \A x, y, z \in T : <<x, y>> \in R /\ <<y, z>> \in R => <<x, z>> \in R
  <2> HIDE DEF R
  <2> QED
    BY <1>2, AuxBeforeOrder
<1>4. \E x \in T : \A y \in T \ {x} : <<x, y>> \in R
  <2> HIDE DEF R
  <2> QED
    BY <1>1, <1>3, LeastExists
<1> QED
  BY <1>2, <1>4

(* It is the one whose turn it is.                                          *)
LEMMA NextEntryLeast ==
  ASSUME CatalogOK(cat), todo \subseteq DOMAIN cat, todo # {}
  PROVE  NextEntry \in todo /\ \A f \in todo \ {NextEntry} : Before(cat, NextEntry, f)
<1>1. \E e \in todo : \A f \in todo \ {e} : Before(cat, e, f)
  BY LeastEntry
<1> QED
  BY <1>1 DEF NextEntry

(* The same for the data.                                                   *)
LEMMA NextItemLeast ==
  ASSUME CatalogOK(cat), AuxOK(cat, aux), todo \subseteq DOMAIN aux, todo # {}
  PROVE  NextItem \in todo /\ \A j \in todo \ {NextItem} : AuxBefore(cat, aux, NextItem, j)
<1>1. \E i \in todo : \A j \in todo \ {i} : AuxBefore(cat, aux, i, j)
  BY LeastItem
<1> QED
  BY <1>1 DEF NextItem

------------------------------------------------------------------------------
May(c, e) == CanSelect(c, e, date, Protected)

(* Of S the pass has T before it and has visited the rest, in order; what   *)
(* it might take of that is in W.                                           *)
InTurn(c, S, T, W) ==
  /\ T \subseteq S
  /\ T # {} => \A f \in S \ T : /\ \A g \in T : Before(c, f, g)
                                /\ May(c, f) => f \in W

(* What a pass has taken is what comes before the one at its turn, and is   *)
(* among what comes before any that is still to be visited.                 *)
LEMMA EarlierTaken ==
  ASSUME NEW c, NEW S, NEW T, NEW W, NEW e \in T, CatalogOK(c), S \subseteq DOMAIN c,
         InTurn(c, S, T, W), \A f \in W : f \in S /\ May(c, f)
  PROVE  /\ W \ T \subseteq Earlier(c, S, e, date, Protected)
         /\ (\A f \in T \ {e} : Before(c, e, f)) => Earlier(c, S, e, date, Protected) = W \ T
<1>1. W \ T \subseteq Earlier(c, S, e, date, Protected)
  BY DEF InTurn, Earlier, May
<1>2. ASSUME \A f \in T \ {e} : Before(c, e, f), NEW f \in Earlier(c, S, e, date, Protected)
      PROVE  f \in W \ T
  <2>1. f \in S /\ May(c, f) /\ Before(c, f, e)
    BY DEF Earlier, May
  <2>2. f # e /\ ~Before(c, e, f)
    BY <2>1, BeforeOrder DEF InTurn
  <2> QED
    BY <1>2, <2>1, <2>2 DEF InTurn
<1> QED
  BY <1>1, <1>2

------------------------------------------------------------------------------
(* What the passes are to select. *)
Ready == Listed(cat, aux, pol, Now, Protected)
Items == ForSize(cat, aux, pol, Now, Protected)
Spare == OverSizeAux(cat, aux, pol, Now, Protected)

Old == Expired(cat, pol, date, Protected)
Young == DOMAIN cat \ Old
Many == OverCount(cat, Young, pol, date, Protected)
Few == DOMAIN cat \ (Old \cup Many)
Large == OverSize(cat, Few, Limits, date, Protected)

Marked(S, r) == {[id |-> e, reason |-> r] : e \in S}
ReadyGone == {c \in AuxPlanned(cat, aux, pol, Now, Protected) : c.id \in Ready}

InputOK == CatalogOK(cat) /\ AuxOK(cat, aux) /\ pol \in Policy

InAux ==
  LET taken == IF pol.maxSize = None THEN {} ELSE Items \ todo
  IN  /\ todo \subseteq Items
      /\ pol.maxSize = None => todo = {}
      /\ gone = ReadyGone \cup Marked(taken, "max-size")
      /\ bytes = Projected(cat, aux, Ready \cup taken)
      /\ taken \subseteq Spare
      /\ \A i \in taken, j \in todo : AuxBefore(cat, aux, i, j)
      /\ chosen = {}
      /\ count = Cardinality(DOMAIN cat)

Counted ==
  /\ gone = AuxPlanned(cat, aux, pol, Now, Protected)
  /\ count = Cardinality(Remaining)
  /\ bytes = Bytes(cat, Remaining)

InExpired ==
  /\ pol.retention = None => todo = {}
  /\ todo \subseteq DOMAIN cat
  /\ chosen = Marked(Old \ todo, "expired")

InMany ==
  /\ pol.maxEntries = None => todo = {}
  /\ InTurn(cat, Young, todo, Many)
  /\ chosen = Marked(Old, "expired") \cup Marked(Many \ todo, "max-entries")

InLarge ==
  /\ pol.maxSize = None => todo = {}
  /\ InTurn(cat, Few, todo, Large)
  /\ chosen = Marked(Old, "expired") \cup Marked(Many, "max-entries")
                \cup Marked(Large \ todo, "max-size")

InList == todo = {} /\ gone = {} /\ chosen = {} /\ count = Cardinality(DOMAIN cat)

PlanInv ==
  /\ InputOK /\ date \in Int
  /\ \/ pass = "list" /\ InList
     \/ pass = "auxiliary" /\ InAux
     \/ pass = "expired" /\ Counted /\ InExpired
     \/ pass = "max-entries" /\ Counted /\ InMany
     \/ pass \in {"max-size", "done"} /\ Counted /\ InLarge /\ (pass = "done" => todo = {})

------------------------------------------------------------------------------
(* The entries of marked candidates.                                        *)
LEMMA Ids ==
  ASSUME NEW S, NEW r PROVE {c.id : c \in Marked(S, r)} = S
<1>1. ASSUME NEW e \in S PROVE \E c \in Marked(S, r) : c.id = e
  <2>1. [id |-> e, reason |-> r] \in Marked(S, r)
    BY DEF Marked
  <2> QED
    BY <2>1
<1>2. \A c \in Marked(S, r) : c.id \in S
  BY DEF Marked
<1> HIDE DEF Marked
<1> QED
  BY <1>1, <1>2

(* What planPrune is given is a policy that differs in its size limit       *)
(* alone.                                                                   *)
LEMMA LimitsOK ==
  ASSUME InputOK
  PROVE  /\ Bytes(aux, DOMAIN aux \ Gone) \in Nat
         /\ Limits.maxSize \in Optional(Nat) /\ (Limits.maxSize = None <=> pol.maxSize = None)
         /\ Limits.retention = pol.retention /\ Limits.maxEntries = pol.maxEntries
<1>1. Bytes(aux, DOMAIN aux \ Gone) \in Nat
  <2>1. Sizes(aux, DOMAIN aux \ Gone)
    BY FS_Subset DEF InputOK, AuxOK, Sizes
  <2> QED
    BY <2>1, BytesType
<1> DEFINE rest == Bytes(aux, DOMAIN aux \ Gone)
<1> HIDE DEF rest
<1>2. Limits = [pol EXCEPT !.maxSize = IF @ = None THEN None ELSE IF @ < rest THEN 0 ELSE @ - rest]
  BY DEF Limits, EntryPolicy, rest
<1>3. rest \in Nat
  BY <1>1 DEF rest
<1> QED
  BY <1>1, <1>2, <1>3, NumbersAssumption DEF InputOK, Policy, Optional

(* Counts and sums over entries are numbers, and more is no smaller.        *)
LEMMA EntrySizes ==
  ASSUME InputOK, NEW S \in SUBSET DOMAIN cat
  PROVE  /\ Sizes(cat, S) /\ IsFiniteSet(S) /\ Cardinality(S) \in Nat /\ Bytes(cat, S) \in Nat
         /\ \A T \in SUBSET S : Cardinality(T) <= Cardinality(S) /\ Bytes(cat, T) <= Bytes(cat, S)
<1>1. IsFiniteSet(S)
  BY FS_Subset DEF InputOK, CatalogOK
<1>2. Sizes(cat, S)
  BY <1>1 DEF Sizes, InputOK, CatalogOK
<1>3. \A T \in SUBSET S : Cardinality(T) <= Cardinality(S)
  BY <1>1, FS_Subset
<1>4. \A T \in SUBSET S : Bytes(cat, T) <= Bytes(cat, S)
  BY <1>2, BytesGrow
<1> QED
  BY <1>1, <1>2, <1>3, <1>4, FS_CardinalityType, BytesType

(* The same for sums over auxiliary data.                                   *)
LEMMA ItemSizes ==
  ASSUME InputOK, NEW S \in SUBSET DOMAIN aux
  PROVE  /\ Sizes(aux, S) /\ Bytes(aux, S) \in Nat
         /\ \A T \in SUBSET S : Bytes(aux, T) <= Bytes(aux, S)
<1>1. IsFiniteSet(S)
  BY FS_Subset DEF InputOK, AuxOK
<1>2. Sizes(aux, S)
  BY <1>1 DEF Sizes, InputOK, AuxOK
<1> QED
  BY <1>2, BytesType, BytesGrow

(* The passes select from what the ones before them have left, and nothing  *)
(* protected.                                                               *)
LEMMA Wholes ==
  /\ Old \subseteq DOMAIN cat /\ \A e \in Old : May(cat, e)
  /\ Many \subseteq Young /\ \A e \in Many : May(cat, e)
  /\ Large \subseteq Few /\ \A e \in Large : May(cat, e)
  BY DEF Old, Many, Large, Expired, OverCount, OverSize, May

(* What is planned for the data that is listed, each for its reason.        *)
LEMMA ListedGone ==
  ReadyGone = {[id |-> i, reason |-> IF Abandoned(cat, aux[i], Now, Protected)
                                       THEN "abandoned" ELSE "expired"] : i \in Ready}
<1> DEFINE why(i) == IF Abandoned(cat, aux[i], Now, Protected) THEN "abandoned" ELSE "expired"
           first == {[id |-> i, reason |-> why(i)] : i \in Ready}
<1>1. AuxPlanned(cat, aux, pol, Now, Protected) = first \cup Marked(Spare, "max-size")
  BY DEF AuxPlanned, Ready, Spare, Marked
<1>2. \A c \in first : c.id \in Ready
  OBVIOUS
<1>3. \A c \in Marked(Spare, "max-size") : c.id \notin Ready
  <2>1. \A i \in Spare : i \notin Ready
    BY DEF Spare, OverSizeAux, ForSize, Ready
  <2> QED
    BY <2>1 DEF Marked
<1>4. first = ReadyGone
  <2> HIDE DEF first
  <2> QED
    BY <1>1, <1>2, <1>3 DEF ReadyGone
<1> QED
  BY <1>4

------------------------------------------------------------------------------
(* The inputs satisfy it.                                                   *)
LEMMA InitPlanInv == PlanInit => PlanInv
<1> SUFFICES ASSUME PlanInit PROVE PlanInv
  OBVIOUS
<1>1. InputOK
  BY InputAssumption DEF PlanInit, InputOK
<1>2. date \in Int /\ pass = "list" /\ InList
  BY NumbersAssumption DEF PlanInit, InList
<1> QED
  BY <1>1, <1>2 DEF PlanInv

(* What depends on the input alone does not change.                         *)
LEMMA InputKept ==
  ASSUME UNCHANGED input
  PROVE  /\ InputOK' = InputOK /\ Ready' = Ready /\ Items' = Items
         /\ Spare' = Spare /\ ReadyGone' = ReadyGone
         /\ AuxPlanned(cat, aux, pol, Now, Protected)' = AuxPlanned(cat, aux, pol, Now, Protected)
         /\ cat' = cat /\ aux' = aux /\ pol' = pol
<1>1. cat' = cat /\ aux' = aux /\ pol' = pol
  BY DEF input
<1> QED
  BY <1>1 DEF InputOK, Ready, Items, Spare, ReadyGone

(* Nor does what is planned for the entries, while the date is the same.    *)
LEMMA DateKept ==
  ASSUME UNCHANGED <<input, date>>
  PROVE  /\ Old' = Old /\ Young' = Young /\ Many' = Many /\ Few' = Few
         /\ \A e : May(cat, e)' = May(cat, e)
<1>1. cat' = cat /\ pol' = pol /\ date' = date
  BY DEF input
<1> QED
  BY <1>1 DEF Old, Young, Many, Few, May

(* Nor do the limits, once the auxiliary data is done with.                 *)
LEMMA LimitsKept ==
  ASSUME UNCHANGED <<input, date, gone>>
  PROVE  Limits' = Limits /\ Large' = Large
<1>1. cat' = cat /\ aux' = aux /\ pol' = pol /\ gone' = gone /\ date' = date
  BY DEF input
<1>2. Limits' = Limits
  BY <1>1 DEF Limits, Gone
<1> QED
  BY <1>1, <1>2 DEF Large, Few, Many, Young, Old

(* What the loops of the listing select, by the reason that they give.      *)
Overdue == InvalidLoop \cup EntryLoop(RestoreLoop) \cup (RootsLoop \ OfKind({"trash"}))
Leftover == RestoreLoop \cup OfKind({"trash"})

(* Two forms of the same question about a lease, and about the retention.   *)
LEMMA SameQuestions ==
  ASSUME InputOK, NEW i \in DOMAIN aux
  PROVE  /\ Abandoned(cat, aux[i], Now, Protected) <=> i \in Leftover
         /\ \A t : Older(t, Now, pol.retention) <=> Due(t)
         /\ LeaseOver(cat, aux[i], Now)
              <=> IF aux[i].kind = "invalid" THEN Unleased(aux[i].until)
                  ELSE aux[i].of \in DOMAIN cat => Unleased(cat[aux[i].of].until)
<1>1. \A t : Older(t, Now, pol.retention) <=> Due(t)
  BY DEF Older, Due
<1>2. LeaseOver(cat, aux[i], Now)
        <=> IF aux[i].kind = "invalid" THEN Unleased(aux[i].until)
            ELSE aux[i].of \in DOMAIN cat => Unleased(cat[aux[i].of].until)
  BY DEF LeaseOver, LeaseOf, Unleased
<1>3. Abandoned(cat, aux[i], Now, Protected) <=> i \in Leftover
  BY <1>2 DEF Abandoned, MaySelect, Leftover, RestoreLoop, OfKind, Allowed
<1> QED
  BY <1>1, <1>2, <1>3

(* The loops list what is abandoned and what is outlived, as AuxPlan says   *)
(* of each item by itself, and leave the rest of it to the size limit.      *)
LEMMA LoopsList ==
  ASSUME InputOK
  PROVE  /\ Overdue \cup Leftover = Ready
         /\ For("expired", Overdue) \cup For("abandoned", Leftover) = ReadyGone
         /\ SpareLoops(Ready) = Items
<1>0. \A i \in DOMAIN aux :
        /\ aux[i].kind \in {"trash", "work", "invalid", "restore", "torn", "stray"}
        /\ RestoreOf(cat, aux[i]) => aux[i].of \in DOMAIN cat /\ aux[i].kind \in {"restore", "torn"}
  BY DEF InputOK, AuxOK, RestoreOf
<1>1. Overdue \subseteq DOMAIN aux /\ Leftover \subseteq DOMAIN aux
  BY DEF Overdue, Leftover, InvalidLoop, RestoreLoop, EntryLoop, RootsLoop, RestoresOf, OfKind
<1>2. ASSUME NEW i \in DOMAIN aux
      PROVE  /\ i \in Leftover <=> Abandoned(cat, aux[i], Now, Protected)
             /\ i \in Overdue <=> /\ Outlived(cat, aux[i], pol, Now, Protected)
                                  /\ ~Abandoned(cat, aux[i], Now, Protected)
  <2>1. i \in Leftover <=> Abandoned(cat, aux[i], Now, Protected)
    BY SameQuestions
  <2>3. i \in InvalidLoop <=> /\ aux[i].kind = "invalid" /\ MaySelect(cat, aux[i], Now, Protected)
                             /\ Older(Age(cat, aux[i]), Now, pol.retention)
    BY SameQuestions DEF InvalidLoop, OfKind, Allowed, MaySelect, Age, RestoreOf
  <2>4. i \in EntryLoop(RestoreLoop)
          <=> /\ RestoreOf(cat, aux[i]) /\ LeaseOver(cat, aux[i], Now)
              /\ Older(Age(cat, aux[i]), Now, pol.retention)
              /\ ~Abandoned(cat, aux[i], Now, Protected)
    <3>1. i \in EntryLoop(RestoreLoop)
            <=> RestoreOf(cat, aux[i]) /\ aux[i].of \in DueEntries /\ i \notin RestoreLoop
      BY DEF EntryLoop, RestoresOf, OfKind, RestoreOf, DueEntries
    <3>2. RestoreOf(cat, aux[i]) => (i \in RestoreLoop <=> Abandoned(cat, aux[i], Now, Protected))
      BY <1>0, <2>1 DEF Leftover, OfKind
    <3>3. RestoreOf(cat, aux[i])
            => (aux[i].of \in DueEntries <=> /\ LeaseOver(cat, aux[i], Now)
                                             /\ Older(Age(cat, aux[i]), Now, pol.retention))
      BY <1>0, SameQuestions DEF Age, DueEntries
    <3> QED
      BY <3>1, <3>2, <3>3
  <2>5. i \in RootsLoop \ OfKind({"trash"})
          <=> aux[i].kind = "work" /\ Older(Age(cat, aux[i]), Now, pol.retention)
    BY SameQuestions DEF RootsLoop, OfKind, Age, RestoreOf
  <2>6. aux[i].kind \in {"invalid", "work"} => ~Abandoned(cat, aux[i], Now, Protected)
    BY DEF Abandoned
  <2> QED
    BY <2>1, <2>3, <2>4, <2>5, <2>6 DEF Overdue, Outlived
<1>3. Overdue \cup Leftover = Ready
  BY <1>1, <1>2 DEF Ready, Listed
<1>4. For("expired", Overdue) \cup For("abandoned", Leftover) = ReadyGone
  <2> DEFINE why(i) == IF Abandoned(cat, aux[i], Now, Protected) THEN "abandoned" ELSE "expired"
             first == {[id |-> i, reason |-> why(i)] : i \in Ready}
  <2>1. ReadyGone = first
    BY ListedGone
  <2>2. \A i \in Ready : why(i) = IF i \in Leftover THEN "abandoned" ELSE "expired"
    BY <1>1, <1>2, <1>3
  <2>3. \A i \in Overdue : i \notin Leftover
    BY <1>1, <1>2
  <2> HIDE DEF why
  <2>4. first \subseteq For("expired", Overdue) \cup For("abandoned", Leftover)
    BY <1>3, <2>2 DEF For
  <2>5. For("expired", Overdue) \cup For("abandoned", Leftover) \subseteq first
    BY <1>3, <2>2, <2>3 DEF For
  <2> QED
    BY <2>1, <2>4, <2>5
<1>5. SpareLoops(Ready) = Items
  <2>1. SpareLoops(Ready) \subseteq DOMAIN aux
    BY DEF SpareLoops, OfKind, RestoresOf
  <2>2. ASSUME NEW i \in DOMAIN aux
        PROVE  i \in SpareLoops(Ready) <=> i \in Items
    <3>1. i \in RestoresOf(SpareEntries)
            <=> RestoreOf(cat, aux[i]) /\ MaySelect(cat, aux[i], Now, Protected)
      <4>1. RestoreOf(cat, aux[i])
              => (aux[i].of \in SpareEntries <=> MaySelect(cat, aux[i], Now, Protected))
        BY <1>0, SameQuestions DEF MaySelect, SpareEntries
      <4> QED
        BY <4>1 DEF RestoresOf, OfKind, RestoreOf, SpareEntries
    <3>2. i \in {j \in OfKind({"invalid"}) : Allowed(j) /\ Unleased(aux[j].until)}
            <=> aux[i].kind = "invalid" /\ MaySelect(cat, aux[i], Now, Protected)
      BY SameQuestions DEF OfKind, Allowed, MaySelect
    <3>3. i \in OfKind({"work"}) <=> aux[i].kind = "work"
      BY DEF OfKind
    <3>4. i \in Items <=> /\ \/ aux[i].kind = "work"
                             \/ /\ aux[i].kind = "invalid" \/ RestoreOf(cat, aux[i])
                                /\ MaySelect(cat, aux[i], Now, Protected)
                          /\ i \notin Ready
      BY DEF Items, ForSize, Ready
    <3> QED
      BY <3>1, <3>2, <3>3, <3>4 DEF SpareLoops
  <2>3. Items \subseteq DOMAIN aux
    BY DEF Items, ForSize
  <2> QED
    BY <2>1, <2>2, <2>3
<1> QED
  BY <1>3, <1>4, <1>5

(* The listing starts the addition with nothing taken for the size.         *)
LEMMA ListStep == PlanInv /\ List => PlanInv'
<1> SUFFICES ASSUME PlanInv, List PROVE PlanInv'
  OBVIOUS
<1>0. /\ InputOK /\ date \in Int /\ InList /\ pass' = "auxiliary"
      /\ UNCHANGED <<input, date, count, chosen>>
  BY DEF PlanInv, List
<1>1. /\ gone' = ReadyGone
      /\ bytes' = Projected(cat, aux, Ready)
      /\ todo' = IF pol.maxSize = None THEN {} ELSE Items
  <2>1. /\ gone' = For("expired", Overdue) \cup For("abandoned", Leftover)
        /\ bytes' = Projected(cat, aux, Overdue \cup Leftover)
        /\ todo' = IF pol.maxSize = None THEN {} ELSE SpareLoops(Overdue \cup Leftover)
    BY DEF List, Overdue, Leftover
  <2> QED
    BY <1>0, <2>1, LoopsList
<1> DEFINE taken == IF pol.maxSize = None THEN {} ELSE Items \ todo'
<1>2. taken = {} /\ Marked(taken, "max-size") = {} /\ Ready \cup taken = Ready
  BY <1>1 DEF Marked
<1>3. /\ todo' \subseteq Items
      /\ pol.maxSize = None => todo' = {}
      /\ gone' = ReadyGone \cup Marked(taken, "max-size")
      /\ bytes' = Projected(cat, aux, Ready \cup taken)
      /\ taken \subseteq Spare
      /\ \A i \in taken, j \in todo' : AuxBefore(cat, aux, i, j)
      /\ chosen' = {}
      /\ count' = Cardinality(DOMAIN cat)
  <2> HIDE DEF taken
  <2> QED
    BY <1>0, <1>1, <1>2 DEF InList
<1>4. InAux' /\ InputOK'
  BY <1>0, <1>3, InputKept DEF InAux, Marked
<1> QED
  BY <1>0, <1>4 DEF PlanInv

(* Auxiliary data that is selected belongs to the plan.                     *)
LEMMA SelectAuxStep == PlanInv /\ SelectAux => PlanInv'
<1> SUFFICES ASSUME PlanInv, SelectAux PROVE PlanInv'
  OBVIOUS
<1> DEFINE i == NextItem
           taken == Items \ todo
<1>0. /\ InputOK /\ InAux /\ pass = "auxiliary" /\ pass' = "auxiliary"
      /\ date \in Int /\ UNCHANGED <<input, date, count, chosen>>
  BY DEF PlanInv, SelectAux, InList
<1>1. Items \subseteq DOMAIN aux \ Ready
  BY DEF Items, ForSize, Ready
<1>2. i \in todo /\ \A j \in todo \ {i} : AuxBefore(cat, aux, i, j)
  BY <1>0, <1>1, NextItemLeast DEF InputOK, InAux, SelectAux
<1>3. pol.maxSize # None
  BY <1>2, <1>0 DEF InAux
<1>4. /\ gone = ReadyGone \cup Marked(taken, "max-size")
      /\ bytes = Projected(cat, aux, Ready \cup taken)
      /\ \A k \in taken, j \in todo : AuxBefore(cat, aux, k, j)
      /\ taken \subseteq Spare
      /\ i \in Items /\ todo \subseteq Items
  BY <1>0, <1>2, <1>3 DEF InAux
<1>5. i \in Spare
  <2>1. {j \in Items : AuxBefore(cat, aux, j, i)} = taken
    <3>1. \A j \in taken : AuxBefore(cat, aux, j, i)
      BY <1>2, <1>4
    <3>2. \A j \in todo : ~AuxBefore(cat, aux, j, i)
      BY <1>0, <1>1, <1>2, <1>4, AuxBeforeOrder DEF InputOK
    <3> QED
      BY <3>1, <3>2, <1>4
  <2>2. Projected(cat, aux, Ready \cup taken) > pol.maxSize
    BY <1>4 DEF SelectAux
  <2> HIDE DEF i, taken
  <2> QED
    BY <1>3, <1>4, <2>1, <2>2 DEF Spare, OverSizeAux, Items, Ready
<1>6. Items \ todo' = taken \cup {i}
  BY <1>2, <1>4 DEF SelectAux
<1>7. gone' = ReadyGone \cup Marked(taken \cup {i}, "max-size")
  BY <1>4 DEF SelectAux, Marked
<1>8. bytes' = Projected(cat, aux, Ready \cup (taken \cup {i}))
  <2> DEFINE S == DOMAIN aux \ (Ready \cup taken)
  <2>1. i \in S /\ S \ {i} = DOMAIN aux \ (Ready \cup (taken \cup {i}))
    BY <1>1, <1>2, <1>4
  <2>2. Bytes(aux, S) = aux[i].size + Bytes(aux, S \ {i})
    <3>1. S \in SUBSET DOMAIN aux
      OBVIOUS
    <3>2. Sizes(aux, S)
      <4> HIDE DEF S
      <4> QED
        BY <1>0, <3>1, ItemSizes
    <3> HIDE DEF S, i
    <3> QED
      BY <2>1, <3>2, BytesWithout
  <2>3. bytes = Bytes(cat, DOMAIN cat) + Bytes(aux, S) /\ bytes' = bytes - aux[i].size
    BY <1>4 DEF Projected, SelectAux
  <2>4. Bytes(cat, DOMAIN cat) \in Nat /\ Bytes(aux, S \ {i}) \in Nat /\ aux[i].size \in Nat
    <3>1. Bytes(cat, DOMAIN cat) \in Nat
      BY <1>0, EntrySizes
    <3>2. S \ {i} \in SUBSET DOMAIN aux /\ i \in DOMAIN aux
      BY <1>1, <1>4
    <3> HIDE DEF S, i
    <3> QED
      BY <1>0, <3>1, <3>2, ItemSizes DEF InputOK, AuxOK
  <2>5. Projected(cat, aux, Ready \cup (taken \cup {i}))
          = Bytes(cat, DOMAIN cat) + Bytes(aux, S \ {i})
    BY <2>1 DEF Projected
  <2> HIDE DEF S, i, taken
  <2> QED
    BY <2>2, <2>3, <2>4, <2>5
<1>9. \A k \in taken \cup {i}, j \in todo' : AuxBefore(cat, aux, k, j)
  BY <1>2, <1>4 DEF SelectAux
<1>10. /\ todo' \subseteq Items /\ pol.maxSize # None
       /\ gone' = ReadyGone \cup Marked(Items \ todo', "max-size")
       /\ bytes' = Projected(cat, aux, Ready \cup (Items \ todo'))
       /\ Items \ todo' \subseteq Spare
       /\ \A k \in Items \ todo', j \in todo' : AuxBefore(cat, aux, k, j)
       /\ chosen' = {} /\ count' = Cardinality(DOMAIN cat)
  <2>1. chosen' = {} /\ count' = Cardinality(DOMAIN cat) /\ todo' \subseteq Items
    BY <1>0, <1>4 DEF InAux, SelectAux
  <2> HIDE DEF i, taken
  <2> QED
    BY <1>3, <1>4, <1>5, <1>6, <1>7, <1>8, <1>9, <2>1
<1>11. InAux' /\ InputOK'
  BY <1>0, <1>10, InputKept DEF InAux, Marked
<1> QED
  BY <1>0, <1>11 DEF PlanInv

(* What is planned for the auxiliary data, in its two parts.                *)
LEMMA PlannedAux ==
  /\ AuxPlanned(cat, aux, pol, Now, Protected) = ReadyGone \cup Marked(Spare, "max-size")
  /\ {c.id : c \in ReadyGone} = Ready
  /\ \A c \in ReadyGone : c.reason # "max-size"
<1> DEFINE why(i) == IF Abandoned(cat, aux[i], Now, Protected) THEN "abandoned" ELSE "expired"
           first == {[id |-> i, reason |-> why(i)] : i \in Ready}
<1>1. AuxPlanned(cat, aux, pol, Now, Protected) = first \cup Marked(Spare, "max-size")
  BY DEF AuxPlanned, Ready, Spare, Marked
<1>2. \A c \in first : c.id \in Ready /\ c.reason # "max-size"
  OBVIOUS
<1>3. \A i \in Ready : \E c \in first : c.id = i
  <2> SUFFICES ASSUME NEW i \in Ready PROVE \E c \in first : c.id = i
    OBVIOUS
  <2>1. [id |-> i, reason |-> why(i)] \in first
    OBVIOUS
  <2> QED
    BY <2>1
<1>4. ReadyGone = first
  BY ListedGone
<1> HIDE DEF first
<1>5. {c.id : c \in first} = Ready
  BY <1>2, <1>3
<1> QED
  BY <1>1, <1>2, <1>4, <1>5

(* The addition is over when it has come to an item that no limit needs.    *)
LEMMA SpareTaken ==
  ASSUME InputOK, InAux, todo # {} => bytes <= pol.maxSize
  PROVE  gone = AuxPlanned(cat, aux, pol, Now, Protected)
<1> DEFINE taken == IF pol.maxSize = None THEN {} ELSE Items \ todo
<1>1. /\ gone = ReadyGone \cup Marked(taken, "max-size") /\ taken \subseteq Spare
      /\ todo \subseteq Items /\ bytes = Projected(cat, aux, Ready \cup taken)
      /\ \A k \in taken, j \in todo : AuxBefore(cat, aux, k, j)
  BY DEF InAux
<1>2. Items \subseteq DOMAIN aux \ Ready /\ Spare \subseteq Items /\ Ready \subseteq DOMAIN aux
  BY DEF Items, ForSize, Ready, Listed, Spare, OverSizeAux
<1>3. ASSUME NEW j \in Spare, j \in todo PROVE FALSE
  <2> DEFINE earlier == {k \in Items : AuxBefore(cat, aux, k, j)}
  <2>1. pol.maxSize # None /\ Projected(cat, aux, Ready \cup earlier) > pol.maxSize
    BY DEF Spare, OverSizeAux, Items, Ready
  <2>2. taken \subseteq earlier
    BY <1>1, <1>2, <1>3
  <2>3. Bytes(aux, DOMAIN aux \ (Ready \cup earlier)) <= Bytes(aux, DOMAIN aux \ (Ready \cup taken))
    <3>1. /\ DOMAIN aux \ (Ready \cup taken) \in SUBSET DOMAIN aux
          /\ DOMAIN aux \ (Ready \cup earlier) \in SUBSET (DOMAIN aux \ (Ready \cup taken))
      BY <2>2
    <3> HIDE DEF earlier, taken
    <3> QED
      BY <3>1, ItemSizes
  <2>4. /\ Bytes(cat, DOMAIN cat) \in Nat /\ Bytes(aux, DOMAIN aux \ (Ready \cup earlier)) \in Nat
        /\ Bytes(aux, DOMAIN aux \ (Ready \cup taken)) \in Nat
    BY EntrySizes, ItemSizes
  <2>5. bytes <= pol.maxSize /\ pol.maxSize \in Nat
    BY <1>3, <2>1 DEF InputOK, Policy, Optional
  <2> HIDE DEF earlier, taken
  <2> QED
    BY <1>1, <2>1, <2>3, <2>4, <2>5 DEF Projected
<1>4. Spare = taken
  <2>1. pol.maxSize = None => Spare = {}
    BY DEF Spare, OverSizeAux
  <2> QED
    BY <1>1, <1>2, <1>3, <2>1
<1> QED
  BY <1>1, <1>4, PlannedAux

(* When the addition is over the first pass over the entries starts.        *)
LEMMA AuxDoneStep == PlanInv /\ AuxDone => PlanInv'
<1> SUFFICES ASSUME PlanInv, AuxDone PROVE PlanInv'
  OBVIOUS
<1>0. /\ InputOK /\ InAux /\ pass' = "expired" /\ UNCHANGED <<input, count, gone, chosen>>
      /\ date' \in Int
      /\ todo' = (IF pol.retention = None THEN {} ELSE DOMAIN cat)
      /\ bytes' = Bytes(cat, DOMAIN cat) /\ chosen = {} /\ count = Cardinality(DOMAIN cat)
  BY NumbersAssumption DEF PlanInv, AuxDone, InAux
<1>1. gone = AuxPlanned(cat, aux, pol, Now, Protected)
  BY <1>0, SpareTaken DEF AuxDone
<1>2. Selected' = {} /\ Remaining' = DOMAIN cat
  BY <1>0 DEF Selected, Remaining, input
<1>3. Counted'
  BY <1>0, <1>1, <1>2, InputKept DEF Counted
<1>4. InExpired'
  <2>1. Old' \ todo' = {}
    BY <1>0, InputKept DEF Old, Expired, Older
  <2> QED
    BY <1>0, <2>1, InputKept DEF InExpired, Marked
<1> QED
  BY <1>0, <1>3, <1>4, InputKept DEF PlanInv

------------------------------------------------------------------------------
(* What has been selected in each pass.                                     *)
LEMMA SelectedSoFar ==
  /\ InExpired => Selected = Old \ todo
  /\ InMany => Selected = Old \cup (Many \ todo)
  /\ InLarge => Selected = Old \cup Many \cup (Large \ todo)
<1> DEFINE ids(S) == {c.id : c \in S}
<1>1. \A S, T : ids(S \cup T) = ids(S) \cup ids(T)
  OBVIOUS
<1>2. \A S, r : ids(Marked(S, r)) = S
  BY Ids
<1>3. Selected = ids(chosen)
  BY DEF Selected
<1> HIDE DEF ids
<1>4. ASSUME InExpired PROVE Selected = Old \ todo
  BY <1>2, <1>3, <1>4 DEF InExpired
<1>5. ASSUME InMany PROVE Selected = Old \cup (Many \ todo)
  <2>1. chosen = Marked(Old, "expired") \cup Marked(Many \ todo, "max-entries")
    BY <1>5 DEF InMany
  <2> QED
    BY <1>1, <1>2, <1>3, <2>1
<1>6. ASSUME InLarge PROVE Selected = Old \cup Many \cup (Large \ todo)
  <2>1. chosen = (Marked(Old, "expired") \cup Marked(Many, "max-entries"))
                   \cup Marked(Large \ todo, "max-size")
    BY <1>6 DEF InLarge
  <2>2. ids(Marked(Old, "expired") \cup Marked(Many, "max-entries")) = Old \cup Many
    BY <1>1, <1>2
  <2> QED
    BY <1>1, <1>2, <1>3, <2>1, <2>2
<1> QED
  BY <1>4, <1>5, <1>6

------------------------------------------------------------------------------
(* The passes over the entries. *)
(* The entry whose turn it is. *)
LEMMA TurnOf ==
  ASSUME PlanInv, pass \notin {"list", "auxiliary"}, todo # {}
  PROVE  /\ NextEntry \in todo /\ \A f \in todo \ {NextEntry} : Before(cat, NextEntry, f)
         /\ todo \subseteq Remaining /\ todo \subseteq DOMAIN cat
<1>1. todo \subseteq DOMAIN cat
  BY DEF PlanInv, InExpired, InMany, InLarge, InTurn, Young, Few
<1>2. todo \subseteq Remaining
  BY <1>1, SelectedSoFar DEF PlanInv, InExpired, InMany, InLarge, InTurn, Young, Few, Remaining
<1> QED
  BY <1>1, <1>2, NextEntryLeast DEF PlanInv, InputOK

(* In the pass by age the entry at its turn is selected if it is old.       *)
LEMMA WantedOld ==
  ASSUME PlanInv, pass = "expired", todo # {}
  PROVE  NextEntry \in Old <=> Wanted(NextEntry) /\ May(cat, NextEntry)
<1>1. NextEntry \in DOMAIN cat /\ pol.retention # None
  BY TurnOf DEF PlanInv, InExpired
<1> HIDE DEF NextEntry
<1> QED
  BY <1>1 DEF Old, Expired, Older, Wanted, May

(* In the pass by number, what is too many at its turn; and nothing that    *)
(* follows it is, if it is not.                                             *)
LEMMA WantedMany ==
  ASSUME PlanInv, pass = "max-entries", todo # {}
  PROVE  /\ NextEntry \in Many <=> Wanted(NextEntry) /\ May(cat, NextEntry)
         /\ ~Wanted(NextEntry) => Many \cap todo = {}
<1> DEFINE e == NextEntry
<1>0. InputOK /\ Counted /\ InMany /\ InTurn(cat, Young, todo, Many) /\ pol.maxEntries # None
  BY DEF PlanInv, InMany
<1>1. e \in todo /\ \A f \in todo \ {e} : Before(cat, e, f)
  BY TurnOf
<1>2. /\ Earlier(cat, Young, e, date, Protected) = Many \ todo
      /\ \A g \in todo : Many \ todo \subseteq Earlier(cat, Young, g, date, Protected)
  <2>1. CatalogOK(cat) /\ Young \subseteq DOMAIN cat /\ \A f \in Many : f \in Young /\ May(cat, f)
    BY <1>0, Wholes DEF InputOK, Young
  <2> HIDE DEF e
  <2> QED
    BY <1>0, <1>1, <2>1, EarlierTaken
<1>3. Remaining = Young \ (Many \ todo)
  BY <1>0, SelectedSoFar DEF Remaining, Young
<1>4. count = Cardinality(Young \ (Many \ todo)) /\ (Wanted(e) <=> count > pol.maxEntries)
  BY <1>0, <1>3 DEF Counted, Wanted
<1>5. e \in Young /\ todo \subseteq Young
  BY <1>0, <1>1 DEF InTurn
<1>6. e \in Many <=> Wanted(e) /\ May(cat, e)
  BY <1>0, <1>2, <1>4, <1>5 DEF Many, OverCount, May
<1>7. ASSUME ~Wanted(e), NEW g \in todo, g \in Many PROVE FALSE
  <2>1. Cardinality(Young \ Earlier(cat, Young, g, date, Protected)) > pol.maxEntries
    BY <1>7 DEF Many, OverCount
  <2>2. Young \ Earlier(cat, Young, g, date, Protected) \subseteq Young \ (Many \ todo)
    BY <1>2
  <2>3. Young \ (Many \ todo) \in SUBSET DOMAIN cat
    BY DEF Young
  <2>4. /\ Cardinality(Young \ Earlier(cat, Young, g, date, Protected)) \in Nat
        /\ Cardinality(Young \ Earlier(cat, Young, g, date, Protected)) <= count /\ count \in Nat
    BY <1>0, <1>4, <2>2, <2>3, EntrySizes
  <2>5. pol.maxEntries \in Nat
    BY <1>0 DEF InputOK, Policy, Optional
  <2> QED
    BY <1>4, <1>7, <2>1, <2>4, <2>5
<1> QED
  BY <1>6, <1>7

(* The same in the pass by size.                                            *)
LEMMA WantedLarge ==
  ASSUME PlanInv, pass = "max-size", todo # {}
  PROVE  /\ NextEntry \in Large <=> Wanted(NextEntry) /\ May(cat, NextEntry)
         /\ ~Wanted(NextEntry) => Large \cap todo = {}
<1> DEFINE e == NextEntry
<1>0. /\ InputOK /\ Counted /\ InLarge /\ InTurn(cat, Few, todo, Large)
      /\ Limits.maxSize # None /\ Limits.maxSize \in Nat
  BY LimitsOK DEF PlanInv, InLarge, Optional
<1>1. e \in todo /\ \A f \in todo \ {e} : Before(cat, e, f)
  BY TurnOf
<1>2. /\ Earlier(cat, Few, e, date, Protected) = Large \ todo
      /\ \A g \in todo : Large \ todo \subseteq Earlier(cat, Few, g, date, Protected)
  <2>1. CatalogOK(cat) /\ Few \subseteq DOMAIN cat /\ \A f \in Large : f \in Few /\ May(cat, f)
    BY <1>0, Wholes DEF InputOK, Few
  <2> HIDE DEF e
  <2> QED
    BY <1>0, <1>1, <2>1, EarlierTaken
<1>3. Remaining = Few \ (Large \ todo)
  BY <1>0, SelectedSoFar DEF Remaining, Few
<1>4. bytes = Bytes(cat, Few \ (Large \ todo)) /\ (Wanted(e) <=> bytes > Limits.maxSize)
  BY <1>0, <1>3 DEF Counted, Wanted
<1>5. e \in Few /\ todo \subseteq Few
  BY <1>0, <1>1 DEF InTurn
<1>6. e \in Large <=> Wanted(e) /\ May(cat, e)
  BY <1>0, <1>2, <1>4, <1>5 DEF Large, OverSize, May
<1>7. ASSUME ~Wanted(e), NEW g \in todo, g \in Large PROVE FALSE
  <2>1. Bytes(cat, Few \ Earlier(cat, Few, g, date, Protected)) > Limits.maxSize
    BY <1>7 DEF Large, OverSize
  <2>2. Few \ Earlier(cat, Few, g, date, Protected) \subseteq Few \ (Large \ todo)
    BY <1>2
  <2>3. Few \ (Large \ todo) \in SUBSET DOMAIN cat
    BY DEF Few
  <2>4. /\ Bytes(cat, Few \ Earlier(cat, Few, g, date, Protected)) \in Nat
        /\ Bytes(cat, Few \ Earlier(cat, Few, g, date, Protected)) <= bytes /\ bytes \in Nat
    BY <1>0, <1>4, <2>2, <2>3, EntrySizes
  <2> QED
    BY <1>0, <1>4, <1>7, <2>1, <2>4
<1> QED
  BY <1>6, <1>7

(* One visit further in a pass.                                             *)
LEMMA TurnGoesOn ==
  ASSUME NEW c, NEW S, NEW T, NEW W, NEW e \in T, InTurn(c, S, T, W),
         \A f \in T \ {e} : Before(c, e, f), May(c, e) => e \in W
  PROVE  InTurn(c, S, T \ {e}, W)
  BY DEF InTurn

(* What has been selected one visit further.                                *)
LEMMA MarkedMore ==
  ASSUME NEW W, NEW T, NEW e \in T, NEW r
  PROVE  /\ e \in W => Marked(W \ (T \ {e}), r) = Marked(W \ T, r) \cup {[id |-> e, reason |-> r]}
         /\ e \notin W => Marked(W \ (T \ {e}), r) = Marked(W \ T, r)
<1>1. e \in W => W \ (T \ {e}) = (W \ T) \cup {e}
  OBVIOUS
<1>2. e \notin W => W \ (T \ {e}) = W \ T
  OBVIOUS
<1>3. Marked((W \ T) \cup {e}, r) = Marked(W \ T, r) \cup {[id |-> e, reason |-> r]}
  BY DEF Marked
<1> QED
  BY <1>1, <1>2, <1>3

(* A selection lowers both counters by what it takes.                       *)
LEMMA SelectCounts ==
  ASSUME PlanInv, Select
  PROVE  Counted'
<1> DEFINE e == NextEntry
<1>0. /\ InputOK /\ Counted /\ e \in todo /\ todo \subseteq Remaining /\ todo \subseteq DOMAIN cat
      /\ UNCHANGED <<input, date, gone>>
  <2>1. pass \notin {"list", "auxiliary"} /\ todo # {}
    BY DEF Select, Wanted
  <2>2. InputOK /\ Counted
    BY <2>1 DEF PlanInv
  <2>3. e \in todo /\ todo \subseteq Remaining /\ todo \subseteq DOMAIN cat
    BY <2>1, TurnOf
  <2> QED
    BY <2>2, <2>3 DEF Select
<1>1. /\ chosen' = chosen \cup {[id |-> e, reason |-> pass]}
      /\ count' = count - 1 /\ bytes' = bytes - cat[e].size
  BY DEF Select
<1> HIDE DEF e
<1>2. Remaining' = Remaining \ {e}
  <2>1. Selected' = Selected \cup {e}
    <3> DEFINE new == [id |-> e, reason |-> pass]
    <3>1. chosen' = chosen \cup {new} /\ new.id = e
      BY <1>1
    <3> HIDE DEF new
    <3> QED
      BY <3>1 DEF Selected
  <2>2. cat' = cat
    BY <1>0 DEF input
  <2> QED
    BY <2>1, <2>2 DEF Remaining
<1>3. Remaining \in SUBSET DOMAIN cat /\ e \in Remaining
  BY <1>0 DEF Remaining
<1>4. Sizes(cat, Remaining) /\ IsFiniteSet(Remaining)
  BY <1>0, <1>3, EntrySizes
<1>5. Cardinality(Remaining \ {e}) = Cardinality(Remaining) - 1
  BY <1>3, <1>4, FS_RemoveElement
<1>6. Bytes(cat, Remaining) = cat[e].size + Bytes(cat, Remaining \ {e})
  BY <1>3, <1>4, BytesWithout
<1>7. cat[e].size \in Nat /\ Bytes(cat, Remaining \ {e}) \in Nat
  <2>1. Remaining \ {e} \in SUBSET DOMAIN cat
    BY <1>3
  <2> QED
    BY <1>0, <1>3, <1>4, <2>1, EntrySizes DEF Sizes
<1>8. Bytes(cat, Remaining)- cat[e].size = Bytes(cat, Remaining \ {e})
  BY <1>6, <1>7
<1>9. cat' = cat /\ gone' = AuxPlanned(cat, aux, pol, Now, Protected)'
  BY <1>0, InputKept DEF Counted
<1> QED
  BY <1>0, <1>1, <1>2, <1>5, <1>8, <1>9 DEF Counted

(* What selects nothing leaves the counters right.                          *)
LEMMA CountsKept ==
  ASSUME Counted, UNCHANGED <<input, date, count, bytes, gone, chosen>>
  PROVE  Counted'
<1>1. cat' = cat /\ Remaining' = Remaining
  BY DEF input, Remaining, Selected
<1>2. gone' = AuxPlanned(cat, aux, pol, Now, Protected)'
  BY InputKept DEF Counted
<1> QED
  BY <1>1, <1>2 DEF Counted

(* The invariant of each pass, after a step, from what the step leaves to   *)
(* visit and has selected.                                                  *)
LEMMA AgeKept ==
  ASSUME UNCHANGED <<input, date, gone>>, pol.retention = None => todo' = {},
         todo' \subseteq DOMAIN cat, chosen' = Marked(Old \ todo', "expired")
  PROVE  InExpired'
<1>1. Old' = Old /\ cat' = cat /\ pol' = pol
  BY InputKept, DateKept
<1> QED
  BY <1>1 DEF InExpired, Marked

LEMMA ManyKept ==
  ASSUME UNCHANGED <<input, date, gone>>, pol.maxEntries = None => todo' = {},
         InTurn(cat, Young, todo', Many),
         chosen' = Marked(Old, "expired") \cup Marked(Many \ todo', "max-entries")
  PROVE  InMany'
<1>1. /\ Old' = Old /\ Young' = Young /\ Many' = Many
      /\ cat' = cat /\ pol' = pol /\ date' = date
  BY InputKept, DateKept
<1> QED
  BY <1>1 DEF InMany, Marked, InTurn, May, Before, CanSelect

LEMMA LargeKept ==
  ASSUME UNCHANGED <<input, date, gone>>, pol.maxSize = None => todo' = {},
         InTurn(cat, Few, todo', Large),
         chosen' = Marked(Old, "expired") \cup Marked(Many, "max-entries")
                     \cup Marked(Large \ todo', "max-size")
  PROVE  InLarge'
<1>1. /\ Old' = Old /\ Few' = Few /\ Many' = Many /\ Large' = Large
      /\ cat' = cat /\ pol' = pol /\ date' = date
  BY InputKept, DateKept, LimitsKept
<1> QED
  BY <1>1 DEF InLarge, Marked, InTurn, May, Before, CanSelect

(* What a pass selects belongs to the plan.                                 *)
LEMMA SelectStep == PlanInv /\ Select => PlanInv'
<1> SUFFICES ASSUME PlanInv, Select PROVE PlanInv'
  OBVIOUS
<1> DEFINE e == NextEntry
<1>0. /\ pass \in {"expired", "max-entries", "max-size"} /\ pass' = pass
      /\ todo # {} /\ Wanted(e) /\ May(cat, e) /\ todo' = todo \ {e}
      /\ chosen' = chosen \cup {[id |-> e, reason |-> pass]}
      /\ UNCHANGED <<input, date, gone>>
  BY DEF Select, Wanted, May
<1>1. e \in todo /\ \A f \in todo \ {e} : Before(cat, e, f)
  BY <1>0, TurnOf
<1>2. InputOK' /\ Counted'
  BY <1>0, SelectCounts, InputKept DEF PlanInv
<1>3. ASSUME pass = "expired" PROVE InExpired'
  <2>1. e \in Old
    BY <1>0, <1>3, WantedOld
  <2> HIDE DEF e
  <2>2. InExpired
    BY <1>3 DEF PlanInv
  <2>3. Marked(Old \ todo', "expired")
          = Marked(Old \ todo, "expired") \cup {[id |-> e, reason |-> "expired"]}
    <3>1. e \in todo /\ todo' = todo \ {e}
      BY <1>0, <1>1
    <3> QED
      BY <2>1, <3>1, MarkedMore
  <2>4. chosen' = Marked(Old \ todo', "expired")
    BY <1>0, <1>3, <2>2, <2>3 DEF InExpired
  <2>5. todo' \subseteq DOMAIN cat /\ (pol.retention = None => todo' = {})
    BY <1>0, <1>1, <2>2 DEF InExpired
  <2> QED
    BY <1>0, <2>4, <2>5, AgeKept
<1>4. ASSUME pass = "max-entries" PROVE InMany'
  <2>1. e \in Many
    BY <1>0, <1>4, WantedMany
  <2> HIDE DEF e
  <2>2. InMany
    BY <1>4 DEF PlanInv
  <2>3. Marked(Many \ todo', "max-entries")
          = Marked(Many \ todo, "max-entries") \cup {[id |-> e, reason |-> "max-entries"]}
    <3>1. e \in todo /\ todo' = todo \ {e}
      BY <1>0, <1>1
    <3> QED
      BY <2>1, <3>1, MarkedMore
  <2>4. chosen' = Marked(Old, "expired") \cup Marked(Many \ todo', "max-entries")
    BY <1>0, <1>4, <2>2, <2>3 DEF InMany
  <2>5. InTurn(cat, Young, todo', Many)
    BY <1>0, <1>1, <2>1, <2>2, TurnGoesOn DEF InMany
  <2>6. pol.maxEntries = None => todo' = {}
    BY <1>0, <1>1, <2>2 DEF InMany
  <2> QED
    BY <1>0, <2>4, <2>5, <2>6, ManyKept
<1>5. ASSUME pass = "max-size" PROVE InLarge'
  <2>1. e \in Large
    BY <1>0, <1>5, WantedLarge
  <2> HIDE DEF e
  <2>2. InLarge
    BY <1>5 DEF PlanInv
  <2>3. Marked(Large \ todo', "max-size")
          = Marked(Large \ todo, "max-size") \cup {[id |-> e, reason |-> "max-size"]}
    <3>1. e \in todo /\ todo' = todo \ {e}
      BY <1>0, <1>1
    <3> QED
      BY <2>1, <3>1, MarkedMore
  <2>4. chosen' = Marked(Old, "expired") \cup Marked(Many, "max-entries")
                    \cup Marked(Large \ todo', "max-size")
    BY <1>0, <1>5, <2>2, <2>3 DEF InLarge
  <2>5. InTurn(cat, Few, todo', Large)
    BY <1>0, <1>1, <2>1, <2>2, TurnGoesOn DEF InLarge
  <2>6. pol.maxSize = None => todo' = {}
    BY <1>0, <1>1, <2>2 DEF InLarge
  <2> QED
    BY <1>0, <2>4, <2>5, <2>6, LargeKept
<1> QED
  BY <1>0, <1>2, <1>3, <1>4, <1>5 DEF PlanInv

(* An entry at its turn that is not selected, whether it is protected or    *)
(* not wanted: the pass goes on without it.                                 *)
LEMMA GoesOn ==
  ASSUME PlanInv, pass \notin {"list", "auxiliary"}, pass' = pass, todo # {},
         UNCHANGED <<input, date, count, bytes, gone, chosen>>,
         \/ todo' = todo \ {NextEntry} /\ ~May(cat, NextEntry)
         \/ todo' = todo \ {NextEntry} /\ ~Wanted(NextEntry) /\ pass = "expired"
         \/ todo' = {} /\ ~Wanted(NextEntry) /\ pass # "expired"
  PROVE  PlanInv'
<1> DEFINE e == NextEntry
<1>1. e \in todo /\ \A f \in todo \ {e} : Before(cat, e, f)
  BY TurnOf
<1>2. InputOK' /\ Counted'
  BY CountsKept, InputKept DEF PlanInv
<1>3. pass \in {"expired", "max-entries", "max-size"} /\ todo' \subseteq todo
  BY DEF PlanInv
<1>4. ASSUME pass = "expired" PROVE InExpired'
  <2>1. e \notin Old /\ todo' = todo \ {e}
    BY <1>4, WantedOld
  <2> HIDE DEF e
  <2>2. InExpired
    BY <1>4 DEF PlanInv
  <2>3. chosen' = Marked(Old \ todo', "expired")
    BY <1>1, <2>1, <2>2, MarkedMore DEF InExpired
  <2>4. todo' \subseteq DOMAIN cat /\ (pol.retention = None => todo' = {})
    BY <2>1, <2>2 DEF InExpired
  <2> QED
    BY <2>3, <2>4, AgeKept
<1>5. ASSUME pass = "max-entries" PROVE InMany'
  <2>1. \/ todo' = todo \ {e} /\ ~May(cat, e) /\ e \notin Many
        \/ todo' = {} /\ Many \cap todo = {}
    BY <1>5, WantedMany
  <2> HIDE DEF e
  <2>2. InMany
    BY <1>5 DEF PlanInv
  <2>3. Marked(Many \ todo', "max-entries") = Marked(Many \ todo, "max-entries")
    <3>1. Many \ todo' = Many \ todo
      BY <2>1
    <3> QED
      BY <3>1
  <2>4. chosen' = Marked(Old, "expired") \cup Marked(Many \ todo', "max-entries")
    BY <2>2, <2>3 DEF InMany
  <2>5. InTurn(cat, Young, todo', Many)
    <3>1. InTurn(cat, Young, {}, Many)
      BY DEF InTurn
    <3> QED
      BY <1>1, <2>1, <2>2, <3>1, TurnGoesOn DEF InMany
  <2>6. pol.maxEntries = None => todo' = {}
    BY <1>3, <2>2 DEF InMany
  <2> QED
    BY <2>4, <2>5, <2>6, ManyKept
<1>6. ASSUME pass = "max-size" PROVE InLarge'
  <2>1. \/ todo' = todo \ {e} /\ ~May(cat, e) /\ e \notin Large
        \/ todo' = {} /\ Large \cap todo = {}
    BY <1>6, WantedLarge
  <2> HIDE DEF e
  <2>2. InLarge
    BY <1>6 DEF PlanInv
  <2>3. Marked(Large \ todo', "max-size") = Marked(Large \ todo, "max-size")
    <3>1. Large \ todo' = Large \ todo
      BY <2>1
    <3> QED
      BY <3>1
  <2>4. chosen' = Marked(Old, "expired") \cup Marked(Many, "max-entries")
                    \cup Marked(Large \ todo', "max-size")
    BY <2>2, <2>3 DEF InLarge
  <2>5. InTurn(cat, Few, todo', Large)
    <3>1. InTurn(cat, Few, {}, Large)
      BY DEF InTurn
    <3> QED
      BY <1>1, <2>1, <2>2, <3>1, TurnGoesOn DEF InLarge
  <2>6. pol.maxSize = None => todo' = {}
    BY <1>3, <2>2 DEF InLarge
  <2> QED
    BY <2>4, <2>5, <2>6, LargeKept
<1> QED
  BY <1>2, <1>3, <1>4, <1>5, <1>6 DEF PlanInv

(* A pass that has nothing left to visit has selected all that it should.   *)
LEMMA NextPassStep == PlanInv /\ NextPass => PlanInv'
<1> SUFFICES ASSUME PlanInv, NextPass PROVE PlanInv'
  OBVIOUS
<1>1. todo = {} /\ UNCHANGED <<input, date, count, bytes, gone, chosen>> /\ date \in Int
  BY DEF NextPass, PlanInv
<1>2. CASE pass = "expired" /\ pass' = "max-entries"
  <2>1. InExpired /\ InputOK /\ Counted /\ chosen = Marked(Old, "expired")
    BY <1>1, <1>2 DEF PlanInv, InExpired
  <2>2. Remaining = Young
    BY <1>1, <2>1, SelectedSoFar DEF Remaining, Young
  <2>3. todo' = (IF pol.maxEntries = None THEN {} ELSE Young)
    BY <1>2, <2>2 DEF NextPass
  <2>4. InTurn(cat, Young, todo', Many) /\ Many \ todo' = {}
    <3>1. pol.maxEntries = None => Many = {}
      BY DEF Many, OverCount
    <3> QED
      BY <2>3, <3>1, Wholes DEF InTurn
  <2>5. chosen' = Marked(Old, "expired") \cup Marked(Many \ todo', "max-entries")
    <3>1. Marked({}, "max-entries") = {}
      BY DEF Marked
    <3> QED
      BY <1>1, <2>1, <2>4, <3>1
  <2>6. InMany'
    BY <1>1, <2>3, <2>4, <2>5, ManyKept
  <2>7. InputOK' /\ Counted'
    BY <1>1, <2>1, CountsKept, InputKept
  <2> QED
    BY <1>1, <1>2, <2>6, <2>7 DEF PlanInv
<1>3. CASE pass = "max-entries" /\ pass' = "max-size"
  <2>1. /\ InMany /\ InputOK /\ Counted
        /\ chosen = Marked(Old, "expired") \cup Marked(Many, "max-entries")
    BY <1>1, <1>3 DEF PlanInv, InMany
  <2>2. Remaining = Few
    BY <1>1, <2>1, SelectedSoFar DEF Remaining, Few
  <2>3. todo' = (IF pol.maxSize = None THEN {} ELSE Few)
    BY <1>3, <2>2 DEF NextPass
  <2>4. InTurn(cat, Few, todo', Large) /\ Large \ todo' = {}
    <3>1. pol.maxSize = None => Large = {}
      BY <2>1, LimitsOK DEF Large, OverSize
    <3> QED
      BY <2>3, <3>1, Wholes DEF InTurn
  <2>5. chosen' = Marked(Old, "expired") \cup Marked(Many, "max-entries")
                    \cup Marked(Large \ todo', "max-size")
    <3>1. Marked({}, "max-size") = {}
      BY DEF Marked
    <3> QED
      BY <1>1, <2>1, <2>4, <3>1
  <2>6. InLarge'
    BY <1>1, <2>3, <2>4, <2>5, LargeKept
  <2>7. InputOK' /\ Counted'
    BY <1>1, <2>1, CountsKept, InputKept
  <2> QED
    BY <1>1, <1>3, <2>6, <2>7 DEF PlanInv
<1>4. CASE pass = "max-size" /\ pass' = "done"
  <2>1. /\ InLarge /\ InputOK /\ Counted /\ todo' = {}
        /\ chosen' = Marked(Old, "expired") \cup Marked(Many, "max-entries")
                       \cup Marked(Large \ todo', "max-size")
    BY <1>1, <1>4 DEF PlanInv, InLarge, NextPass
  <2>2. InTurn(cat, Few, todo', Large)
    BY <2>1 DEF InTurn
  <2>3. InLarge'
    BY <1>1, <2>1, <2>2, LargeKept
  <2>4. InputOK' /\ Counted'
    BY <1>1, <2>1, CountsKept, InputKept
  <2> QED
    BY <1>1, <1>4, <2>1, <2>3, <2>4 DEF PlanInv
<1> QED
  BY <1>2, <1>3, <1>4 DEF NextPass

(* The invariant depends on the variables alone.                            *)
LEMMA StutterStep == PlanInv /\ UNCHANGED planVars => PlanInv'
<1> SUFFICES ASSUME PlanInv, UNCHANGED planVars PROVE PlanInv'
  OBVIOUS
<1>1. UNCHANGED <<input, date, pass, todo, count, bytes, gone, chosen>>
  BY DEF planVars
<1>8. InList => InList'
  BY <1>1 DEF InList, input
<1>2. InputOK' = InputOK
  BY <1>1, InputKept
<1>3. InAux => InAux'
  BY <1>1 DEF InAux, input, Items, Ready, Spare, ReadyGone, Marked
<1>4. Counted => Counted'
  BY <1>1, CountsKept
<1>5. InExpired => InExpired'
  BY <1>1, AgeKept DEF InExpired
<1>6. InMany => InMany'
  BY <1>1, ManyKept DEF InMany
<1>7. InLarge => InLarge'
  BY <1>1, LargeKept DEF InLarge
<1> QED
  BY <1>1, <1>2, <1>3, <1>4, <1>5, <1>6, <1>7, <1>8 DEF PlanInv

(* Every run of PlanLoop satisfies the invariant of its loops: at every     *)
(* turn exactly that has been selected which the plan says of what was      *)
(* visited, and the counters are right.                                     *)
THEOREM PlanInvariant == PlanSpec => []PlanInv
<1>1. PlanInit => PlanInv
  BY InitPlanInv
<1>2. PlanInv /\ [PlanNext]_planVars => PlanInv'
  <2> SUFFICES ASSUME PlanInv, [PlanNext]_planVars PROVE PlanInv'
    OBVIOUS
  <2>1. CASE SelectAux
    BY <2>1, SelectAuxStep
  <2>2. CASE AuxDone
    BY <2>2, AuxDoneStep
  <2>3. CASE Select
    BY <2>3, SelectStep
  <2>4. CASE PassOver
    BY <2>4, GoesOn DEF PassOver, Wanted, May
  <2>5. CASE Pass
    BY <2>5, GoesOn DEF Pass
  <2>6. CASE NextPass
    BY <2>6, NextPassStep
  <2>7. CASE UNCHANGED planVars
    BY <2>7, StutterStep
  <2>8. CASE List
    BY <2>8, ListStep
  <2> QED
    BY <2>1, <2>2, <2>3, <2>4, <2>5, <2>6, <2>7, <2>8 DEF PlanNext
<1> QED
  BY <1>1, <1>2, PTL DEF PlanSpec

(* The loops select exactly what AuxPlan and PrunePlan say without loops,   *)
(* each for its reason (LoopsComputePlan), for every catalog, auxiliary     *)
(* data and policy.                                                         *)
THEOREM LoopsCompute == PlanSpec => []LoopsComputePlan
<1>1. PlanInv => LoopsComputePlan
  <2> SUFFICES ASSUME PlanInv, pass = "done"
               PROVE  /\ gone = AuxPlanned(cat, aux, pol, Now, Protected)
                      /\ chosen = Planned(cat, Limits, date, Protected)
    BY DEF LoopsComputePlan
  <2>1. InputOK /\ Counted /\ InLarge /\ todo = {}
    BY DEF PlanInv
  <2>2. Limits.retention = pol.retention /\ Limits.maxEntries = pol.maxEntries
    BY <2>1, LimitsOK
  <2>3. Expired(cat, Limits, date, Protected) = Old
    BY <2>2 DEF Expired, Old
  <2>4. OverCount(cat, Young, Limits, date, Protected) = Many
    BY <2>2 DEF OverCount, Many
  <2>5. Planned(cat, Limits, date, Protected)
          = Marked(Old, "expired") \cup Marked(Many, "max-entries") \cup Marked(Large, "max-size")
    BY <2>3, <2>4 DEF Planned, Marked, Young, Few, Large
  <2> QED
    BY <2>1, <2>5 DEF Counted, InLarge
<1> QED
  BY <1>1, PlanInvariant, PTL

------------------------------------------------------------------------------
Finished == PlanInv /\ pass = "done"

(* A finished plan, in its parts.                                           *)
LEMMA WhatIsPlanned ==
  ASSUME Finished
  PROVE  /\ InputOK
         /\ chosen = Marked(Old, "expired") \cup Marked(Many, "max-entries")
                       \cup Marked(Large, "max-size")
         /\ gone = ReadyGone \cup Marked(Spare, "max-size")
         /\ Selected = Old \cup Many \cup Large /\ Remaining = Few \ Large
         /\ Gone = Ready \cup Spare
<1>1. InputOK /\ InLarge /\ Counted /\ todo = {}
  BY DEF Finished, PlanInv
<1>2. chosen = Marked(Old, "expired") \cup Marked(Many, "max-entries")
                 \cup Marked(Large, "max-size")
  BY <1>1 DEF InLarge
<1>3. Selected = Old \cup Many \cup Large
  BY <1>1, SelectedSoFar
<1>4. Remaining = Few \ Large
  BY <1>3 DEF Remaining, Few
<1>5. gone = ReadyGone \cup Marked(Spare, "max-size")
  BY <1>1, PlannedAux DEF Counted
<1>6. Gone = Ready \cup Spare
  <2>1. {c.id : c \in ReadyGone} = Ready
    BY PlannedAux
  <2>2. {c.id : c \in Marked(Spare, "max-size")} = Spare
    BY Ids
  <2> QED
    BY <1>5, <2>1, <2>2 DEF Gone
<1> QED
  BY <1>1, <1>2, <1>3, <1>4, <1>5, <1>6

------------------------------------------------------------------------------
(* Auxiliary data that may be selected stays only if all that was in use    *)
(* without what is selected fits the limit.                                 *)
LEMMA StaysIfFits ==
  ASSUME Finished, NEW i \in RemainingAux, Removable(aux[i]),
         pol.maxSize # None
  PROVE  SizeWith(DOMAIN cat, RemainingAux) <= pol.maxSize
<1>0. InputOK /\ RemainingAux = DOMAIN aux \ (Ready \cup Spare) /\ pol.maxSize \in Nat
  BY WhatIsPlanned DEF RemainingAux, InputOK, Policy, Optional
<1>1. i \in Items \ Spare
  <2>1. i \in DOMAIN aux /\ i \notin Ready /\ i \notin Spare
    BY <1>0
  <2>2. ~Abandoned(cat, aux[i], Now, Protected)
    BY <2>1 DEF Ready, Listed
  <2>3. aux[i].kind \in {"work", "invalid", "restore"}
    BY <1>0, <2>1, <2>2 DEF Removable, Abandoned, InputOK, AuxOK
  <2>4. \/ aux[i].kind = "work"
        \/ /\ aux[i].kind = "invalid" \/ RestoreOf(cat, aux[i])
           /\ MaySelect(cat, aux[i], Now, Protected)
    BY <1>0, <2>1, <2>3 DEF Removable, InputOK, AuxOK
  <2> QED
    BY <2>1, <2>4 DEF Items, ForSize, Ready
<1>2. PICK k \in Items \ Spare : \A j \in (Items \ Spare) \ {k} : AuxBefore(cat, aux, k, j)
  <2>1. Items \ Spare \in SUBSET DOMAIN aux
    BY DEF Items, ForSize
  <2> QED
    BY <1>0, <1>1, <2>1, LeastItem DEF InputOK
<1> DEFINE earlier == {j \in Items : AuxBefore(cat, aux, j, k)}
<1>3. earlier \subseteq Spare
  <2>1. \A j \in Items : j \in DOMAIN aux
    BY DEF Items, ForSize
  <2> QED
    BY <1>0, <1>2, <2>1, AuxBeforeOrder DEF InputOK
<1>4. ~(Projected(cat, aux, Ready \cup earlier) > pol.maxSize)
  BY <1>2 DEF Spare, OverSizeAux, Items, Ready
<1> HIDE DEF earlier
<1>5. RemainingAux \subseteq DOMAIN aux \ (Ready \cup earlier)
  BY <1>0, <1>3
<1>6. Bytes(aux, RemainingAux) <= Bytes(aux, DOMAIN aux \ (Ready \cup earlier))
  <2>1. DOMAIN aux \ (Ready \cup earlier) \in SUBSET DOMAIN aux
    OBVIOUS
  <2> QED
    BY <1>0, <1>5, <2>1, ItemSizes
<1>7. /\ Bytes(aux, RemainingAux) \in Nat /\ Bytes(cat, DOMAIN cat) \in Nat
      /\ Bytes(aux, DOMAIN aux \ (Ready \cup earlier)) \in Nat
  <2>1. /\ RemainingAux \in SUBSET DOMAIN aux
        /\ DOMAIN aux \ (Ready \cup earlier) \in SUBSET DOMAIN aux
    BY <1>0
  <2> QED
    BY <1>0, <2>1, ItemSizes, EntrySizes
<1> QED
  BY <1>0, <1>4, <1>6, <1>7 DEF Projected, SizeWith

(* The limit that the entries are given is what the data leaves of it.      *)
LEMMA LimitLeft ==
  ASSUME Finished, pol.maxSize # None
  PROVE  /\ pol.maxSize \in Nat /\ Limits.maxSize \in Nat /\ Bytes(aux, RemainingAux) \in Nat
         /\ Limits.maxSize + Bytes(aux, RemainingAux) >= pol.maxSize
         /\ Limits.maxSize # 0 => Limits.maxSize + Bytes(aux, RemainingAux) = pol.maxSize
<1>0. InputOK
  BY DEF Finished, PlanInv
<1> DEFINE rest == Bytes(aux, DOMAIN aux \ Gone)
<1>1. rest \in Nat
  BY <1>0, LimitsOK
<1> HIDE DEF rest
<1>2. Limits = [pol EXCEPT !.maxSize = IF @ = None THEN None ELSE IF @ < rest THEN 0 ELSE @ - rest]
  BY DEF Limits, EntryPolicy, rest
<1>3. pol.maxSize \in Nat /\ Bytes(aux, RemainingAux) = rest
  BY <1>0 DEF InputOK, Policy, Optional, RemainingAux, rest
<1> QED
  BY <1>0, <1>1, <1>2, <1>3 DEF InputOK, Policy

(* If one that may be selected stays, the least recent of them is over no   *)
(* limit, and all that stays is no more than stayed at its turn.            *)
LEMMA StaysInNumber ==
  ASSUME Finished, NEW e \in Remaining, May(cat, e), pol.maxEntries # None
  PROVE  Cardinality(Remaining) <= pol.maxEntries
<1> DEFINE left == {f \in Remaining : May(cat, f)}
<1>0. /\ InputOK /\ Remaining = Few \ Large /\ Remaining \subseteq DOMAIN cat
      /\ pol.maxEntries \in Nat
  BY WhatIsPlanned DEF Remaining, InputOK, Policy, Optional
<1>1. PICK k \in left : \A f \in left \ {k} : Before(cat, k, f)
  <2>1. left \in SUBSET DOMAIN cat /\ left # {}
    BY <1>0
  <2> HIDE DEF left
  <2> QED
    BY <1>0, <2>1, LeastEntry DEF InputOK
<1>2. Remaining \subseteq Young \ Earlier(cat, Young, k, date, Protected)
  <2> SUFFICES ASSUME NEW f \in Remaining, f \in Earlier(cat, Young, k, date, Protected) PROVE FALSE
    BY <1>0 DEF Few, Young
  <2>1. f \in left /\ Before(cat, f, k)
    BY DEF Earlier, May
  <2> QED
    BY <1>0, <1>1, <2>1, BeforeOrder DEF InputOK
<1>3. ~(Cardinality(Young \ Earlier(cat, Young, k, date, Protected)) > pol.maxEntries)
  BY <1>0, <1>1 DEF Many, OverCount, Few, Young, May
<1>4. Young \ Earlier(cat, Young, k, date, Protected) \in SUBSET DOMAIN cat
  BY DEF Young
<1>5. /\ Cardinality(Young \ Earlier(cat, Young, k, date, Protected)) \in Nat
      /\ Cardinality(Remaining) <= Cardinality(Young \ Earlier(cat, Young, k, date, Protected))
      /\ Cardinality(Remaining) \in Nat
  BY <1>0, <1>2, <1>4, EntrySizes
<1> QED
  BY <1>0, <1>3, <1>5

(* And the same for the size, in which what is left of the data counts.     *)
LEMMA StaysInSize ==
  ASSUME Finished, NEW e \in Remaining, May(cat, e), pol.maxSize # None
  PROVE  SizeWith(Remaining, RemainingAux) <= pol.maxSize
<1> DEFINE left == {f \in Remaining : May(cat, f)}
<1>0. /\ InputOK /\ Remaining = Few \ Large /\ Remaining \subseteq DOMAIN cat
  BY WhatIsPlanned DEF Remaining
<1>1. PICK k \in left : \A f \in left \ {k} : Before(cat, k, f)
  <2>1. left \in SUBSET DOMAIN cat /\ left # {}
    BY <1>0
  <2> HIDE DEF left
  <2> QED
    BY <1>0, <2>1, LeastEntry DEF InputOK
<1>2. Remaining \subseteq Few \ Earlier(cat, Few, k, date, Protected)
  <2> SUFFICES ASSUME NEW f \in Remaining, f \in Earlier(cat, Few, k, date, Protected) PROVE FALSE
    BY <1>0
  <2>1. f \in left /\ Before(cat, f, k)
    BY DEF Earlier, May
  <2> QED
    BY <1>0, <1>1, <2>1, BeforeOrder DEF InputOK
<1>3. ~(Bytes(cat, Few \ Earlier(cat, Few, k, date, Protected)) > Limits.maxSize)
  BY <1>0, <1>1, LimitsOK DEF Large, OverSize, May
<1>4. Few \ Earlier(cat, Few, k, date, Protected) \in SUBSET DOMAIN cat
  BY DEF Few
<1>5. /\ Bytes(cat, Few \ Earlier(cat, Few, k, date, Protected)) \in Nat
      /\ Bytes(cat, Remaining) <= Bytes(cat, Few \ Earlier(cat, Few, k, date, Protected))
      /\ Bytes(cat, Remaining) \in Nat
  BY <1>0, <1>2, <1>4, EntrySizes
<1>6. Bytes(cat, Remaining) # 0
  <2>1. Bytes(cat, Remaining) = cat[e].size + Bytes(cat, Remaining \ {e})
    BY <1>0, EntrySizes, BytesWithout
  <2>2. Bytes(cat, Remaining \ {e}) \in Nat
    <3>1. Remaining \ {e} \in SUBSET DOMAIN cat
      BY <1>0
    <3> QED
      BY <1>0, <3>1, EntrySizes
  <2>3. cat[e].size \in Nat \ {0}
    BY <1>0 DEF InputOK, CatalogOK
  <2> QED
    BY <2>1, <2>2, <2>3
<1>7. /\ Limits.maxSize \in Nat /\ Bytes(aux, RemainingAux) \in Nat /\ pol.maxSize \in Nat
      /\ Limits.maxSize # 0 => Limits.maxSize + Bytes(aux, RemainingAux) = pol.maxSize
  BY LimitLeft
<1> QED
  BY <1>3, <1>5, <1>6, <1>7 DEF SizeWith

(* A limit stays exceeded only if all that stays is protected.              *)
LEMMA LimitsMet == Finished => LimitsMetOrProtected
<1> SUFFICES ASSUME Finished PROVE LimitsMetOrProtected
  OBVIOUS
<1> DEFINE nothingLeft == \A e \in Remaining : ~CanSelect(cat, e, date, Protected)
<1>0. InputOK /\ Remaining \in SUBSET DOMAIN cat
  BY DEF Finished, PlanInv, Remaining
<1>1. ASSUME pol.maxEntries # None, Cardinality(Remaining) > pol.maxEntries PROVE nothingLeft
  <2>1. Cardinality(Remaining) \in Nat /\ pol.maxEntries \in Nat
    BY <1>0, <1>1, EntrySizes DEF InputOK, Policy, Optional
  <2>2. ~(Cardinality(Remaining) <= pol.maxEntries)
    BY <1>1, <2>1
  <2> QED
    BY <1>1, <2>2, StaysInNumber DEF May
<1>2. ASSUME pol.maxSize # None, SizeWith(Remaining, RemainingAux) > pol.maxSize
      PROVE  nothingLeft /\ \A i \in RemainingAux : ~Removable(aux[i])
  <2>1. /\ Bytes(cat, Remaining) \in Nat /\ Bytes(cat, DOMAIN cat) \in Nat
        /\ Bytes(cat, Remaining) <= Bytes(cat, DOMAIN cat)
    BY <1>0, EntrySizes
  <2>2. Bytes(aux, RemainingAux) \in Nat /\ pol.maxSize \in Nat
    BY <1>2, LimitLeft
  <2>3. ~(SizeWith(Remaining, RemainingAux) <= pol.maxSize)
    BY <1>2, <2>1, <2>2 DEF SizeWith
  <2>4. ~(SizeWith(DOMAIN cat, RemainingAux) <= pol.maxSize)
    BY <1>2, <2>1, <2>2 DEF SizeWith
  <2> QED
    BY <1>2, <2>3, <2>4, StaysInSize, StaysIfFits DEF May
<1> QED
  BY <1>1, <1>2 DEF LimitsMetOrProtected

(* Whoever comes before another has no more before it.                      *)
LEMMA EarlierGrows ==
  ASSUME NEW c, CatalogOK(c), NEW S \in SUBSET DOMAIN c, NEW e \in S, NEW f \in S, Before(c, f, e)
  PROVE  S \ Earlier(c, S, e, date, Protected) \subseteq S \ Earlier(c, S, f, date, Protected)
<1>1. \A g \in S : Before(c, g, f) => Before(c, g, e)
  BY BeforeOrder
<1> QED
  BY <1>1 DEF Earlier

(* The least recently used goes first.                                      *)
LEMMA LeastFirst == Finished => LeastRecentFirst
<1> SUFFICES ASSUME Finished, NEW e \in Selected, NEW f \in Remaining,
                    May(cat, f), ~Before(cat, e, f)
             PROVE  FALSE
  BY DEF LeastRecentFirst, May
<1>0. /\ InputOK /\ e \in Old \cup Many \cup Large /\ f \in Few /\ f \notin Large
      /\ f \in Young /\ f \notin Many /\ f \notin Old /\ e # f
      /\ e \in DOMAIN cat /\ f \in DOMAIN cat
  BY WhatIsPlanned, Wholes DEF Few, Young, Remaining
<1>1. Before(cat, f, e)
  BY <1>0, BeforeOrder DEF InputOK
<1>2. CASE e \in Old
  <2>1. date \in Int
    BY DEF Finished, PlanInv
  <2>5. pol.retention \in Nat /\ cat[e].last \in Int /\ cat[f].last \in Int
    BY <1>0, <1>2 DEF Old, Expired, Older, InputOK, Policy, Optional, CatalogOK
  <2>2. cat[f].last <= cat[e].last
    BY <1>1, <2>5 DEF Before
  <2>3. Older(cat[e].last, date, pol.retention)
    BY <1>2 DEF Old, Expired
  <2>4. Older(cat[f].last, date, pol.retention)
    BY <2>1, <2>2, <2>3, <2>5 DEF Older
  <2> QED
    BY <1>0, <2>4 DEF Old, Expired, May
<1>3. CASE e \in Many
  <2> DEFINE before(g) == Young \ Earlier(cat, Young, g, date, Protected)
  <2>1. before(e) \subseteq before(f)
    <3>1. Young \in SUBSET DOMAIN cat /\ e \in Young
      BY <1>3, Wholes DEF Young
    <3> QED
      BY <1>0, <1>1, <3>1, EarlierGrows DEF InputOK
  <2>2. before(f) \in SUBSET DOMAIN cat /\ before(e) \in SUBSET DOMAIN cat
    BY DEF Young
  <2>3. Cardinality(before(e)) > pol.maxEntries /\ pol.maxEntries # None
    BY <1>3 DEF Many, OverCount
  <2>4. ~(Cardinality(before(f)) > pol.maxEntries)
    BY <1>0, <2>3 DEF Many, OverCount, May
  <2> HIDE DEF before
  <2>5. /\ Cardinality(before(e)) \in Nat /\ Cardinality(before(f)) \in Nat
        /\ Cardinality(before(e)) <= Cardinality(before(f))
    BY <1>0, <2>1, <2>2, EntrySizes
  <2>6. pol.maxEntries \in Nat
    BY <1>0, <2>3 DEF InputOK, Policy, Optional
  <2> QED
    BY <2>3, <2>4, <2>5, <2>6
<1>4. CASE e \in Large
  <2> DEFINE before(g) == Few \ Earlier(cat, Few, g, date, Protected)
  <2>1. before(e) \subseteq before(f)
    <3>1. Few \in SUBSET DOMAIN cat /\ e \in Few
      BY <1>4, Wholes DEF Few
    <3> QED
      BY <1>0, <1>1, <3>1, EarlierGrows DEF InputOK
  <2>2. before(f) \in SUBSET DOMAIN cat /\ before(e) \in SUBSET DOMAIN cat
    BY DEF Few
  <2>3. Bytes(cat, before(e)) > Limits.maxSize /\ Limits.maxSize # None
    BY <1>4 DEF Large, OverSize
  <2>4. ~(Bytes(cat, before(f)) > Limits.maxSize)
    BY <1>0, <2>3 DEF Large, OverSize, May
  <2> HIDE DEF before
  <2>5. /\ Bytes(cat, before(e)) \in Nat /\ Bytes(cat, before(f)) \in Nat
        /\ Bytes(cat, before(e)) <= Bytes(cat, before(f))
    BY <1>0, <2>1, <2>2, EntrySizes
  <2>6. Limits.maxSize \in Nat
    BY <1>0, <2>3, LimitsOK DEF Optional
  <2> QED
    BY <2>3, <2>4, <2>5, <2>6
<1> QED
  BY <1>0, <1>2, <1>3, <1>4

------------------------------------------------------------------------------
(* What would stay with an entry that was selected, and with all that were  *)
(* selected after it.                                                       *)
KeptWith(e) == Remaining \cup {e} \cup {f \in Selected : Before(cat, e, f)}

(* What had not been selected at the turn of e is among that.               *)
LEMMA KeptIsLeft ==
  ASSUME Finished, NEW S \in SUBSET DOMAIN cat, NEW e \in S
  PROVE  S \ Earlier(cat, S, e, date, Protected) \subseteq KeptWith(e)
<1>0. InputOK
  BY DEF Finished, PlanInv
<1> SUFFICES ASSUME NEW f \in S, f \notin Earlier(cat, S, e, date, Protected),
                    f \notin Remaining, f # e
             PROVE  f \in Selected /\ Before(cat, e, f)
  BY DEF KeptWith
<1>1. f \in Selected
  BY DEF Remaining
<1>2. May(cat, f)
  BY <1>1, WhatIsPlanned, Wholes
<1>3. ~Before(cat, f, e)
  BY <1>2 DEF Earlier, May
<1> QED
  BY <1>0, <1>1, <1>3, BeforeOrder DEF InputOK

(* An entry that goes for the number of entries was one too many.           *)
LEMMA NeededForNumber ==
  ASSUME Finished, NEW e \in Many
  PROVE  Cardinality(KeptWith(e)) > pol.maxEntries
<1> DEFINE left == Young \ Earlier(cat, Young, e, date, Protected)
<1>1. /\ InputOK /\ Young \in SUBSET DOMAIN cat /\ e \in Young /\ KeptWith(e) \in SUBSET DOMAIN cat
  BY WhatIsPlanned, Wholes DEF Young, KeptWith, Few, Remaining
<1>2. Cardinality(left) > pol.maxEntries /\ pol.maxEntries # None
  BY DEF Many, OverCount
<1>3. left \subseteq KeptWith(e) /\ left \in SUBSET DOMAIN cat
  BY <1>1, KeptIsLeft
<1> HIDE DEF left
<1>4. /\ Cardinality(left) \in Nat /\ Cardinality(KeptWith(e)) \in Nat
      /\ Cardinality(left) <= Cardinality(KeptWith(e))
  BY <1>1, <1>3, EntrySizes
<1>5. pol.maxEntries \in Nat
  BY <1>1, <1>2 DEF InputOK, Policy, Optional
<1> QED
  BY <1>2, <1>4, <1>5

(* One that goes for the size would exceed it, and only after all the data. *)
LEMMA NeededForSize ==
  ASSUME Finished, NEW e \in Large
  PROVE  /\ SizeWith(KeptWith(e), RemainingAux) > pol.maxSize
         /\ \A i \in RemainingAux : ~Removable(aux[i])
<1> DEFINE left == Few \ Earlier(cat, Few, e, date, Protected)
<1>1. /\ InputOK /\ Few \in SUBSET DOMAIN cat /\ e \in Few /\ KeptWith(e) \in SUBSET DOMAIN cat
  BY WhatIsPlanned, Wholes DEF Young, KeptWith, Few, Remaining
<1>2. Bytes(cat, left) > Limits.maxSize /\ Limits.maxSize # None
  BY DEF Large, OverSize
<1>3. left \subseteq KeptWith(e) /\ left \in SUBSET DOMAIN cat
  BY <1>1, KeptIsLeft
<1> HIDE DEF left
<1>4. /\ Bytes(cat, left) \in Nat /\ Bytes(cat, KeptWith(e)) \in Nat /\ Bytes(cat, DOMAIN cat) \in Nat
      /\ Bytes(cat, left) <= Bytes(cat, KeptWith(e))
      /\ Bytes(cat, KeptWith(e)) <= Bytes(cat, DOMAIN cat)
  BY <1>1, <1>3, EntrySizes
<1>5. pol.maxSize # None
  BY <1>1, <1>2, LimitsOK
<1>6. /\ pol.maxSize \in Nat /\ Limits.maxSize \in Nat /\ Bytes(aux, RemainingAux) \in Nat
      /\ Limits.maxSize + Bytes(aux, RemainingAux) >= pol.maxSize
  BY <1>5, LimitLeft
<1>7. SizeWith(KeptWith(e), RemainingAux) > pol.maxSize
  BY <1>2, <1>4, <1>6 DEF SizeWith
<1>8. ~(SizeWith(DOMAIN cat, RemainingAux) <= pol.maxSize)
  BY <1>2, <1>4, <1>6 DEF SizeWith
<1> QED
  BY <1>5, <1>7, <1>8, StaysIfFits

(* Auxiliary data that goes for its size would exceed it with all entries.  *)
LEMMA NeededSpare ==
  ASSUME Finished, NEW i \in Spare
  PROVE  SizeWith(DOMAIN cat, RemainingAux \cup {i} \cup {j \in Spare : AuxBefore(cat, aux, i, j)})
           > pol.maxSize
<1> DEFINE left == DOMAIN aux \ (Ready \cup {j \in Items : AuxBefore(cat, aux, j, i)})
           kept == RemainingAux \cup {i} \cup {j \in Spare : AuxBefore(cat, aux, i, j)}
<1>1. /\ InputOK /\ RemainingAux = DOMAIN aux \ (Ready \cup Spare)
      /\ Spare \subseteq Items /\ Items \subseteq DOMAIN aux
  BY WhatIsPlanned DEF RemainingAux, Spare, OverSizeAux, Items, ForSize
<1>2. Projected(cat, aux, Ready \cup {j \in Items : AuxBefore(cat, aux, j, i)}) > pol.maxSize
  BY DEF Spare, OverSizeAux, Items, Ready
<1>3. pol.maxSize # None
  BY DEF Spare, OverSizeAux
<1>4. left \subseteq kept
  <2> SUFFICES ASSUME NEW j \in left, j \in Spare, j # i PROVE AuxBefore(cat, aux, i, j)
    BY <1>1
  <2>1. ~AuxBefore(cat, aux, j, i)
    BY <1>1
  <2> QED
    BY <1>1, <2>1, AuxBeforeOrder DEF InputOK
<1>5. kept \in SUBSET DOMAIN aux /\ left \in SUBSET kept
  BY <1>1, <1>4
<1>6. Bytes(cat, DOMAIN cat) + Bytes(aux, left) > pol.maxSize
  BY <1>2 DEF Projected
<1>7. pol.maxSize \in Nat
  BY <1>1, <1>3 DEF InputOK, Policy, Optional
<1> HIDE DEF left, kept
<1>8. Bytes(aux, left) <= Bytes(aux, kept) /\ Bytes(aux, kept) \in Nat
  BY <1>1, <1>5, ItemSizes
<1>9. Bytes(aux, left) \in Nat /\ Bytes(cat, DOMAIN cat) \in Nat
  <2>1. left \in SUBSET DOMAIN aux
    BY <1>5
  <2> QED
    BY <1>1, <2>1, ItemSizes, EntrySizes
<1>10. SizeWith(DOMAIN cat, kept) > pol.maxSize
  BY <1>6, <1>7, <1>8, <1>9 DEF SizeWith
<1> QED
  BY <1>10 DEF kept

(* Nothing goes that could have stayed.                                     *)
LEMMA NoneNeedless == Finished => NoNeedlessRemoval
<1> SUFFICES ASSUME Finished PROVE NoNeedlessRemoval
  OBVIOUS
<1>0. /\ chosen = Marked(Old, "expired") \cup Marked(Many, "max-entries")
                    \cup Marked(Large, "max-size")
      /\ gone = ReadyGone \cup Marked(Spare, "max-size")
  BY WhatIsPlanned
<1>1. ASSUME NEW c \in chosen
      PROVE  LET kept == Remaining \cup {c.id} \cup {e \in Selected : Before(cat, c.id, e)}
             IN  CASE c.reason = "expired" -> Older(cat[c.id].last, date, pol.retention)
                   [] c.reason = "max-entries" -> Cardinality(kept) > pol.maxEntries
                   [] c.reason = "max-size" ->
                        /\ SizeWith(kept, RemainingAux) > pol.maxSize
                        /\ \A i \in RemainingAux : ~Removable(aux[i])
  <2> DEFINE kept == Remaining \cup {c.id} \cup {e \in Selected : Before(cat, c.id, e)}
  <2>1. \/ c.reason = "expired" /\ c.id \in Old
        \/ c.reason = "max-entries" /\ c.id \in Many
        \/ c.reason = "max-size" /\ c.id \in Large
    BY <1>0 DEF Marked
  <2>2. ASSUME c.id \in Old PROVE Older(cat[c.id].last, date, pol.retention)
    BY <2>2 DEF Old, Expired
  <2>3. ASSUME c.id \in Many PROVE Cardinality(kept) > pol.maxEntries
    BY <2>3, NeededForNumber DEF KeptWith
  <2>4. ASSUME c.id \in Large
        PROVE  /\ SizeWith(kept, RemainingAux) > pol.maxSize
               /\ \A i \in RemainingAux : ~Removable(aux[i])
    BY <2>4, NeededForSize DEF KeptWith
  <2> HIDE DEF kept
  <2>5. CASE c.reason = "expired" /\ c.id \in Old
    BY <2>2, <2>5
  <2>6. CASE c.reason = "max-entries" /\ c.id \in Many
    BY <2>3, <2>6 DEF kept
  <2>7. CASE c.reason = "max-size" /\ c.id \in Large
    BY <2>4, <2>7 DEF kept
  <2> QED
    BY <2>1, <2>5, <2>6, <2>7
<1>2. ASSUME NEW c \in gone, c.reason = "max-size"
      PROVE  LET later == {d.id : d \in {d \in gone : d.reason = "max-size"
                                             /\ AuxBefore(cat, aux, c.id, d.id)}}
             IN  SizeWith(DOMAIN cat, RemainingAux \cup {c.id} \cup later) > pol.maxSize
  <2> DEFINE later == {d.id : d \in {d \in gone : d.reason = "max-size"
                                          /\ AuxBefore(cat, aux, c.id, d.id)}}
  <2>1. \A d \in gone : d.reason = "max-size" => d \in Marked(Spare, "max-size")
    BY <1>0, PlannedAux
  <2>2. \A d \in Marked(Spare, "max-size") : d.id \in Spare /\ d.reason = "max-size"
    BY DEF Marked
  <2>3. \A j \in Spare : \E d \in gone : d.reason = "max-size" /\ d.id = j
    <3> SUFFICES ASSUME NEW j \in Spare PROVE \E d \in gone : d.reason = "max-size" /\ d.id = j
      OBVIOUS
    <3>1. [id |-> j, reason |-> "max-size"] \in gone
      BY <1>0 DEF Marked
    <3> QED
      BY <3>1
  <2>4. c.id \in Spare
    BY <1>2, <2>1, <2>2
  <2>5. later = {j \in Spare : AuxBefore(cat, aux, c.id, j)}
    <3>1. \A j \in later : j \in Spare /\ AuxBefore(cat, aux, c.id, j)
      BY <2>1, <2>2
    <3>2. ASSUME NEW j \in Spare, AuxBefore(cat, aux, c.id, j) PROVE j \in later
      <4>1. PICK d \in gone : d.reason = "max-size" /\ d.id = j
        BY <2>3
      <4> QED
        BY <3>2, <4>1
    <3> HIDE DEF later
    <3> QED
      BY <3>1, <3>2
  <2> HIDE DEF later
  <2>6. SizeWith(DOMAIN cat, RemainingAux \cup {c.id} \cup later) > pol.maxSize
    BY <2>4, <2>5, NeededSpare
  <2> QED
    BY <2>6 DEF later
<1> QED
  BY <1>1, <1>2 DEF NoNeedlessRemoval

(* A finished plan is sound: limits are met unless all that stays is        *)
(* protected, entries go in order of last use, and nothing goes needlessly  *)
(* (PlanSound).                                                             *)
THEOREM Sound == PlanSpec => []PlanSound
<1>1. PlanInv => PlanSound
  BY LimitsMet, LeastFirst, NoneNeedless DEF Finished, PlanSound
<1> QED
  BY <1>1, PlanInvariant, PTL

------------------------------------------------------------------------------
(****************************************************************************)
(* The prune. The argument: what a process holds the lock of nobody else    *)
(* changes, a candidate was no protected entry when it was planned, and an  *)
(* access record whose lease runs stops every removal of its entry under    *)
(* the entry's lock, however old the plan.                                  *)
(****************************************************************************)

(* Who is in a locked phase holds the lock of the entry it is at.           *)
Holds(p) ==
  pc[p] \in {"busy", "entryMoved", "recordLeft"} =>
    run[p].cur \in Id /\ lock[run[p].cur] = p

Having(p) == /\ hit[p] # None => pc[p] \notin {"idle", "busy", "dead"}
             /\ pc[p] = "returning" => hit[p] # None

(* The prune of a process that has a path to return spares its entry.       *)
Spares(p) ==
  /\ run[p].at <= now
  /\ pc[p] \in Pruning /\ hit[p] # None => hit[p].id \in run[p].prot
  /\ \A c \in run[p].plan : c.id \notin run[p].prot
  /\ \A c \in run[p].aux : c.kind = "invalid" => c.id \notin run[p].prot

(* What stands half-way through a removal, and what can be put back.        *)
Moved(p) ==
  /\ pc[p] \in {"entryMoved", "recordLeft"} => entry[run[p].cur] = None
  /\ pc[p] = "entryMoved" =>
       /\ run[p].tomb # None
       /\ ~run[p].tomb.valid => run[p].cur \in spoilt
  /\ pc[p] = "recordLeft" => restore[run[p].cur] = None

Sane(p) == Holds(p) /\ Having(p) /\ Spares(p) /\ Moved(p)

Judged(e) == entry[e] # None /\ ~entry[e].valid => e \in spoilt

(* A returned path whose lease runs: the record, the entry and, for a       *)
(* compressed one, the restore are as they were when it was returned.       *)
Live(p) == hit[p] # None /\ hit[p].leased /\ hit[p].id \notin spoilt /\ now < hit[p].until

Kept(p) ==
  Live(p) =>
    LET e == hit[p].id
    IN  /\ access[e] # None /\ access[e].until >= hit[p].until
        /\ entry[e] # None /\ entry[e].born = hit[p].born
        /\ hit[p].at = "restore" => entry[e].zstd /\ restore[e] = hit[p].born

IInv ==
  /\ TypeOK
  /\ \A p \in Proc : Sane(p) /\ Kept(p)
  /\ \A e \in Id : Judged(e)

(* A step of process p that concerns no entry but x, whose lock it has or   *)
(* may take.                                                                *)
Acts(p, x) ==
  /\ now' = now /\ spoilt \subseteq spoilt'
  /\ \A q \in Proc \ {p} : pc'[q] = pc[q] /\ run'[q] = run[q] /\ hit'[q] = hit[q]
  /\ \A e \in Id \ {x} : /\ entry'[e] = entry[e] /\ restore'[e] = restore[e]
                         /\ access'[e] = access[e] /\ lock'[e] = lock[e]
  /\ x \in Id => lock[x] = p \/ Free(lock[x])

(* It leaves a leased path at x alone, or there is none.                    *)
Gentle(x) ==
  \/ \A q \in Proc : Live(q) /\ hit[q].id = x => x \in spoilt'
  \/ /\ entry'[x] = entry[x]
     /\ \/ restore'[x] = restore[x]
        \/ entry[x] # None /\ restore'[x] = entry[x].born
     /\ \/ access'[x] = access[x]
        \/ access[x] # None => access'[x] # None /\ access'[x].until >= access[x].until

(* The prune that begins with an inventory.                                 *)
Started(d, prot, data) == [NoRun EXCEPT !.at = d, !.prot = prot, !.aux = data]

(* A prune that moves the entry t of candidate c, and one that is done.     *)
Taken(r, c, e, t) == [r EXCEPT !.plan = @ \ {c}, !.cur = e, !.tomb = t]
Passed(r) == [r EXCEPT !.cur = None, !.tomb = None]

------------------------------------------------------------------------------
(* None is not a value of any of the model's sets.                          *)
LEMMA Absent == /\ None \notin Proc /\ None \notin Id /\ None \notin Time
                /\ None \notin Entry /\ None \notin Hit /\ None \notin AccessRecord
  BY NoneAssumption

(* Times are numbers, and the clock's first reading is one.                 *)
LEMMA Times == Time \subseteq Nat /\ 0 \in Time /\ Lease \in Nat
  BY TimeAssumption DEF Time

(* A process without a prune has a run of the type.                         *)
LEMMA NoRunOK == NoRun \in Run
  BY Times DEF NoRun, Run

(* What the plan and the list of auxiliary data never name.                 *)
LEMMA PlannedSpares ==
  ASSUME NEW C, NEW lim, NEW d, NEW prot, NEW c \in Planned(C, lim, d, prot)
  PROVE  /\ c.id \in DOMAIN C /\ c.id \notin prot
         /\ lim.maxSize = None => c.reason \in {"expired", "max-entries"}
<1> DEFINE old   == Expired(C, lim, d, prot)
           many  == OverCount(C, DOMAIN C \ old, lim, d, prot)
           large == OverSize(C, DOMAIN C \ (old \cup many), lim, d, prot)
<1>1. \A e \in old : e \in DOMAIN C /\ e \notin prot
  BY DEF Expired, CanSelect
<1>2. \A e \in many : e \in DOMAIN C /\ e \notin prot
  BY DEF OverCount, CanSelect
<1>3. \A e \in large : e \in DOMAIN C /\ e \notin prot /\ lim.maxSize # None
  BY DEF OverSize, CanSelect
<1>4. \/ \E e \in old : c = [id |-> e, reason |-> "expired"]
      \/ \E e \in many : c = [id |-> e, reason |-> "max-entries"]
      \/ \E e \in large : c = [id |-> e, reason |-> "max-size"]
  BY DEF Planned
<1> QED
  BY <1>1, <1>2, <1>3, <1>4

(* The same of the first inventory's invalid entries.                       *)
LEMMA AuxiliarySpares ==
  ASSUME NEW U, NEW prot, NEW c \in Auxiliary(U, prot)
  PROVE  c \in Aux /\ (c.kind = "invalid" => c.id \notin prot)
<1>1. \/ \E e \in Id : e \notin prot /\ c = [kind |-> "invalid", id |-> e]
      \/ \E e \in Id : c = [kind |-> "restore", id |-> e]
  BY DEF Auxiliary, Catalog
<1> QED
  BY <1>1 DEF Aux

------------------------------------------------------------------------------
(* The frame of every step of one process.                                  *)
LEMMA Others ==
  ASSUME IInv, NEW p \in Proc, NEW x, Acts(p, x), NEW q \in Proc \ {p}
  PROVE  Sane(q)'
<1>1. /\ pc'[q] = pc[q] /\ run'[q] = run[q] /\ hit'[q] = hit[q] /\ now' = now
      /\ spoilt \subseteq spoilt'
  BY DEF Acts
<1>2. Sane(q)
  BY DEF IInv
<1>3. Having(q)' /\ Spares(q)'
  BY <1>1, <1>2 DEF Sane, Having, Spares
<1>4. CASE pc[q] \in {"busy", "entryMoved", "recordLeft"}
  <2> DEFINE e == run[q].cur
  <2>1. e \in Id /\ lock[e] = q
    BY <1>2, <1>4 DEF Sane, Holds
  <2>2. e # x
    BY <2>1, <1>4, Absent DEF Acts, Free
  <2>3. entry'[e] = entry[e] /\ restore'[e] = restore[e] /\ lock'[e] = lock[e]
    BY <2>1, <2>2 DEF Acts
  <2> QED
    BY <1>1, <1>2, <1>3, <2>1, <2>3 DEF Sane, Holds, Moved
<1>5. CASE pc[q] \notin {"busy", "entryMoved", "recordLeft"}
  BY <1>1, <1>3, <1>5 DEF Sane, Holds, Moved
<1> QED
  BY <1>4, <1>5

(* A hit stays kept when its path, its record and its id's history do.      *)
LEMMA KeptOn ==
  ASSUME IInv, TypeOK', NEW p \in Proc, NEW x, Acts(p, x), Gentle(x),
         NEW q \in Proc, hit'[q] \in {hit[q], None}
  PROVE  Kept(q)'
<1> SUFFICES ASSUME Live(q)' PROVE Kept(q)'
  BY DEF Kept
<1> DEFINE e == hit[q].id
<1>1. hit'[q] = hit[q] /\ now' = now /\ spoilt \subseteq spoilt'
  BY DEF Acts, Live
<1>2. Live(q) /\ e \notin spoilt'
  BY <1>1 DEF Live
<1>3. e \in Id /\ hit[q].until \in Nat
  BY <1>2 DEF IInv, TypeOK, Live, Hit
<1>4. Kept(q)
  BY DEF IInv
<1>5. CASE e # x
  <2>1. entry'[e] = entry[e] /\ restore'[e] = restore[e] /\ access'[e] = access[e]
    BY <1>3, <1>5 DEF Acts
  <2> QED
    BY <1>1, <1>2, <1>4, <2>1 DEF Kept
<1>6. CASE e = x
  <2>1. /\ entry'[e] = entry[e]
        /\ \/ restore'[e] = restore[e]
           \/ entry[e] # None /\ restore'[e] = entry[e].born
        /\ \/ access'[e] = access[e]
           \/ access[e] # None => access'[e] # None /\ access'[e].until >= access[e].until
    BY <1>2, <1>6 DEF Gentle
  <2>2. access[e] \in AccessRecord /\ access[e].until >= hit[q].until
    BY <1>2, <1>3, <1>4 DEF Kept, IInv, TypeOK
  <2>3. access'[e] # None /\ access'[e].until >= hit[q].until
    <3>1. access'[e] # None => access'[e] \in AccessRecord
      BY <1>3 DEF TypeOK
    <3> QED
      BY <2>1, <2>2, <3>1, <1>3, Absent DEF AccessRecord
  <2> QED
    BY <1>1, <1>2, <1>4, <2>1, <2>3 DEF Kept
<1> QED
  BY <1>5, <1>6

(* What is left to show of a step.                                          *)
LEMMA StepOf ==
  ASSUME IInv, TypeOK', NEW p \in Proc, NEW x, Acts(p, x), Gentle(x),
         Sane(p)', x \in Id => Judged(x)', hit'[p] \in {hit[p], None} \/ Kept(p)'
  PROVE  IInv'
<1>1. \A q \in Proc : Sane(q)'
  BY Others
<1>2. \A q \in Proc : Kept(q)'
  <2>1. \A q \in Proc : hit'[q] \in {hit[q], None} => Kept(q)'
    BY KeptOn
  <2> QED
    BY <2>1 DEF Acts
<1>3. \A e \in Id : Judged(e)'
  BY DEF IInv, Acts, Judged
<1> QED
  BY <1>1, <1>2, <1>3 DEF IInv

(* A step that changes no entry, restore, access record or entry lock.      *)
LEMMA QuietStep ==
  ASSUME IInv, TypeOK', NEW p \in Proc, UNCHANGED <<now, entry, restore, access, lock>>,
         spoilt \subseteq spoilt',
         \A q \in Proc \ {p} : pc'[q] = pc[q] /\ run'[q] = run[q] /\ hit'[q] = hit[q],
         hit'[p] \in {hit[p], None},
         \/ pc'[p] \notin {"busy", "entryMoved", "recordLeft"}
         \/ pc'[p] = pc[p] /\ run'[p] = run[p],
         Having(p)', Spares(p)'
  PROVE  IInv'
<1>1. Acts(p, None) /\ Gentle(None)
  <2>1. \A q \in Proc : ~(Live(q) /\ hit[q].id = None)
    BY Absent DEF IInv, TypeOK, Live, Hit
  <2> QED
    BY <2>1, Absent DEF Acts, Gentle
<1>2. Sane(p)'
  <2>1. Sane(p)
    BY DEF IInv
  <2>2. Holds(p)' /\ Moved(p)'
    BY <2>1 DEF Sane, Holds, Moved
  <2> QED
    BY <2>2 DEF Sane
<1> QED
  BY <1>1, <1>2, StepOf, Absent

------------------------------------------------------------------------------
(* The initial states.                                                      *)
LEMMA InitIInv == Init => IInv
<1> SUFFICES ASSUME Init PROVE IInv
  OBVIOUS
<1>1. TypeOK
  <2>1. 0 \in Time
    BY Times
  <2>2. /\ run \in [Proc -> Run] /\ entry \in [Id -> Entry \cup {None}]
        /\ lock \in [Id -> Proc \cup {None}] /\ pc \in [Proc -> Phase]
    BY NoRunOK DEF Init, Phase
  <2>3. /\ restore \in [Id -> Time \cup {None}] /\ access \in [Id -> AccessRecord \cup {None}]
        /\ hit \in [Proc -> Hit \cup {None}]
    BY DEF Init
  <2> QED
    BY <2>1, <2>2, <2>3 DEF Init, TypeOK
<1>2. \A p \in Proc : Sane(p) /\ Kept(p)
  BY DEF Init, Sane, Holds, Having, Spares, Moved, Kept, Live, NoRun
<1>3. \A e \in Id : Judged(e)
  BY DEF Init, Judged
<1> QED
  BY <1>1, <1>2, <1>3 DEF IInv

(* A client's return of its path, and the end of its use.                   *)
LEMMA ClientQuiet ==
  ASSUME IInv, NEW p \in Proc, NoPrune(p) \/ Done(p)
  PROVE  IInv'
<1> USE DEF Goto, Phase, Pruning
<1>1. /\ pc'[p] \in {"using", "idle"} /\ run' = run
      /\ hit'[p] \in {hit[p], None} /\ (hit'[p] # None => pc'[p] = "using")
      /\ \A q \in Proc \ {p} : pc'[q] = pc[q] /\ hit'[q] = hit[q]
      /\ UNCHANGED <<now, entry, restore, access, lock, spoilt>>
  BY DEF NoPrune, Done, IInv, TypeOK
<1>2. TypeOK'
  BY DEF NoPrune, Done, IInv, TypeOK
<1>3. Having(p)' /\ Spares(p)'
  BY <1>1 DEF IInv, Sane, Having, Spares
<1> QED
  BY <1>1, <1>2, <1>3, QuietStep

(* The run a first inventory begins is of the type.                         *)
LEMMA FirstRun ==
  ASSUME NEW d \in Time, NEW prot \in SUBSET Id, NEW data \in SUBSET Aux
  PROVE  LET r == Started(d, prot, data)
         IN  r \in Run /\ r.at = d /\ r.prot = prot /\ r.aux = data /\ r.plan = {}
<1>1. Started(d, prot, data) \in Run
  BY NoRunOK DEF Started, Run
<1> QED
  BY <1>1 DEF Started, NoRun

(* The first inventory: the entry to return is the protected one.           *)
LEMMA InventoryStep ==
  ASSUME IInv, NEW p \in Proc, Inventory(p)
  PROVE  IInv'
<1> DEFINE prot == IF pc[p] = "idle" THEN {} ELSE {hit[p].id}
<1>1. PICK U \in SUBSET Unreadable :
        /\ run' = [run EXCEPT ![p] = [NoRun EXCEPT !.at = now, !.prot = prot,
                                                   !.aux = Auxiliary(U, prot)]]
        /\ spoilt' = spoilt \cup U
  BY DEF Inventory
<1> DEFINE r == Started(now, prot, Auxiliary(U, prot))
<1>2. run' = [run EXCEPT ![p] = r]
  BY <1>1 DEF Started
<1>3. /\ pc[p] \in {"idle", "returning"} /\ pc' = [pc EXCEPT ![p] = "maintenance"]
      /\ UNCHANGED <<now, entry, restore, access, lock, maint, hit, stuck>>
  BY DEF Inventory, Goto
<1>4. prot \in SUBSET Id /\ (hit[p] # None => hit[p].id \in prot)
  <2>1. Having(p) /\ hit[p] \in Hit \cup {None}
    BY DEF IInv, Sane, TypeOK
  <2> QED
    BY <1>3, <2>1 DEF Having, Hit
<1>5. /\ Auxiliary(U, prot) \in SUBSET Aux
      /\ \A c \in Auxiliary(U, prot) : c.kind = "invalid" => c.id \notin prot
  BY AuxiliarySpares
<1>6. now \in Time
  BY DEF IInv, TypeOK
<1>7. r \in Run /\ r.at = now /\ r.prot = prot /\ r.aux = Auxiliary(U, prot) /\ r.plan = {}
  <2> HIDE DEF prot
  <2> QED
    BY <1>4, <1>5, <1>6, FirstRun
<1> HIDE DEF r, prot
<1>8. /\ run'[p] = r /\ pc'[p] = "maintenance" /\ spoilt \subseteq spoilt'
      /\ \A q \in Proc \ {p} : pc'[q] = pc[q] /\ run'[q] = run[q]
  BY <1>1, <1>2, <1>3 DEF IInv, TypeOK
<1>9. TypeOK'
  BY <1>1, <1>2, <1>3, <1>7, UnreadableAssumption DEF IInv, TypeOK, Phase, Pruning
<1>10. Having(p)' /\ Spares(p)'
  BY <1>3, <1>4, <1>5, <1>6, <1>7, <1>8, Times DEF Having, Spares
<1> QED
  BY <1>3, <1>8, <1>9, <1>10, QuietStep

(* Steps of a prune between its loops.                                      *)
LEMMA PruneQuiet ==
  ASSUME IInv, NEW p \in Proc, TakeMaintenance(p) \/ MaintenanceBusy(p) \/ Finish(p) \/ Crash(p)
  PROVE  IInv'
<1> USE DEF Goto, Phase, Pruning
<1>1. run' = run \/ run' = [run EXCEPT ![p] = NoRun]
  BY DEF TakeMaintenance, MaintenanceBusy, Finish, EndPrune, Crash
<1>2. /\ pc'[p] \in {"auxiliary", "idle", "using", "dead"}
      /\ pc'[p] = "auxiliary" => pc[p] = "maintenance" /\ run' = run
      /\ hit'[p] \in {hit[p], None} /\ (hit'[p] # None => pc'[p] \notin {"idle", "dead"})
      /\ \A q \in Proc \ {p} : pc'[q] = pc[q] /\ run'[q] = run[q] /\ hit'[q] = hit[q]
      /\ UNCHANGED <<now, entry, restore, access, lock, spoilt>>
  BY DEF TakeMaintenance, MaintenanceBusy, Finish, EndPrune, Crash, IInv, TypeOK
<1>3. TypeOK'
  <2>1. run' \in [Proc -> Run]
    BY <1>1, NoRunOK DEF IInv, TypeOK
  <2>2. stuck' \in SUBSET Id
    <3>1. CASE Crash(p) /\ pc[p] = "entryMoved"
      <4>1. run[p].cur \in Id
        BY <3>1 DEF IInv, Sane, Holds
      <4> QED
        BY <3>1, <4>1 DEF Crash, IInv, TypeOK
    <3>2. CASE ~(Crash(p) /\ pc[p] = "entryMoved")
      BY <3>2 DEF TakeMaintenance, MaintenanceBusy, Finish, Crash, IInv, TypeOK
    <3> QED
      BY <3>1, <3>2
  <2>3. /\ maint' \in Proc \cup {None} /\ pc' \in [Proc -> Phase] /\ hit' \in [Proc -> Hit \cup {None}]
    BY DEF TakeMaintenance, MaintenanceBusy, Finish, EndPrune, Crash, IInv, TypeOK
  <2> QED
    BY <1>2, <2>1, <2>2, <2>3 DEF IInv, TypeOK
<1>4. Having(p)'
  BY <1>2 DEF Having
<1>5. Spares(p)'
  <2>1. CASE run' = run
    BY <1>2, <2>1 DEF IInv, Sane, Spares
  <2>2. CASE run' = [run EXCEPT ![p] = NoRun]
    <3>1. run'[p] = NoRun /\ 0 <= now
      BY <2>2, Times DEF IInv, TypeOK
    <3>2. CASE pc'[p] = "auxiliary"
      BY <1>2, <3>2 DEF IInv, Sane, Spares
    <3>3. CASE pc'[p] # "auxiliary"
      BY <1>2, <3>1, <3>3 DEF Spares, NoRun
    <3> QED
      BY <3>2, <3>3
  <2> QED
    BY <1>1, <2>1, <2>2
<1> QED
  BY <1>2, <1>3, <1>4, <1>5, QuietStep

(* Candidates that are passed over.                                         *)
LEMMA SkipQuiet ==
  ASSUME IInv, NEW p \in Proc, SkipAuxiliary(p) \/ SkipEntry(p)
  PROVE  IInv'
<1>1. run[p] \in Run /\ pc[p] \in {"auxiliary", "entries"}
  BY DEF SkipAuxiliary, SkipEntry, IInv, TypeOK
<1>2. \E r : /\ run' = [run EXCEPT ![p] = r]
             /\ \/ \E a \in SUBSET run[p].aux : r = [run[p] EXCEPT !.aux = a]
                \/ \E s \in SUBSET run[p].plan : r = [run[p] EXCEPT !.plan = s]
  <2>1. CASE SkipAuxiliary(p)
    <3>1. PICK c \in run[p].aux : run' = [run EXCEPT ![p] = [run[p] EXCEPT !.aux = run[p].aux \ {c}]]
      BY <2>1 DEF SkipAuxiliary
    <3> QED
      BY <3>1
  <2>2. CASE SkipEntry(p)
    <3>1. PICK c \in run[p].plan : run' = [run EXCEPT ![p] = [run[p] EXCEPT !.plan = run[p].plan \ {c}]]
      BY <2>2 DEF SkipEntry
    <3>2. run[p].plan \ {c} \in SUBSET run[p].plan
      OBVIOUS
    <3> QED
      BY <3>1, <3>2, Zenon
  <2> QED
    BY <2>1, <2>2
<1>3. PICK r : /\ run' = [run EXCEPT ![p] = r]
               /\ \/ \E a \in SUBSET run[p].aux : r = [run[p] EXCEPT !.aux = a]
                  \/ \E s \in SUBSET run[p].plan : r = [run[p] EXCEPT !.plan = s]
  BY <1>2
<1>4. /\ r \in Run /\ r.at = run[p].at /\ r.prot = run[p].prot
      /\ r.aux \subseteq run[p].aux /\ r.plan \subseteq run[p].plan
  <2>1. run[p].aux \subseteq Aux /\ run[p].plan \subseteq Candidate
    BY <1>1 DEF Run
  <2>2. CASE \E a \in SUBSET run[p].aux : r = [run[p] EXCEPT !.aux = a]
    BY <1>1, <2>1, <2>2 DEF Run
  <2>3. CASE \E s \in SUBSET run[p].plan : r = [run[p] EXCEPT !.plan = s]
    BY <1>1, <2>1, <2>3 DEF Run
  <2> QED
    BY <1>3, <2>2, <2>3
<1>5. UNCHANGED <<now, entry, restore, access, lock, maint, pc, hit, spoilt, stuck>>
  BY DEF SkipAuxiliary, SkipEntry
<1>6. run'[p] = r /\ \A q \in Proc \ {p} : run'[q] = run[q]
  BY <1>3 DEF IInv, TypeOK
<1>7. TypeOK'
  BY <1>3, <1>4, <1>5 DEF IInv, TypeOK
<1>8. Having(p)' /\ Spares(p)'
  BY <1>4, <1>5, <1>6 DEF IInv, Sane, Having, Spares
<1> QED
  BY <1>1, <1>5, <1>6, <1>7, <1>8, QuietStep

(* The second inventory: what is planned is not protected.                  *)
LEMMA ReplanStep ==
  ASSUME IInv, NEW p \in Proc, Replan(p)
  PROVE  IInv'
<1> DEFINE lim == [retention |-> Retention, maxEntries |-> MaxEntries, maxSize |-> None]
           Plan(U) == {[id |-> c.id, last |-> Catalog(U)[c.id].last, reason |-> c.reason] :
                         c \in Planned(Catalog(U), lim, now, run[p].prot)}
<1>1. PICK U \in SUBSET Unreadable :
        /\ run' = [run EXCEPT ![p] = [run[p] EXCEPT !.plan = Plan(U)]]
        /\ spoilt' = spoilt \cup U
  BY DEF Replan
<1>2. \A c \in Planned(Catalog(U), lim, now, run[p].prot) :
        /\ c.id \in DOMAIN Catalog(U) /\ c.id \notin run[p].prot
        /\ c.reason \in {"expired", "max-entries"}
  BY PlannedSpares
<1>3. \A e \in DOMAIN Catalog(U) : e \in Id /\ Catalog(U)[e].last \in Time
  BY DEF Catalog, Readable, Record, IInv, TypeOK, Entry, AccessRecord
<1>4. \A c \in Plan(U) : c \in Candidate /\ c.id \notin run[p].prot
  BY <1>2, <1>3 DEF Candidate
<1>5. PICK r : r = [run[p] EXCEPT !.plan = Plan(U)]
  OBVIOUS
<1>6. /\ r \in Run /\ r.at = run[p].at /\ r.prot = run[p].prot
      /\ r.aux = run[p].aux /\ r.plan = Plan(U)
  <2>1. Plan(U) \in SUBSET Candidate /\ run[p] \in Run
    BY <1>4 DEF IInv, TypeOK
  <2> HIDE DEF Plan
  <2> QED
    BY <1>5, <2>1 DEF Run
<1> HIDE DEF Plan
<1>7. /\ UNCHANGED <<now, entry, restore, access, lock, maint, hit, stuck>>
      /\ pc[p] = "auxiliary" /\ pc' = [pc EXCEPT ![p] = "entries"]
  BY DEF Replan, Goto
<1>8. /\ run'[p] = r /\ pc'[p] = "entries" /\ spoilt \subseteq spoilt'
      /\ \A q \in Proc \ {p} : run'[q] = run[q] /\ pc'[q] = pc[q]
  BY <1>1, <1>5, <1>7 DEF IInv, TypeOK
<1>9. TypeOK'
  BY <1>1, <1>5, <1>6, <1>7, UnreadableAssumption DEF IInv, TypeOK, Phase, Pruning
<1>10. Having(p)' /\ Spares(p)'
  BY <1>4, <1>6, <1>7, <1>8 DEF IInv, Sane, Having, Spares, Pruning
<1> QED
  BY <1>7, <1>8, <1>9, <1>10, QuietStep

------------------------------------------------------------------------------
(* Steps of clients under the lock.                                         *)
LEMMA BeginStep ==
  ASSUME IInv, NEW p \in Proc, NEW e \in Id, Begin(p, e)
  PROVE  IInv'
<1>1. PICK r : r = [run[p] EXCEPT !.cur = e] /\ run' = [run EXCEPT ![p] = r]
  BY DEF Begin
<1>2. /\ r \in Run /\ r.cur = e /\ r.at = run[p].at /\ r.prot = run[p].prot
      /\ r.aux = run[p].aux /\ r.plan = run[p].plan
  BY <1>1 DEF IInv, TypeOK, Run
<1>3. /\ pc[p] = "idle" /\ Free(lock[e]) /\ pc' = [pc EXCEPT ![p] = "busy"]
      /\ lock' = [lock EXCEPT ![e] = p]
      /\ UNCHANGED <<now, entry, restore, access, maint, hit, spoilt, stuck>>
  BY DEF Begin, Goto
<1>4. TypeOK'
  BY <1>1, <1>2, <1>3 DEF IInv, TypeOK, Phase
<1>5. /\ run'[p] = r /\ pc'[p] = "busy" /\ lock'[e] = p
      /\ \A q \in Proc \ {p} : run'[q] = run[q] /\ pc'[q] = pc[q]
  BY <1>1, <1>3 DEF IInv, TypeOK
<1>6. Acts(p, e) /\ Gentle(e)
  <2>1. \A d \in Id \ {e} : lock'[d] = lock[d]
    BY <1>3 DEF IInv, TypeOK
  <2>2. Gentle(e)
    BY <1>3 DEF Gentle
  <2> QED
    BY <1>3, <1>5, <2>1, <2>2 DEF Acts
<1>7. Sane(p)'
  BY <1>2, <1>3, <1>5 DEF IInv, Sane, Holds, Having, Spares, Moved, Pruning
<1>8. Judged(e)' /\ hit'[p] = hit[p]
  BY <1>3 DEF IInv, Judged
<1> QED
  BY <1>4, <1>6, <1>7, <1>8, StepOf

(* A client gives the lock back with nothing to return.                     *)
LEMMA LeaveStep ==
  ASSUME IInv, NEW p \in Proc, Leave(p)
  PROVE  IInv'
<1>0. PICK e : e = run[p].cur
  OBVIOUS
<1>1. /\ pc[p] = "busy" /\ pc' = [pc EXCEPT ![p] = "idle"]
      /\ lock' = [lock EXCEPT ![e] = None] /\ run' = [run EXCEPT ![p] = NoRun]
      /\ UNCHANGED <<now, entry, restore, access, maint, hit, spoilt, stuck>>
  BY <1>0 DEF Leave, Goto
<1>2. e \in Id /\ lock[e] = p /\ hit[p] = None
  BY <1>0, <1>1 DEF IInv, Sane, Holds, Having
<1>3. TypeOK'
  BY <1>1, NoRunOK DEF IInv, TypeOK, Phase
<1>4. /\ run'[p] = NoRun /\ pc'[p] = "idle"
      /\ \A q \in Proc \ {p} : run'[q] = run[q] /\ pc'[q] = pc[q]
  BY <1>1 DEF IInv, TypeOK
<1>5. Acts(p, e) /\ Gentle(e)
  <2>1. \A d \in Id \ {e} : lock'[d] = lock[d]
    BY <1>1 DEF IInv, TypeOK
  <2>2. Gentle(e)
    BY <1>1 DEF Gentle
  <2> QED
    BY <1>1, <1>2, <1>4, <2>1, <2>2 DEF Acts
<1>6. Sane(p)'
  <2>1. 0 <= now
    BY Times DEF IInv, TypeOK
  <2> QED
    BY <1>1, <1>2, <1>4, <2>1 DEF Sane, Holds, Having, Spares, Moved, Pruning, NoRun
<1>7. Judged(e)' /\ hit'[p] = hit[p]
  BY <1>1, <1>2 DEF IInv, Judged
<1> QED
  BY <1>3, <1>5, <1>6, <1>7, StepOf

(* An invalid entry goes; no lease on it counts any more.                   *)
LEMMA QuarantineStep ==
  ASSUME IInv, NEW p \in Proc, Quarantine(p)
  PROVE  IInv'
<1>0. PICK e : e = run[p].cur
  OBVIOUS
<1>1. /\ pc[p] = "busy" /\ entry[e] # None /\ ~entry[e].valid
      /\ entry' = [entry EXCEPT ![e] = None] /\ restore' = [restore EXCEPT ![e] = None]
      /\ UNCHANGED <<now, access, lock, maint, pc, hit, run, spoilt, stuck>>
  BY <1>0 DEF Quarantine
<1>2. e \in Id /\ lock[e] = p
  BY <1>0, <1>1 DEF IInv, Sane, Holds
<1>3. TypeOK'
  BY <1>1 DEF IInv, TypeOK
<1>4. e \in spoilt
  BY <1>1, <1>2 DEF IInv, Judged
<1>5. Acts(p, e) /\ Gentle(e)
  BY <1>1, <1>2, <1>4 DEF Acts, Gentle, IInv, TypeOK
<1>6. Sane(p)'
  BY <1>0, <1>1, <1>2 DEF IInv, Sane, Holds, Having, Spares, Moved
<1>7. Judged(e)' /\ hit'[p] = hit[p]
  BY <1>1, <1>2 DEF IInv, TypeOK, Judged
<1> QED
  BY <1>3, <1>5, <1>6, <1>7, StepOf

(* A touch prolongs, and covers a lease from now on.                        *)
LEMMA TouchedProlongs ==
  ASSUME TypeOK, NEW e \in Id
  PROVE  /\ Touched(e) \in AccessRecord
         /\ Touched(e).until >= now + Lease
         /\ access[e] # None => Touched(e).until >= access[e].until
<1>1. now \in Nat /\ now \in Time /\ Lease \in Nat /\ MaxTime \in Nat
  BY Times, TimeAssumption DEF TypeOK
<1>2. CASE access[e] = None
  <2>1. Touched(e) = [last |-> now, until |-> now + Lease]
    BY <1>2 DEF Touched
  <2> QED
    BY <1>1, <1>2, <2>1 DEF AccessRecord
<1>3. CASE access[e] # None
  <2> DEFINE old == access[e]
             last == Max2(now, old.last)
  <2>1. old.last \in Time /\ old.last \in Nat /\ old.until \in Nat
    BY <1>3, Times DEF TypeOK, AccessRecord
  <2>2. last \in Time /\ last >= now /\ last \in Nat
    BY <1>1, <2>1 DEF Max2
  <2>3. Touched(e) = [last |-> last, until |-> Max2(last + Lease, old.until)]
    BY <1>3 DEF Touched
  <2>4. /\ Max2(last + Lease, old.until) \in Nat
        /\ Max2(last + Lease, old.until) >= now + Lease
        /\ Max2(last + Lease, old.until) >= old.until
    <3> HIDE DEF last
    <3> QED
      BY <1>1, <2>1, <2>2 DEF Max2
  <2> QED
    BY <2>2, <2>3, <2>4 DEF AccessRecord
<1> QED
  BY <1>2, <1>3

(* Who returns a path holds it under a lease that the access record covers, *)
(* if the touch succeeded.                                                  *)
LEMMA ReturnStep ==
  ASSUME IInv, NEW p \in Proc, Resolve(p) \/ Upload(p) \/ UploadExisting(p)
  PROVE  IInv'
<1>1. PICK e : e = run[p].cur
  OBVIOUS
<1>2. pc[p] = "busy" /\ e \in Id /\ lock[e] = p /\ hit[p] = None
  BY <1>1 DEF Resolve, Upload, UploadExisting, IInv, Sane, Holds, Having
<1>3. /\ pc' = [pc EXCEPT ![p] = "returning"] /\ lock' = [lock EXCEPT ![e] = None]
      /\ run' = [run EXCEPT ![p] = NoRun]
      /\ UNCHANGED <<now, maint, spoilt, stuck>>
  BY <1>1 DEF Resolve, Upload, UploadExisting, Return
<1>4. PICK at \in {"entry", "restore"}, touched \in BOOLEAN :
        /\ access' = IF touched THEN [access EXCEPT ![e] = Touched(e)] ELSE access
        /\ hit' = [hit EXCEPT ![p] = [id |-> e, at |-> at, born |-> entry'[e].born,
                                      until |-> now + Lease, leased |-> touched]]
        /\ at = "restore" => entry'[e].zstd /\ restore'[e] = entry'[e].born
  <2>1. CASE Resolve(p) /\ entry[e].zstd
    BY <1>1, <1>2, <2>1 DEF Resolve, Return, IInv, TypeOK
  <2>2. CASE Resolve(p) /\ ~entry[e].zstd
    BY <1>1, <2>2 DEF Resolve, Return
  <2>3. CASE Upload(p) \/ UploadExisting(p)
    BY <1>1, <2>3 DEF Upload, UploadExisting, Return
  <2> QED
    BY <2>1, <2>2, <2>3
<1>5. /\ entry' \in [Id -> Entry \cup {None}] /\ restore' \in [Id -> Time \cup {None}]
      /\ \A d \in Id \ {e} : entry'[d] = entry[d] /\ restore'[d] = restore[d]
      /\ entry'[e] \in Entry
      /\ \/ entry[e] = None /\ entry'[e].valid
         \/ /\ entry'[e] = entry[e]
            /\ restore'[e] = restore[e] \/ restore'[e] = entry[e].born
  <2>1. CASE Resolve(p)
    <3>1. entry' = entry /\ (restore' = restore \/ restore' = [restore EXCEPT ![e] = entry[e].born])
      BY <1>1, <2>1 DEF Resolve
    <3>2. entry[e] \in Entry /\ entry[e].born \in Time
      BY <1>1, <1>2, <2>1 DEF Resolve, Readable, IInv, TypeOK, Entry
    <3> QED
      BY <1>2, <3>1, <3>2 DEF IInv, TypeOK
  <2>2. CASE Upload(p)
    <3>1. PICK z \in BOOLEAN : entry' = [entry EXCEPT ![e] = [born |-> now, valid |-> TRUE, zstd |-> z]]
      BY <1>1, <2>2 DEF Upload
    <3>2. [born |-> now, valid |-> TRUE, zstd |-> z] \in Entry
      BY DEF IInv, TypeOK, Entry
    <3> QED
      BY <1>1, <1>2, <2>2, <3>1, <3>2 DEF Upload, IInv, TypeOK
  <2>3. CASE UploadExisting(p)
    BY <1>1, <1>2, <2>3 DEF UploadExisting, Readable, IInv, TypeOK
  <2> QED
    BY <2>1, <2>2, <2>3
<1>6. /\ Touched(e) \in AccessRecord /\ Touched(e).until >= now + Lease
      /\ access[e] # None => Touched(e).until >= access[e].until
  BY <1>2, TouchedProlongs DEF IInv
<1>7. /\ access' \in [Id -> AccessRecord \cup {None}]
      /\ \A d \in Id \ {e} : access'[d] = access[d]
      /\ access'[e] = IF touched THEN Touched(e) ELSE access[e]
  BY <1>2, <1>4, <1>6 DEF IInv, TypeOK
<1>8. /\ hit' \in [Proc -> Hit \cup {None}]
      /\ hit'[p] = [id |-> e, at |-> at, born |-> entry'[e].born,
                    until |-> now + Lease, leased |-> touched]
      /\ hit'[p] \in Hit
      /\ \A q \in Proc \ {p} : hit'[q] = hit[q]
  <2>1. [id |-> e, at |-> at, born |-> entry'[e].born,
         until |-> now + Lease, leased |-> touched] \in Hit
    BY <1>2, <1>5, Times DEF Hit, Entry, IInv, TypeOK
  <2> QED
    BY <1>4, <2>1 DEF IInv, TypeOK
<1>9. TypeOK'
  BY <1>3, <1>5, <1>7, <1>8, NoRunOK DEF IInv, TypeOK, Phase
<1>10. /\ run'[p] = NoRun /\ pc'[p] = "returning"
       /\ \A q \in Proc \ {p} : run'[q] = run[q] /\ pc'[q] = pc[q]
       /\ \A d \in Id \ {e} : lock'[d] = lock[d]
  BY <1>3 DEF IInv, TypeOK
<1>11. Acts(p, e)
  BY <1>2, <1>3, <1>5, <1>7, <1>8, <1>10 DEF Acts
<1>12. Gentle(e)
  <2>1. CASE entry[e] = None
    <3>1. \A q \in Proc : ~(Live(q) /\ hit[q].id = e)
      BY <2>1 DEF IInv, Kept
    <3> QED
      BY <3>1 DEF Gentle
  <2>2. CASE entry[e] # None
    BY <1>5, <1>6, <1>7, <2>2, Absent DEF Gentle
  <2> QED
    BY <2>1, <2>2
<1>13. Sane(p)'
  <2>1. 0 <= now /\ hit'[p] # None
    BY <1>8, Times, Absent DEF IInv, TypeOK
  <2> QED
    BY <1>3, <1>10, <2>1 DEF Sane, Holds, Having, Spares, Moved, Pruning, NoRun
<1>14. Judged(e)'
  BY <1>2, <1>3, <1>5 DEF IInv, Judged
<1>15. Kept(p)'
  <2>1. Live(p)' => touched
    BY <1>8 DEF Live
  <2>2. touched => access'[e] # None /\ access'[e].until >= now + Lease
    BY <1>6, <1>7, Absent
  <2> QED
    BY <1>4, <1>5, <1>8, <2>1, <2>2, Absent DEF Kept
<1> QED
  BY <1>9, <1>11, <1>12, <1>13, <1>14, <1>15, StepOf

------------------------------------------------------------------------------
(* Steps of a prune under the lock.                                         *)

(* A lease that runs at the present moment outlasts every prune's date.     *)
LEMMA NoLease ==
  ASSUME IInv, NEW p \in Proc, NEW q \in Proc, Live(q),
         access[hit[q].id] # None => access[hit[q].id].until <= run[p].at
  PROVE  FALSE
<1>1. hit[q].id \in Id /\ hit[q].until \in Nat /\ now \in Nat
  BY Times DEF Live, IInv, TypeOK, Hit
<1>2. access[hit[q].id] \in AccessRecord /\ access[hit[q].id].until >= hit[q].until
  BY <1>1 DEF IInv, Kept, TypeOK
<1>3. run[p].at <= now /\ run[p].at \in Nat
  BY Times DEF IInv, Sane, Spares, TypeOK, Run
<1> QED
  BY <1>1, <1>2, <1>3, Absent DEF Live, AccessRecord

(* A candidate of the first loop goes: no live lease names it.              *)
LEMMA RemoveAuxiliaryStep ==
  ASSUME IInv, NEW p \in Proc, RemoveAuxiliary(p)
  PROVE  IInv'
<1>1. PICK c, e :
        /\ c \in run[p].aux /\ e = c.id /\ Free(lock[e])
        /\ access[e] # None => access[e].until <= run[p].at
        /\ lock' = [lock EXCEPT ![e] = None]
        /\ entry' \in {entry, [entry EXCEPT ![e] = None]}
        /\ restore' \in {restore, [restore EXCEPT ![e] = None]}
        /\ run' = [run EXCEPT ![p] = [run[p] EXCEPT !.aux = run[p].aux \ {c}]]
  BY DEF RemoveAuxiliary
<1>2. pc[p] = "auxiliary" /\ UNCHANGED <<now, access, maint, pc, hit, spoilt, stuck>>
  BY DEF RemoveAuxiliary
<1>3. run[p] \in Run /\ e \in Id
  BY <1>1 DEF IInv, TypeOK, Run, Aux
<1>4. PICK r : r = [run[p] EXCEPT !.aux = run[p].aux \ {c}]
  OBVIOUS
<1>5. /\ r \in Run /\ r.at = run[p].at /\ r.prot = run[p].prot
      /\ r.aux = run[p].aux \ {c} /\ r.plan = run[p].plan
  BY <1>3, <1>4 DEF Run
<1>6. run'[p] = r /\ \A q \in Proc \ {p} : run'[q] = run[q]
  BY <1>1, <1>4 DEF IInv, TypeOK
<1>7. TypeOK'
  BY <1>1, <1>2, <1>4, <1>5 DEF IInv, TypeOK
<1>8. Acts(p, e)
  <2>1. \A d \in Id \ {e} : entry'[d] = entry[d] /\ restore'[d] = restore[d] /\ lock'[d] = lock[d]
    BY <1>1 DEF IInv, TypeOK
  <2> QED
    BY <1>1, <1>2, <1>6, <2>1 DEF Acts
<1>9. Gentle(e)
  BY <1>1, NoLease DEF Gentle
<1>10. Sane(p)'
  BY <1>2, <1>5, <1>6 DEF IInv, Sane, Holds, Having, Spares, Moved, Pruning
<1>11. Judged(e)' /\ hit'[p] = hit[p]
  BY <1>1, <1>2, <1>3 DEF IInv, TypeOK, Judged
<1> QED
  BY <1>7, <1>8, <1>9, <1>10, <1>11, StepOf

(* The run of a prune that has moved an entry.                              *)
LEMMA TakenRun ==
  ASSUME NEW r \in Run, NEW c \in r.plan, NEW e \in Id, NEW t \in Entry
  PROVE  LET s == Taken(r, c, e, t)
         IN  /\ s \in Run /\ s.at = r.at /\ s.prot = r.prot /\ s.aux = r.aux
             /\ s.plan = r.plan \ {c} /\ s.cur = e /\ s.tomb = t
<1>1. Taken(r, c, e, t) \in Run
  BY DEF Taken, Run
<1> QED
  BY <1>1 DEF Taken, Run

(* The run of a prune that is done with an entry.                           *)
LEMMA PassedRun ==
  ASSUME NEW r \in Run
  PROVE  LET s == Passed(r)
         IN  /\ s \in Run /\ s.at = r.at /\ s.prot = r.prot /\ s.aux = r.aux
             /\ s.plan = r.plan
<1>1. Passed(r) \in Run
  BY DEF Passed, Run
<1> QED
  BY <1>1 DEF Passed, Run

(* An entry goes: the re-read under its lock found no live lease.           *)
LEMMA RemoveEntryStep ==
  ASSUME IInv, NEW p \in Proc, RemoveEntry(p)
  PROVE  IInv'
<1>1. PICK c \in run[p].plan :
        /\ entry[c.id] # None /\ Free(lock[c.id])
        /\ StillEligible(p, c) \/ c.id \in spoilt'
        /\ lock' = [lock EXCEPT ![c.id] = p]
        /\ entry' = [entry EXCEPT ![c.id] = None]
        /\ run' = [run EXCEPT ![p] = Taken(run[p], c, c.id, entry[c.id])]
        /\ spoilt' \in {spoilt, spoilt \cup {c.id}}
  BY Zenon DEF RemoveEntry, Taken
<1>2. PICK e, t, r : e = c.id /\ t = entry[e] /\ r = Taken(run[p], c, e, t)
  OBVIOUS
<1>3. /\ pc[p] = "entries" /\ pc' = [pc EXCEPT ![p] = "entryMoved"]
      /\ UNCHANGED <<now, restore, access, maint, hit, stuck>>
  BY DEF RemoveEntry, Goto
<1>4. run[p] \in Run /\ e \in Id /\ t \in Entry
  BY <1>1, <1>2 DEF IInv, TypeOK, Run, Candidate
<1>5. /\ r \in Run /\ r.at = run[p].at /\ r.prot = run[p].prot /\ r.aux = run[p].aux
      /\ r.plan = run[p].plan \ {c} /\ r.cur = e /\ r.tomb = t
  BY <1>2, <1>4, TakenRun
<1>6. /\ run'[p] = r /\ pc'[p] = "entryMoved" /\ lock'[e] = p /\ entry'[e] = None
      /\ \A q \in Proc \ {p} : run'[q] = run[q] /\ pc'[q] = pc[q]
  BY <1>1, <1>2, <1>3, <1>4 DEF IInv, TypeOK
<1>7. TypeOK'
  <2>1. run' \in [Proc -> Run] /\ spoilt' \in SUBSET Id
    BY <1>1, <1>2, <1>4, <1>5 DEF IInv, TypeOK
  <2>2. /\ lock' \in [Id -> Proc \cup {None}] /\ entry' \in [Id -> Entry \cup {None}]
        /\ pc' \in [Proc -> Phase]
    BY <1>1, <1>3 DEF IInv, TypeOK, Phase, Pruning
  <2> QED
    BY <1>3, <2>1, <2>2 DEF IInv, TypeOK
<1>8. Acts(p, e)
  <2>1. \A d \in Id \ {e} : entry'[d] = entry[d] /\ lock'[d] = lock[d]
    BY <1>1, <1>2 DEF IInv, TypeOK
  <2> QED
    BY <1>1, <1>2, <1>3, <1>6, <2>1 DEF Acts
<1>9. Gentle(e)
  BY <1>1, <1>2, NoLease DEF Gentle, StillEligible
<1>10. Sane(p)'
  <2>1. Sane(p) /\ (~t.valid => e \in spoilt')
    BY <1>1, <1>2, <1>4, Absent DEF IInv, Judged
  <2>2. r.tomb # None
    BY <1>4, <1>5, Absent
  <2> QED
    BY <1>3, <1>4, <1>5, <1>6, <2>1, <2>2 DEF Sane, Holds, Having, Spares, Moved, Pruning
<1>11. Judged(e)' /\ hit'[p] = hit[p]
  BY <1>3, <1>6 DEF Judged
<1> QED
  BY <1>7, <1>8, <1>9, <1>10, <1>11, StepOf

(* The restore follows its entry to the trash.                              *)
LEMMA RemoveRestoreStep ==
  ASSUME IInv, NEW p \in Proc, RemoveRestore(p)
  PROVE  IInv'
<1>1. PICK e : e = run[p].cur
  OBVIOUS
<1>2. /\ pc[p] = "entryMoved" /\ pc' = [pc EXCEPT ![p] = "recordLeft"]
      /\ restore' = [restore EXCEPT ![e] = None]
      /\ UNCHANGED <<now, entry, access, lock, maint, hit, run, spoilt, stuck>>
  BY <1>1 DEF RemoveRestore, Goto
<1>3. e \in Id /\ lock[e] = p /\ entry[e] = None
  BY <1>1, <1>2 DEF IInv, Sane, Holds, Moved
<1>4. TypeOK'
  BY <1>2 DEF IInv, TypeOK, Phase, Pruning
<1>5. pc'[p] = "recordLeft" /\ restore'[e] = None /\ \A q \in Proc \ {p} : pc'[q] = pc[q]
  BY <1>2, <1>3 DEF IInv, TypeOK
<1>6. Acts(p, e) /\ Gentle(e)
  <2>1. \A d \in Id \ {e} : restore'[d] = restore[d]
    BY <1>2 DEF IInv, TypeOK
  <2>2. \A q \in Proc : ~(Live(q) /\ hit[q].id = e)
    BY <1>3 DEF IInv, Kept
  <2> QED
    BY <1>2, <1>3, <1>5, <2>1, <2>2 DEF Acts, Gentle
<1>7. Sane(p)'
  BY <1>1, <1>2, <1>3, <1>5 DEF IInv, Sane, Holds, Having, Spares, Moved, Pruning
<1>8. Judged(e)' /\ hit'[p] = hit[p]
  BY <1>2, <1>3 DEF Judged
<1> QED
  BY <1>4, <1>6, <1>7, <1>8, StepOf

(* The prune is done with an entry, or puts it back.                        *)
LEMMA NextCandidateStep ==
  ASSUME IInv, NEW p \in Proc, RestoreStays(p) \/ RemoveRecord(p)
  PROVE  IInv'
<1>1. PICK e, r : e = run[p].cur /\ r = Passed(run[p])
  OBVIOUS
<1>2. /\ pc[p] \in {"entryMoved", "recordLeft"} /\ pc' = [pc EXCEPT ![p] = "entries"]
      /\ lock' = [lock EXCEPT ![e] = None] /\ run' = [run EXCEPT ![p] = r]
      /\ UNCHANGED <<now, restore, maint, hit, spoilt>>
  BY <1>1 DEF RestoreStays, RemoveRecord, NextCandidate, Passed
<1>3. /\ e \in Id /\ lock[e] = p /\ entry[e] = None /\ run[p] \in Run
  BY <1>1, <1>2 DEF IInv, Sane, Holds, Moved, TypeOK
<1>4. /\ r \in Run /\ r.at = run[p].at /\ r.prot = run[p].prot /\ r.aux = run[p].aux
      /\ r.plan = run[p].plan
  BY <1>1, <1>3, PassedRun
<1>5. /\ entry' \in {entry, [entry EXCEPT ![e] = run[p].tomb]}
      /\ entry' # entry => pc[p] = "entryMoved"
      /\ access' \in {access, [access EXCEPT ![e] = None]}
      /\ stuck' \in {stuck, stuck \cup {e}}
  BY <1>1 DEF RestoreStays, RemoveRecord
<1>6. TypeOK'
  <2>1. run[p].tomb \in Entry \cup {None}
    BY <1>3 DEF Run
  <2>2. entry' \in [Id -> Entry \cup {None}] /\ access' \in [Id -> AccessRecord \cup {None}]
    BY <1>5, <2>1 DEF IInv, TypeOK
  <2>3. stuck' \in SUBSET Id /\ run' \in [Proc -> Run]
    BY <1>2, <1>3, <1>4, <1>5 DEF IInv, TypeOK
  <2> QED
    BY <1>2, <2>2, <2>3 DEF IInv, TypeOK, Phase, Pruning
<1>7. /\ run'[p] = r /\ pc'[p] = "entries"
      /\ \A q \in Proc \ {p} : run'[q] = run[q] /\ pc'[q] = pc[q]
  BY <1>2 DEF IInv, TypeOK
<1>8. Acts(p, e) /\ Gentle(e)
  <2>1. \A d \in Id \ {e} : entry'[d] = entry[d] /\ access'[d] = access[d] /\ lock'[d] = lock[d]
    BY <1>2, <1>5 DEF IInv, TypeOK
  <2>2. \A q \in Proc : ~(Live(q) /\ hit[q].id = e)
    BY <1>3 DEF IInv, Kept
  <2> QED
    BY <1>2, <1>3, <1>7, <2>1, <2>2 DEF Acts, Gentle
<1>9. Sane(p)'
  BY <1>2, <1>4, <1>7 DEF IInv, Sane, Holds, Having, Spares, Moved, Pruning
<1>10. Judged(e)' /\ hit'[p] = hit[p]
  BY <1>1, <1>2, <1>3, <1>5 DEF IInv, Sane, Moved, TypeOK, Judged
<1> QED
  BY <1>6, <1>8, <1>9, <1>10, StepOf

------------------------------------------------------------------------------
(* Time passes, and leases end.                                             *)
LEMMA TickStep == IInv /\ Tick => IInv'
<1> SUFFICES ASSUME IInv, Tick PROVE IInv'
  OBVIOUS
<1>1. now \in Nat /\ now' = now + 1 /\ now' \in Time
  BY Times, TimeAssumption DEF Tick, IInv, TypeOK, Time
<1>2. UNCHANGED <<entry, restore, access, lock, maint, pc, hit, run, spoilt, stuck>>
  BY DEF Tick
<1>3. TypeOK' /\ \A e \in Id : Judged(e)'
  BY <1>1, <1>2 DEF IInv, TypeOK, Judged
<1>4. ASSUME NEW p \in Proc PROVE Sane(p)' /\ Kept(p)'
  <2>1. run[p].at \in Nat /\ (hit[p] # None => hit[p].until \in Nat)
    BY Times DEF IInv, TypeOK, Run, Hit
  <2>2. Live(p)' => Live(p)
    BY <1>1, <1>2, <2>1 DEF Live
  <2>3. Kept(p)'
    BY <1>2, <2>2 DEF IInv, Kept
  <2>4. run[p].at <= now'
    BY <1>1, <2>1 DEF IInv, Sane, Spares
  <2> QED
    BY <1>2, <2>3, <2>4 DEF IInv, Sane, Holds, Having, Spares, Moved
<1> QED
  BY <1>3, <1>4 DEF IInv

(* An entry goes bad in place.                                              *)
LEMMA RotStep ==
  ASSUME IInv, NEW e \in Id, Rot(e)
  PROVE  IInv'
<1>1. PICK t : t = [entry[e] EXCEPT !.valid = FALSE]
  OBVIOUS
<1>2. /\ entry[e] \in Entry /\ entry' = [entry EXCEPT ![e] = t] /\ spoilt' = spoilt \cup {e}
      /\ UNCHANGED <<now, restore, access, lock, maint, pc, hit, run, stuck>>
  BY <1>1 DEF Rot, Readable, IInv, TypeOK
<1>3. t \in Entry
  BY <1>1, <1>2 DEF Entry
<1>4. TypeOK' /\ \A d \in Id \ {e} : entry'[d] = entry[d]
  BY <1>2, <1>3 DEF IInv, TypeOK
<1>5. \A d \in Id : Judged(d)'
  BY <1>2, <1>4 DEF IInv, Judged
<1>6. ASSUME NEW p \in Proc PROVE Sane(p)' /\ Kept(p)'
  <2>1. Sane(p) /\ Kept(p) /\ (hit[p] # None => hit[p].id \in Id)
    BY DEF IInv, TypeOK, Hit
  <2>2. Kept(p)'
    BY <1>2, <1>4, <2>1 DEF Kept, Live
  <2>3. pc[p] \in {"entryMoved", "recordLeft"} => run[p].cur \in Id \ {e}
    BY <1>2, <2>1, Absent DEF Sane, Holds, Moved
  <2> QED
    BY <1>2, <1>4, <2>1, <2>2, <2>3 DEF Sane, Holds, Having, Spares, Moved
<1> QED
  BY <1>4, <1>5, <1>6 DEF IInv

------------------------------------------------------------------------------
(* Every run of CachePrune satisfies the inductive invariant: locks, plans, *)
(* half-done removals and returned paths fit together.                      *)
THEOREM InductiveInvariant == Spec => []IInv
<1>1. IInv /\ [Next]_vars => IInv'
  <2> SUFFICES ASSUME IInv, [Next]_vars PROVE IInv'
    OBVIOUS
  <2>1. CASE UNCHANGED vars
    BY <2>1 DEF vars, IInv, TypeOK, Sane, Holds, Having, Spares, Moved, Judged, Kept, Live
  <2>2. CASE Next
    BY <2>2, TickStep, RotStep, ClientQuiet, InventoryStep, PruneQuiet, SkipQuiet, ReplanStep,
       BeginStep, LeaveStep, QuarantineStep, ReturnStep, RemoveAuxiliaryStep, RemoveEntryStep,
       RemoveRestoreStep, NextCandidateStep DEF Next
  <2> QED
    BY <2>1, <2>2
<1> QED
  BY InitIInv, <1>1, PTL DEF Spec

(* All variables keep their types: in particular a prune plans and moves    *)
(* only what the catalog lists.                                             *)
THEOREM TypeCorrect == Spec => []TypeOK
<1>1. IInv => TypeOK
  BY DEF IInv
<1> QED
  BY <1>1, InductiveInvariant, PTL

(* For any number of processes and entries and any policy: a path that was  *)
(* returned under a recorded lease stays until the lease ends. pruneCache   *)
(* reads the access record again under the entry's lock, and compares it    *)
(* with a date that is not later than its own.                              *)
THEOREM LeaseHolds == Spec => []LeasedHitKept
<1>1. IInv => LeasedHitKept
  <2> SUFFICES ASSUME IInv, NEW p \in Proc, hit[p] # None, hit[p].id \notin spoilt,
                      hit[p].leased, ~(now >= hit[p].until)
               PROVE  PathThere(hit[p])
    BY DEF LeasedHitKept
  <2>1. hit[p] \in Hit /\ hit[p].until \in Nat /\ now \in Nat
    BY Times DEF IInv, TypeOK, Hit
  <2>2. Kept(p) /\ Live(p)
    BY <2>1 DEF IInv, Live
  <2> QED
    BY <2>1, <2>2 DEF Kept, PathThere, Hit
<1> QED
  BY <1>1, InductiveInvariant, PTL

(* The entry whose path a provider is about to return outlives the prune    *)
(* that the provider itself runs first: protectedEntryIds names it, and     *)
(* neither the plan nor the list of invalid entries contains it.            *)
THEOREM OwnEntrySpared == Spec => OwnEntryKept
<1> DEFINE Own == \A p \in Proc :
                    hit[p] # None /\ run'[p] # run[p] /\ entry[hit[p].id] # None
                      => entry'[hit[p].id] # None
<1>1. IInv /\ [Next]_vars => [Own]_vars
  <2> SUFFICES ASSUME IInv, Next, NEW p \in Proc, hit[p] # None, run'[p] # run[p],
                      entry[hit[p].id] # None
               PROVE  entry'[hit[p].id] # None
    OBVIOUS
  <2> DEFINE h == hit[p].id
  <2>1. pc[p] \notin {"idle", "busy", "dead"} /\ h \in Id
    BY DEF IInv, Sane, Having, TypeOK, Hit
  <2>2. ASSUME NEW q \in Proc, NEW x, run' = [run EXCEPT ![q] = x] PROVE q = p
    BY <2>2 DEF IInv, TypeOK
  <2>3. ASSUME NEW q \in Proc, Upload(q) PROVE entry'[h] # None
    BY <2>1, <2>2, <2>3 DEF Upload, Return
  <2>4. ASSUME NEW q \in Proc, RemoveAuxiliary(q) PROVE entry'[h] # None
    <3>1. PICK c \in run[q].aux :
            /\ \/ entry' = IF c.kind = "invalid" THEN [entry EXCEPT ![c.id] = None] ELSE entry
               \/ entry' = entry
            /\ \E x : run' = [run EXCEPT ![q] = x]
      BY <2>4 DEF RemoveAuxiliary
    <3>2. p = q /\ h \in run[p].prot
      BY <2>2, <2>4, <3>1 DEF RemoveAuxiliary, IInv, Sane, Spares, Pruning
    <3>3. c.kind = "invalid" => c.id # h
      BY <3>2 DEF IInv, Sane, Spares
    <3> QED
      BY <2>1, <3>1, <3>3 DEF IInv, TypeOK
  <2>5. ASSUME NEW q \in Proc, RemoveEntry(q) PROVE entry'[h] # None
    <3>1. PICK c \in run[q].plan :
            /\ entry' = [entry EXCEPT ![c.id] = None]
            /\ run' = [run EXCEPT ![q] = Taken(run[q], c, c.id, entry[c.id])]
      BY <2>5, Zenon DEF RemoveEntry, Taken
    <3>2. p = q /\ h \in run[p].prot
      BY <2>2, <2>5, <3>1 DEF RemoveEntry, Goto, IInv, Sane, Spares, Pruning
    <3>3. c.id # h
      BY <3>2 DEF IInv, Sane, Spares
    <3> QED
      BY <2>1, <3>1, <3>3 DEF IInv, TypeOK
  <2>6. ASSUME NEW q \in Proc, RestoreStays(q) PROVE entry'[h] # None
    BY <2>1, <2>6 DEF RestoreStays, IInv, Sane, Moved, TypeOK
  <2>7. CASE entry' = entry
    BY <2>7
  <2> QED
    BY <2>3, <2>4, <2>5, <2>6, <2>7
    DEF Next, Begin, Resolve, UploadExisting, Quarantine, Leave, NoPrune, Done, Inventory,
        TakeMaintenance, MaintenanceBusy, SkipAuxiliary, Replan, SkipEntry, RemoveRestore,
        RemoveRecord, Finish, Crash, Tick, Rot
<1> QED
  BY <1>1, InductiveInvariant, PTL DEF Spec, OwnEntryKept

(* A prune that is done with an entry has removed both it and its restore,  *)
(* or put the entry back: between the two renames nobody else can touch     *)
(* either, the entry's lock being held.                                     *)
THEOREM NeverHalf == Spec => NothingHalfRemoved
<1> DEFINE Whole == \A p \in Proc :
             LET e == run[p].cur
             IN  pc[p] \in {"entryMoved", "recordLeft"} /\ pc'[p] = "entries" /\ e \notin stuck'
                   => (entry'[e] = None => restore'[e] = None)
<1>1. IInv /\ [Next]_vars => [Whole]_vars
  <2> SUFFICES ASSUME IInv, Next, NEW p \in Proc, pc[p] \in {"entryMoved", "recordLeft"},
                      pc'[p] = "entries", NEW e, e = run[p].cur, e \notin stuck', entry'[e] = None
               PROVE  restore'[e] = None
    OBVIOUS
  <2>1. Sane(p) /\ e \in Id
    BY DEF IInv, Sane, Holds
  <2>2. ASSUME NEW q \in Proc, pc' = [pc EXCEPT ![q] = "entries"] PROVE q = p
    BY <2>2 DEF IInv, TypeOK
  <2>3. CASE RestoreStays(p)
    BY <2>1, <2>3 DEF RestoreStays, Sane, Moved, IInv, TypeOK
  <2>4. CASE RemoveRecord(p)
    BY <2>1, <2>4 DEF RemoveRecord, NextCandidate, Sane, Moved
  <2>5. ASSUME NEW q \in Proc, RestoreStays(q) \/ RemoveRecord(q) PROVE q = p
    BY <2>2, <2>5 DEF RestoreStays, RemoveRecord, NextCandidate
  <2>6. ASSUME NEW q \in Proc, Replan(q) PROVE FALSE
    BY <2>2, <2>6 DEF Replan, Goto
  <2>7. ASSUME NEW q \in Proc, NEW x, x # "entries", pc' = [pc EXCEPT ![q] = x] PROVE FALSE
    BY <2>7 DEF IInv, TypeOK
  <2>8. pc' # pc
    OBVIOUS
  <2>9. ASSUME NEW q \in Proc, EndPrune(q) PROVE FALSE
    <3>1. (IF hit[q] = None THEN "idle" ELSE "using") # "entries"
      OBVIOUS
    <3> QED
      BY <2>7, <2>9, <3>1 DEF EndPrune
  <2>10. ASSUME NEW q \in Proc, NEW f \in Id, Begin(q, f) PROVE FALSE
    BY <2>7, <2>10 DEF Begin, Goto
  <2>11. ASSUME NEW q \in Proc, NEW at, Return(q, at) PROVE FALSE
    BY <2>7, <2>11 DEF Return
  <2>12. ASSUME NEW q \in Proc, Resolve(q) \/ Upload(q) \/ UploadExisting(q) PROVE FALSE
    BY <2>11, <2>12 DEF Resolve, Upload, UploadExisting
  <2>13. ASSUME NEW q \in Proc,
                Leave(q) \/ NoPrune(q) \/ Done(q) \/ TakeMaintenance(q) \/ RemoveRestore(q)
         PROVE FALSE
    BY <2>7, <2>13 DEF Leave, NoPrune, Done, TakeMaintenance, RemoveRestore, Goto
  <2>14. ASSUME NEW q \in Proc, Inventory(q) PROVE FALSE
    BY <2>7, <2>14 DEF Inventory, Goto
  <2>15. ASSUME NEW q \in Proc, RemoveEntry(q) PROVE FALSE
    BY <2>7, <2>15 DEF RemoveEntry, Goto
  <2>16. ASSUME NEW q \in Proc, MaintenanceBusy(q) \/ Finish(q) PROVE FALSE
    BY <2>9, <2>16 DEF MaintenanceBusy, Finish
  <2>17. ASSUME NEW q \in Proc, Crash(q) PROVE FALSE
    BY <2>7, <2>17 DEF Crash
  <2>18. ASSUME NEW q \in Proc,
                Quarantine(q) \/ RemoveAuxiliary(q) \/ SkipAuxiliary(q) \/ SkipEntry(q)
         PROVE FALSE
    BY <2>8, <2>18 DEF Quarantine, RemoveAuxiliary, SkipAuxiliary, SkipEntry
  <2>19. ASSUME Tick \/ \E f \in Id : Rot(f) PROVE FALSE
    BY <2>8, <2>19 DEF Tick, Rot
  <2> QED
    BY <2>3, <2>4, <2>5, <2>6, <2>10, <2>12, <2>13, <2>14, <2>15, <2>16, <2>17, <2>18, <2>19
    DEF Next
<1> QED
  BY <1>1, InductiveInvariant, PTL DEF Spec, NothingHalfRemoved
===============================================================================
