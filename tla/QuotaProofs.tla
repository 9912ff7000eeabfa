---------------------------- MODULE QuotaProofs ----------------------------
(***************************************************************************)
(* The overshoot bounds of Quota for every number of clients, every quota  *)
(* and any set of blob ids: first the objects, then, with what it takes to *)
(* reason about a sum over a finite set, the bytes.                        *)
(***************************************************************************)
EXTENDS Quota, FiniteSetTheorems, WellFoundedInduction, TLAPS

\* Puts that were admitted, renames that hold a manifest, and what they hold.
Writing == {c \in Client : put[c].pc = "write"}
Naming  == {c \in Client : put[c].pc = "name"}
Held    == {put[c].blob : c \in Naming}

ShapeInv ==
    \A c \in Client :
        /\ put[c].pc # "idle" => put[c].size \in Size
        /\ put[c].pc \in {"write", "name"} => put[c].blob \in Blob

\* What is stored, what a rename may bring back, and what an admitted put will
\* add are within the overshoot bound.
Bound == Cardinality(Listed \cup Held) + Cardinality(Writing)
            <= MaxObjects + Cardinality(Client) - 1

IInv == TypeOK /\ ShapeInv /\ IsFiniteSet(Listed) /\ Bound

\* The sets involved are finite and have natural cardinalities.
LEMMA Finite ==
    ASSUME IsFiniteSet(Listed)
    PROVE  /\ Cardinality(Client) \in Nat \ {0}
           /\ IsFiniteSet(Writing) /\ Cardinality(Writing) \in Nat
           /\ IsFiniteSet(Naming) /\ Cardinality(Naming) \in Nat
           /\ IsFiniteSet(Held) /\ Cardinality(Held) <= Cardinality(Naming)
           /\ Cardinality(Held) \in Nat
           /\ IsFiniteSet(Listed \cup Held) /\ Cardinality(Listed \cup Held) \in Nat
           /\ Cardinality(Listed) \in Nat
           /\ Cardinality(Listed \cup Held) <= Cardinality(Listed) + Cardinality(Held)
<1>1. IsFiniteSet(Client) /\ Client # {}
  BY QuotaAssumption
<1>2. Cardinality(Client) \in Nat \ {0}
  BY <1>1, FS_CardinalityType, FS_EmptySet
<1>3. Writing \subseteq Client /\ Naming \subseteq Client
  BY DEF Writing, Naming
<1>4. /\ IsFiniteSet(Writing) /\ Cardinality(Writing) \in Nat
      /\ IsFiniteSet(Naming) /\ Cardinality(Naming) \in Nat
  BY <1>1, <1>3, FS_Subset, FS_CardinalityType
<1>5. IsFiniteSet(Held) /\ Cardinality(Held) <= Cardinality(Naming)
  <2>1. PICK f : f = [c \in Naming |-> put[c].blob]
    OBVIOUS
  <2>2. f \in Surjection(Naming, Held)
    BY <2>1 DEF Surjection, Held
  <2>. QED
    BY <1>4, <2>2, FS_Surjection
<1>6. Cardinality(Held) \in Nat /\ Cardinality(Listed) \in Nat
  BY <1>5, FS_CardinalityType
<1>7. /\ IsFiniteSet(Listed \cup Held)
      /\ Cardinality(Listed \cup Held)
           = Cardinality(Listed) + Cardinality(Held) - Cardinality(Listed \cap Held)
  BY <1>5, FS_Union
<1>8. Cardinality(Listed \cap Held) \in Nat
  BY <1>5, FS_Intersection, FS_CardinalityType
<1>9. Cardinality(Listed \cup Held) \in Nat
  BY <1>7, FS_CardinalityType
<1>. QED
  BY <1>2, <1>4, <1>5, <1>6, <1>7, <1>8, <1>9

\* A step that stores, holds and writes no more keeps the bound.
LEMMA Shrinks ==
    ASSUME IInv, TypeOK', ShapeInv', IsFiniteSet(Listed'),
           (Listed \cup Held)' \subseteq Listed \cup Held,
           Writing' \subseteq Writing
    PROVE  IInv'
<1>1. Cardinality((Listed \cup Held)') <= Cardinality(Listed \cup Held)
      /\ IsFiniteSet((Listed \cup Held)')
  BY Finite, FS_Subset DEF IInv
<1>2. Cardinality(Writing') <= Cardinality(Writing) /\ IsFiniteSet(Writing')
  BY Finite, FS_Subset DEF IInv
<1>3. Cardinality((Listed \cup Held)') \in Nat /\ Cardinality(Writing') \in Nat
  BY <1>1, <1>2, FS_CardinalityType
<1>4. Bound'
  BY <1>1, <1>2, <1>3, Finite, QuotaAssumption DEF IInv, Bound
<1>. QED
  BY <1>4 DEF IInv

\* Facts about the record of a request that changes.
LEMMA Types ==
    ASSUME TypeOK, NEW c \in Client, NEW r,
           r \in [pc : {"idle", "check", "write", "name"},
                  size : Size \cup {None}, blob : Blob \cup {None}],
           put' = [put EXCEPT ![c] = r]
    PROVE  /\ put' \in [Client -> [pc : {"idle", "check", "write", "name"},
                                   size : Size \cup {None}, blob : Blob \cup {None}]]
           /\ put'[c] = r
           /\ \A d \in Client \ {c} : put'[d] = put[d]
  BY DEF TypeOK

\* An arriving upload keeps the bound.
LEMMA ArriveStep ==
    ASSUME IInv, NEW c \in Client, NEW s \in Size, Arrive(c, s) PROVE IInv'
<1>1. PICK r : r = [pc |-> "check", size |-> s, blob |-> None]
  OBVIOUS
<1>2. /\ put' \in [Client -> [pc : {"idle", "check", "write", "name"},
                              size : Size \cup {None}, blob : Blob \cup {None}]]
      /\ put'[c] = r /\ \A d \in Client \ {c} : put'[d] = put[d]
  BY <1>1, Types DEF IInv, Arrive
<1>3. TypeOK' /\ ShapeInv'
  BY <1>1, <1>2 DEF IInv, TypeOK, ShapeInv, Arrive
<1>4. Listed' = Listed /\ Held' \subseteq Held /\ Writing' \subseteq Writing
  BY <1>1, <1>2 DEF Arrive, Listed, Held, Naming, Writing
<1>. QED
  BY <1>3, <1>4, Shrinks DEF IInv

\* A failed request keeps the bound.
LEMMA FailStep ==
    ASSUME IInv, NEW c \in Client, Fail(c) PROVE IInv'
<1>1. PICK r : r = Quiet
  OBVIOUS
<1>2. /\ put' \in [Client -> [pc : {"idle", "check", "write", "name"},
                              size : Size \cup {None}, blob : Blob \cup {None}]]
      /\ put'[c] = r /\ \A d \in Client \ {c} : put'[d] = put[d]
  BY <1>1, Types DEF IInv, Fail, Quiet
<1>3. TypeOK' /\ ShapeInv'
  BY <1>1, <1>2 DEF IInv, TypeOK, ShapeInv, Fail, Quiet
<1>4. Listed' = Listed /\ Held' \subseteq Held /\ Writing' \subseteq Writing
  BY <1>1, <1>2 DEF Fail, Listed, Held, Naming, Writing, Quiet
<1>. QED
  BY <1>3, <1>4, Shrinks DEF IInv

\* A delete keeps the bound.
LEMMA DeleteStep ==
    ASSUME IInv, NEW b \in Blob, Delete(b) PROVE IInv'
<1>1. TypeOK' /\ ShapeInv'
  BY DEF IInv, TypeOK, ShapeInv, Delete
<1>2. Listed' \subseteq Listed /\ Held' = Held /\ Writing' = Writing
  BY DEF IInv, TypeOK, Delete, Listed, Held, Naming, Writing
<1>3. IsFiniteSet(Listed')
  BY <1>2, FS_Subset DEF IInv
<1>. QED
  BY <1>1, <1>2, <1>3, Shrinks

\* set_manifest_name reading the manifest keeps the invariant.
LEMMA NameGetStep ==
    ASSUME IInv, NEW c \in Client, NEW b \in Blob, NameGet(c, b) PROVE IInv'
<1>1. PICK r : r = [pc |-> "name", size |-> len[b], blob |-> b]
  OBVIOUS
<1>2. len[b] \in Size
  BY DEF NameGet, IInv, TypeOK
<1>3. /\ put' \in [Client -> [pc : {"idle", "check", "write", "name"},
                              size : Size \cup {None}, blob : Blob \cup {None}]]
      /\ put'[c] = r /\ \A d \in Client \ {c} : put'[d] = put[d]
  BY <1>1, <1>2, Types DEF IInv, NameGet
<1>4. TypeOK' /\ ShapeInv'
  BY <1>1, <1>2, <1>3 DEF IInv, TypeOK, ShapeInv, NameGet
<1>5. Listed' = Listed /\ b \in Listed /\ Writing' \subseteq Writing
  BY <1>1, <1>3 DEF NameGet, Listed, Writing
<1>6. Held' \subseteq Held \cup {b}
  BY <1>1, <1>3 DEF Held, Naming
<1>. QED
  BY <1>4, <1>5, <1>6, Shrinks DEF IInv

\* What a request that publishes changes.
LEMMA Publishes ==
    ASSUME IInv, NEW c \in Client, put[c].pc \in {"write", "name"},
           len' = [len EXCEPT ![put[c].blob] = put[c].size],
           put' = [put EXCEPT ![c] = Quiet], UNCHANGED used
    PROVE  /\ TypeOK' /\ ShapeInv'
           /\ put[c].blob \in Blob
           /\ Listed' = Listed \cup {put[c].blob}
           /\ IsFiniteSet(Listed')
           /\ Held' \subseteq Held /\ Writing' = Writing \ {c}
<1>1. put[c].blob \in Blob /\ put[c].size \in Size
  BY DEF IInv, ShapeInv
<1>2. PICK r : r = Quiet
  OBVIOUS
<1>3. /\ put' \in [Client -> [pc : {"idle", "check", "write", "name"},
                              size : Size \cup {None}, blob : Blob \cup {None}]]
      /\ put'[c] = r /\ \A d \in Client \ {c} : put'[d] = put[d]
  BY <1>2, Types DEF IInv, Quiet
<1>4. TypeOK' /\ ShapeInv'
  BY <1>1, <1>2, <1>3 DEF IInv, TypeOK, ShapeInv, Quiet
<1>5. Listed' = Listed \cup {put[c].blob}
  BY <1>1, QuotaAssumption DEF IInv, TypeOK, Listed
<1>6. IsFiniteSet(Listed')
  BY <1>5, FS_AddElement DEF IInv
<1>7. Held' \subseteq Held /\ Writing' = Writing \ {c}
  BY <1>2, <1>3 DEF Held, Naming, Writing, Quiet
<1>. QED
  BY <1>1, <1>4, <1>5, <1>6, <1>7

\* set_manifest_name writing the manifest back keeps the invariant.
LEMMA NamePutStep ==
    ASSUME IInv, NEW c \in Client, NamePut(c) PROVE IInv'
<1>1. /\ TypeOK' /\ ShapeInv' /\ Listed' = Listed \cup {put[c].blob}
      /\ IsFiniteSet(Listed') /\ Held' \subseteq Held /\ Writing' = Writing \ {c}
  BY Publishes DEF NamePut
<1>2. put[c].blob \in Held
  BY DEF NamePut, Held, Naming
<1>. QED
  BY <1>1, <1>2, Shrinks

\* Publishing a manifest, or a rename writing one back, keeps the bound.
LEMMA PublishStep ==
    ASSUME IInv, NEW c \in Client, Publish(c) PROVE IInv'
<1>1. /\ TypeOK' /\ ShapeInv' /\ Listed' = Listed \cup {put[c].blob}
      /\ IsFiniteSet(Listed') /\ Held' \subseteq Held /\ Writing' = Writing \ {c}
  BY Publishes DEF Publish
<1>2. PICK all : all = Listed \cup Held
  OBVIOUS
<1>3. IsFiniteSet(all) /\ Cardinality(all) \in Nat /\ Cardinality(Writing) \in Nat
      /\ IsFiniteSet(Writing)
  BY <1>2, Finite DEF IInv
<1>4. /\ IsFiniteSet(all \cup {put[c].blob})
      /\ Cardinality(all \cup {put[c].blob}) \in {Cardinality(all), Cardinality(all) + 1}
  BY <1>3, FS_AddElement
<1>5. (Listed \cup Held)' \subseteq all \cup {put[c].blob}
  BY <1>1, <1>2
<1>6. /\ IsFiniteSet((Listed \cup Held)')
      /\ Cardinality((Listed \cup Held)') <= Cardinality(all \cup {put[c].blob})
  BY <1>4, <1>5, FS_Subset
<1>7. c \in Writing
  BY DEF Publish, Writing
<1>8. Cardinality(Writing') = Cardinality(Writing) - 1
  BY <1>1, <1>3, <1>7, FS_RemoveElement
<1>9. Cardinality((Listed \cup Held)') \in Nat
  BY <1>6, FS_CardinalityType
<1>10. Bound'
  BY <1>2, <1>3, <1>4, <1>6, <1>8, <1>9, Finite, QuotaAssumption DEF IInv, Bound
<1>. QED
  BY <1>1, <1>10 DEF IInv

\* The check admits only below max_objects, so it keeps the bound.
LEMMA CheckStep ==
    ASSUME IInv, NEW c \in Client, NEW b \in Blob, Check(c, b) PROVE IInv'
<1>1. CASE ~Admitted(put[c].size)
  <2>1. /\ put' \in [Client -> [pc : {"idle", "check", "write", "name"},
                                size : Size \cup {None}, blob : Blob \cup {None}]]
        /\ put'[c] = Quiet /\ \A d \in Client \ {c} : put'[d] = put[d]
    <3>1. PICK r : r = Quiet
      OBVIOUS
    <3>. QED
      BY <1>1, <3>1, Types DEF IInv, Check, Quiet
  <2>2. TypeOK' /\ ShapeInv'
    BY <1>1, <2>1 DEF IInv, TypeOK, ShapeInv, Check, Quiet
  <2>3. Listed' = Listed /\ Held' \subseteq Held /\ Writing' \subseteq Writing
    BY <1>1, <2>1 DEF Check, Listed, Held, Naming, Writing, Quiet
  <2>. QED
    BY <2>2, <2>3, Shrinks DEF IInv
<1>2. CASE Admitted(put[c].size)
  <2>1. put[c].pc = "check" /\ put[c].size \in Size
    BY DEF Check, IInv, ShapeInv
  <2>2. PICK r : r = [pc |-> "write", size |-> put[c].size, blob |-> b]
    OBVIOUS
  <2>3. put' = [put EXCEPT ![c] = r]
    BY <1>2, <2>2 DEF Check, IInv, TypeOK
  <2>4. /\ put' \in [Client -> [pc : {"idle", "check", "write", "name"},
                                size : Size \cup {None}, blob : Blob \cup {None}]]
        /\ put'[c] = r /\ \A d \in Client \ {c} : put'[d] = put[d]
    BY <2>1, <2>2, <2>3, Types DEF IInv
  <2>5. TypeOK' /\ ShapeInv'
    BY <1>2, <2>1, <2>2, <2>4 DEF IInv, TypeOK, ShapeInv, Check
  <2>6. /\ Listed' = Listed /\ Naming' = Naming /\ Held' = Held
        /\ Writing' \subseteq Client /\ Naming \subseteq Client /\ Naming \cap Writing' = {}
    BY <2>1, <2>2, <2>4 DEF Check, Listed, Held, Naming, Writing
  <2>7. Cardinality(Listed) < MaxObjects
    BY <1>2 DEF Admitted, Admits, Objects
  <2>8. IsFiniteSet(Writing') /\ Cardinality(Writing') \in Nat
    BY <2>6, QuotaAssumption, FS_Subset, FS_CardinalityType
  <2>9. Cardinality(Naming) + Cardinality(Writing') <= Cardinality(Client)
    <3>1. Cardinality(Naming \cup Writing') = Cardinality(Naming) + Cardinality(Writing') - 0
      BY <2>6, <2>8, Finite, FS_Union, FS_EmptySet DEF IInv
    <3>2. Cardinality(Naming \cup Writing') <= Cardinality(Client)
      BY <2>6, QuotaAssumption, FS_Subset
    <3>. QED
      BY <2>8, <3>1, <3>2, Finite DEF IInv
  <2>10. Bound'
    BY <2>6, <2>7, <2>8, <2>9, Finite, QuotaAssumption DEF IInv, Bound
  <2>. QED
    BY <2>5, <2>6, <2>10 DEF IInv
<1>. QED
  BY <1>1, <1>2

\* The inductive invariant holds in every reachable state.
THEOREM Invariance == Spec => []IInv
<1>1. Init => IInv
  <2> SUFFICES ASSUME Init PROVE IInv
    OBVIOUS
  <2>1. TypeOK /\ ShapeInv
    BY DEF Init, Quiet, TypeOK, ShapeInv
  <2>2. Listed = {} /\ Held = {} /\ Writing = {}
    BY DEF Init, Quiet, Listed, Held, Naming, Writing
  <2>3. IsFiniteSet(Listed) /\ Cardinality(Listed \cup Held) = 0 /\ Cardinality(Writing) = 0
    BY <2>2, FS_EmptySet
  <2>4. Bound
    BY <2>3, Finite, QuotaAssumption DEF Bound
  <2>. QED
    BY <2>1, <2>3, <2>4 DEF IInv
<1>2. IInv /\ [Next]_vars => IInv'
  <2> SUFFICES ASSUME IInv, [Next]_vars PROVE IInv'
    OBVIOUS
  <2>1. CASE Next
    BY <2>1, ArriveStep, CheckStep, PublishStep, FailStep, DeleteStep, NameGetStep, NamePutStep
       DEF Next
  <2>2. CASE UNCHANGED vars
    <3>1. TypeOK' /\ ShapeInv'
      BY <2>2 DEF vars, IInv, TypeOK, ShapeInv
    <3>2. Listed' = Listed /\ Held' = Held /\ Writing' = Writing
      BY <2>2 DEF vars, Listed, Held, Naming, Writing
    <3>. QED
      BY <3>1, <3>2, Shrinks DEF IInv
  <2>. QED
    BY <2>1, <2>2
<1>. QED
  BY <1>1, <1>2, PTL DEF Spec

\* PutBackup's check-then-act on the quota lets at most one object per further
\* concurrent request through, for every quota and every number of requests.
THEOREM OvershootIsBounded == Spec => []ObjectOvershoot
<1>1. ASSUME IInv PROVE ObjectOvershoot
  <2>1. Cardinality(Listed) <= Cardinality(Listed \cup Held)
    BY <1>1, Finite, FS_Subset DEF IInv
  <2>. QED
    BY <1>1, <2>1, Finite, QuotaAssumption DEF IInv, Bound, ObjectOvershoot, Objects
<1>. QED
  BY <1>1, Invariance, PTL

\* Manifests carry the length that was uploaded, requests are well formed.
THEOREM TypeCorrect == Spec => []TypeOK
<1>1. IInv => TypeOK
  BY DEF IInv
<1>. QED
  BY <1>1, Invariance, PTL

-----------------------------------------------------------------------------
(* Sums over finite sets, by the smallest counterexample. *)

\* A non-empty set of subsets of a finite set has a smallest one: induction over
\* finite sets by the smallest counterexample.
LEMMA Smallest ==
    ASSUME NEW S, IsFiniteSet(S), NEW T, T \subseteq SUBSET S, T # {}
    PROVE  \E m \in T : IsFiniteSet(m) /\ \A s \in T : s \subseteq m => s = m
<1>1. IsWellFoundedOn(StrictSubsetOrdering(S), FiniteSubsetsOf(S))
  BY FS_StrictSubsetOrderingWellFounded
<1>2. FiniteSubsetsOf(S) = SUBSET S
  BY FS_FiniteSubsetsOfFinite
<1>3. PICK m \in T : \A s \in T : ~(<<s, m>> \in StrictSubsetOrdering(S))
  BY <1>1, <1>2, WFMin
<1>4. \A s \in T : s \subseteq m => s = m
  BY <1>3 DEF StrictSubsetOrdering
<1>5. IsFiniteSet(m)
  BY FS_Subset
<1>. QED  BY <1>4, <1>5

\* The element a sum takes first, and what is left.
First(s) == CHOOSE x \in s : TRUE
Rest(s)  == s \ {First(s)}

\* The function over the subsets of S by which the library defines a sum.
Summing(g, f, S) ==
    g = [s \in SUBSET S |-> IF s = {} THEN 0 ELSE f[First(s)] + g[Rest(s)]]

\* The library's sum is that function's value at S.
LEMMA SumIs ==
    ASSUME NEW f, NEW S
    PROVE  SumFunctionOnSet(f, S) = (CHOOSE g : Summing(g, f, S))[S]
BY DEF SumFunctionOnSet, FoldFunctionOnSet, MapThenFoldSet, Summing, First, Rest

\* The first element is one of the set, and the rest is smaller.
LEMMA RestIs ==
    ASSUME NEW s, s # {}
    PROVE  First(s) \in s /\ Rest(s) \subseteq s /\ Rest(s) # s /\ s = Rest(s) \cup {First(s)}
BY DEF First, Rest

\* The sum as its own equation.
Unfolds(f, s) ==
    SumFunctionOnSet(f, s) = IF s = {} THEN 0 ELSE f[First(s)] + SumFunctionOnSet(f, Rest(s))

\* The equation holds of every finite set: below a smallest counterexample the
\* sums themselves are the function, so it exists, and it is the only one.
LEMMA SumUnfolds ==
    ASSUME NEW f, NEW S, IsFiniteSet(S)
    PROVE  Unfolds(f, S)
<1>. SUFFICES ASSUME ~Unfolds(f, S) PROVE FALSE
  OBVIOUS
<1>T. PICK T : T = {s \in SUBSET S : ~Unfolds(f, s)}  OBVIOUS
<1>1. PICK m \in T : IsFiniteSet(m) /\ \A s \in T : s \subseteq m => s = m
  <2>1. T \subseteq SUBSET S /\ T # {}
    BY <1>T
  <2>. QED  BY <2>1, Smallest
<1>2. ~Unfolds(f, m) /\ \A s \in SUBSET m : s # m => Unfolds(f, s)
  BY <1>1, <1>T
<1>st. PICK top : top = IF m = {} THEN 0 ELSE f[First(m)] + SumFunctionOnSet(f, Rest(m))
  OBVIOUS
<1>g. PICK g : g = [s \in SUBSET m |-> IF s = m THEN top ELSE SumFunctionOnSet(f, s)]
  OBVIOUS
<1>3. Summing(g, f, m)
  <2>. DEFINE h == [s \in SUBSET m |-> IF s = {} THEN 0 ELSE f[First(s)] + g[Rest(s)]]
  <2>1. ASSUME NEW s \in SUBSET m
        PROVE  g[s] = IF s = {} THEN 0 ELSE f[First(s)] + g[Rest(s)]
    <3>1. s # {} => Rest(s) \in SUBSET m /\ Rest(s) # m
      BY RestIs
    <3>2. s # {} => g[Rest(s)] = SumFunctionOnSet(f, Rest(s))
      BY <1>g, <3>1
    <3>3. CASE s = m
      BY <1>st, <1>g, <3>2, <3>3
    <3>4. CASE s # m
      <4>1. g[s] = SumFunctionOnSet(f, s)
        BY <1>g, <3>4
      <4>2. Unfolds(f, s)
        BY <1>2, <3>4
      <4>. QED  BY <3>2, <4>1, <4>2 DEF Unfolds
    <3>. QED  BY <3>3, <3>4
  <2>2. g = [s \in SUBSET m |-> g[s]]
    BY <1>g
  <2>3. g = h
    BY <2>1, <2>2
  <2>. QED  BY <2>3 DEF Summing
<1>G. PICK G : G = CHOOSE G1 : Summing(G1, f, m)  OBVIOUS
<1>4. Summing(G, f, m) /\ SumFunctionOnSet(f, m) = G[m]
  BY <1>3, <1>G, SumIs
<1>5. \A s \in SUBSET m : G[s] = IF s = {} THEN 0 ELSE f[First(s)] + G[Rest(s)]
  BY <1>4 DEF Summing
<1>6. ASSUME NEW s \in SUBSET m, s # m
      PROVE  G[s] = SumFunctionOnSet(f, s)
  <2>. SUFFICES ASSUME G[s] # SumFunctionOnSet(f, s) PROVE FALSE
    OBVIOUS
  <2>U. PICK U : U = {t \in SUBSET m : t # m /\ G[t] # SumFunctionOnSet(f, t)}  OBVIOUS
  <2>1. PICK u \in U : \A t \in U : t \subseteq u => t = u
    <3>1. U \subseteq SUBSET m /\ U # {}
      BY <1>6, <2>U
    <3>. QED  BY <1>1, <3>1, Smallest
  <2>2. u \in SUBSET m /\ u # m /\ G[u] # SumFunctionOnSet(f, u)
    BY <2>1, <2>U
  <2>3. u # {} => G[Rest(u)] = SumFunctionOnSet(f, Rest(u))
    <3>. SUFFICES ASSUME u # {} PROVE G[Rest(u)] = SumFunctionOnSet(f, Rest(u))
      OBVIOUS
    <3>1. Rest(u) \in SUBSET m /\ Rest(u) # m /\ Rest(u) # u /\ Rest(u) \subseteq u
      BY <2>2, RestIs
    <3>2. Rest(u) \notin U
      BY <2>1, <3>1
    <3>. QED  BY <2>U, <3>1, <3>2
  <2>4. Unfolds(f, u)
    BY <1>2, <2>2
  <2>. QED  BY <1>5, <2>2, <2>3, <2>4 DEF Unfolds
<1>7. m # {} => Rest(m) \in SUBSET m /\ Rest(m) # m
  BY RestIs
<1>8. m # {} => G[Rest(m)] = SumFunctionOnSet(f, Rest(m))
  BY <1>6, <1>7
<1>9. Unfolds(f, m)
  BY <1>4, <1>5, <1>8 DEF Unfolds
<1>. QED  BY <1>2, <1>9

\* Nothing sums to zero.
LEMMA SumEmpty ==
    ASSUME NEW f
    PROVE  SumFunctionOnSet(f, {}) = 0
BY FS_EmptySet, SumUnfolds DEF Unfolds

\* A sum of natural numbers is one.
LEMMA SumNat ==
    ASSUME NEW f, NEW S, IsFiniteSet(S), \A x \in S : f[x] \in Nat
    PROVE  SumFunctionOnSet(f, S) \in Nat
<1>. SUFFICES ASSUME SumFunctionOnSet(f, S) \notin Nat PROVE FALSE
  OBVIOUS
<1>T. PICK T : T = {s \in SUBSET S : SumFunctionOnSet(f, s) \notin Nat}  OBVIOUS
<1>1. PICK m \in T : IsFiniteSet(m) /\ \A s \in T : s \subseteq m => s = m
  <2>1. T \subseteq SUBSET S /\ T # {}
    BY <1>T
  <2>. QED  BY <2>1, Smallest
<1>2. SumFunctionOnSet(f, m) \notin Nat /\ m \in SUBSET S
  BY <1>1, <1>T
<1>3. m # {}
  BY <1>2, SumEmpty
<1>4. Rest(m) \subseteq m /\ Rest(m) # m /\ First(m) \in m
  BY <1>3, RestIs
<1>5. SumFunctionOnSet(f, Rest(m)) \in Nat
  BY <1>1, <1>2, <1>4, <1>T
<1>6. SumFunctionOnSet(f, m) = f[First(m)] + SumFunctionOnSet(f, Rest(m))
  BY <1>1, <1>3, SumUnfolds DEF Unfolds
<1>7. f[First(m)] \in Nat
  BY <1>2, <1>4
<1>. QED  BY <1>2, <1>5, <1>6, <1>7

\* A sum depends on the values in the set only.
LEMMA SumExt ==
    ASSUME NEW f, NEW g, NEW S, IsFiniteSet(S), \A x \in S : f[x] = g[x]
    PROVE  SumFunctionOnSet(f, S) = SumFunctionOnSet(g, S)
<1>. SUFFICES ASSUME SumFunctionOnSet(f, S) # SumFunctionOnSet(g, S) PROVE FALSE
  OBVIOUS
<1>T. PICK T : T = {s \in SUBSET S : SumFunctionOnSet(f, s) # SumFunctionOnSet(g, s)}
  OBVIOUS
<1>1. PICK m \in T : IsFiniteSet(m) /\ \A s \in T : s \subseteq m => s = m
  <2>1. T \subseteq SUBSET S /\ T # {}
    BY <1>T
  <2>. QED  BY <2>1, Smallest
<1>2. SumFunctionOnSet(f, m) # SumFunctionOnSet(g, m) /\ m \in SUBSET S
  BY <1>1, <1>T
<1>3. m # {}
  BY <1>2, SumEmpty
<1>4. Rest(m) \subseteq m /\ Rest(m) # m /\ First(m) \in m
  BY <1>3, RestIs
<1>5. SumFunctionOnSet(f, Rest(m)) = SumFunctionOnSet(g, Rest(m))
  BY <1>1, <1>2, <1>4, <1>T
<1>6. /\ SumFunctionOnSet(f, m) = f[First(m)] + SumFunctionOnSet(f, Rest(m))
      /\ SumFunctionOnSet(g, m) = g[First(m)] + SumFunctionOnSet(g, Rest(m))
  BY <1>1, <1>3, SumUnfolds DEF Unfolds
<1>. QED  BY <1>2, <1>4, <1>5, <1>6

\* Any element may be taken first.
Takes(f, s) ==
    \A x \in s : SumFunctionOnSet(f, s) = f[x] + SumFunctionOnSet(f, s \ {x})

\* It holds of every finite set: with two elements to choose from, both orders give
\* the sum of the rest plus the two.
LEMMA SumTake ==
    ASSUME NEW f, NEW S, IsFiniteSet(S), \A x \in S : f[x] \in Nat
    PROVE  Takes(f, S)
<1>. SUFFICES ASSUME ~Takes(f, S) PROVE FALSE
  OBVIOUS
<1>T. PICK T : T = {s \in SUBSET S : ~Takes(f, s)}  OBVIOUS
<1>1. PICK m \in T : IsFiniteSet(m) /\ \A s \in T : s \subseteq m => s = m
  <2>1. T \subseteq SUBSET S /\ T # {}
    BY <1>T
  <2>. QED  BY <2>1, Smallest
<1>2. ~Takes(f, m) /\ m \in SUBSET S
  BY <1>1, <1>T
<1>3. PICK x \in m : SumFunctionOnSet(f, m) # f[x] + SumFunctionOnSet(f, m \ {x})
  BY <1>2 DEF Takes
<1>c. PICK c : c = First(m)  OBVIOUS
<1>4. c \in m /\ SumFunctionOnSet(f, m) = f[c] + SumFunctionOnSet(f, m \ {c})
  BY <1>1, <1>3, <1>c, RestIs, SumUnfolds DEF Unfolds, Rest
<1>5. x # c
  BY <1>3, <1>4
<1>6. Takes(f, m \ {c}) /\ Takes(f, m \ {x})
  BY <1>1, <1>2, <1>3, <1>4, <1>T
<1>d. PICK d : d = (m \ {c}) \ {x}  OBVIOUS
<1>7. SumFunctionOnSet(f, m \ {c}) = f[x] + SumFunctionOnSet(f, d)
  BY <1>3, <1>5, <1>6, <1>d DEF Takes
<1>8. SumFunctionOnSet(f, m \ {x}) = f[c] + SumFunctionOnSet(f, d)
  <2>1. d = (m \ {x}) \ {c}
    BY <1>d
  <2>. QED  BY <1>4, <1>5, <1>6, <2>1 DEF Takes
<1>9. SumFunctionOnSet(f, d) \in Nat
  <2>1. IsFiniteSet(d) /\ d \subseteq S
    BY <1>1, <1>2, <1>d, FS_Subset
  <2>. QED  BY <2>1, SumNat
<1>10. f[x] \in Nat /\ f[c] \in Nat
  BY <1>2, <1>3, <1>4
<1>. QED  BY <1>3, <1>4, <1>7, <1>8, <1>9, <1>10

\* A larger set has a larger sum.
LEMMA SumMono ==
    ASSUME NEW f, NEW S, IsFiniteSet(S), \A x \in S : f[x] \in Nat,
           NEW R, R \subseteq S
    PROVE  SumFunctionOnSet(f, R) <= SumFunctionOnSet(f, S)
<1>. SUFFICES ASSUME ~(SumFunctionOnSet(f, R) <= SumFunctionOnSet(f, S)) PROVE FALSE
  OBVIOUS
<1>T. PICK T : T = {s \in SUBSET S : R \subseteq s /\ ~(SumFunctionOnSet(f, R) <= SumFunctionOnSet(f, s))}
  OBVIOUS
<1>1. PICK m \in T : IsFiniteSet(m) /\ \A s \in T : s \subseteq m => s = m
  <2>1. T \subseteq SUBSET S /\ T # {}
    BY <1>T
  <2>. QED  BY <2>1, Smallest
<1>2. m \in SUBSET S /\ R \subseteq m /\ ~(SumFunctionOnSet(f, R) <= SumFunctionOnSet(f, m))
  BY <1>1, <1>T
<1>3. IsFiniteSet(R) /\ SumFunctionOnSet(f, R) \in Nat
  <2>1. IsFiniteSet(R) /\ \A x \in R : f[x] \in Nat
    BY FS_Subset
  <2>. QED  BY <2>1, SumNat
<1>4. R # m
  BY <1>2, <1>3
<1>5. PICK x \in m : x \notin R
  BY <1>2, <1>4
<1>6. SumFunctionOnSet(f, R) <= SumFunctionOnSet(f, m \ {x})
  BY <1>1, <1>2, <1>5, <1>T
<1>7. SumFunctionOnSet(f, m) = f[x] + SumFunctionOnSet(f, m \ {x})
  <2>1. \A y \in m : f[y] \in Nat
    BY <1>2
  <2>. QED  BY <1>1, <1>5, <2>1, SumTake DEF Takes
<1>8. SumFunctionOnSet(f, m \ {x}) \in Nat /\ f[x] \in Nat
  <2>1. IsFiniteSet(m \ {x}) /\ \A y \in m \ {x} : f[y] \in Nat
    BY <1>1, <1>2, FS_Subset
  <2>. QED  BY <1>2, <1>5, <2>1, SumNat
<1>. QED  BY <1>2, <1>3, <1>6, <1>7, <1>8

\* The sum over a union is at most the two sums.
LEMMA SumUnion ==
    ASSUME NEW f, NEW S, IsFiniteSet(S), \A x \in S : f[x] \in Nat,
           NEW R, IsFiniteSet(R), \A x \in R : f[x] \in Nat
    PROVE  SumFunctionOnSet(f, R \cup S) <= SumFunctionOnSet(f, R) + SumFunctionOnSet(f, S)
<1>. DEFINE Bad(s) == ~(SumFunctionOnSet(f, R \cup s) <= SumFunctionOnSet(f, R) + SumFunctionOnSet(f, s))
<1>. SUFFICES ASSUME Bad(S) PROVE FALSE
  OBVIOUS
<1>T. PICK T : T = {s \in SUBSET S : Bad(s)}
  OBVIOUS
<1>1. PICK m \in T : IsFiniteSet(m) /\ \A s \in T : s \subseteq m => s = m
  <2>1. T \subseteq SUBSET S /\ T # {}
    BY <1>T
  <2>. QED  BY <2>1, Smallest
<1>2. m \in SUBSET S /\ Bad(m)
  BY <1>1, <1>T
<1>0. SumFunctionOnSet(f, R) \in Nat
  BY SumNat
<1>3. m # {}
  <2>. SUFFICES ASSUME m = {} PROVE FALSE  OBVIOUS
  <2>1. R \cup m = R /\ SumFunctionOnSet(f, m) = 0
    BY SumEmpty
  <2>. QED  BY <1>0, <1>2, <2>1
<1>4. PICK x : x \in m
  BY <1>3
<1>k. PICK k : k = m \ {x}  OBVIOUS
<1>5. ~Bad(k)
  BY <1>1, <1>2, <1>4, <1>k, <1>T
<1>6. /\ IsFiniteSet(k) /\ IsFiniteSet(R \cup k) /\ IsFiniteSet(R \cup m)
      /\ \A y \in m : f[y] \in Nat
      /\ \A y \in R \cup m : f[y] \in Nat
      /\ k \subseteq m
  BY <1>1, <1>2, <1>k, FS_Subset, FS_Union
<1>7. /\ SumFunctionOnSet(f, k) \in Nat /\ SumFunctionOnSet(f, R \cup k) \in Nat
      /\ f[x] \in Nat
  BY <1>4, <1>6, SumNat
<1>8. SumFunctionOnSet(f, m) = f[x] + SumFunctionOnSet(f, k)
  BY <1>1, <1>4, <1>6, <1>k, SumTake DEF Takes
<1>9. CASE x \in R
  <2>1. R \cup m = R \cup k
    BY <1>4, <1>9, <1>k
  <2>. QED  BY <1>0, <1>2, <1>5, <1>7, <1>8, <2>1
<1>10. CASE x \notin R
  <2>1. (R \cup m) \ {x} = R \cup k
    BY <1>4, <1>10, <1>k
  <2>2. SumFunctionOnSet(f, R \cup m) = f[x] + SumFunctionOnSet(f, R \cup k)
    BY <1>4, <1>6, <2>1, SumTake DEF Takes
  <2>. QED  BY <1>0, <1>2, <1>5, <1>7, <1>8, <2>2
<1>. QED  BY <1>9, <1>10

\* A sum of n values, none above big, is at most n times big.
LEMMA SumBound ==
    ASSUME NEW f, NEW S, IsFiniteSet(S), NEW big \in Nat, \A x \in S : f[x] \in 0..big
    PROVE  SumFunctionOnSet(f, S) <= Cardinality(S) * big
<1>. DEFINE Bad(s) == ~(SumFunctionOnSet(f, s) <= Cardinality(s) * big)
<1>. SUFFICES ASSUME Bad(S) PROVE FALSE
  OBVIOUS
<1>T. PICK T : T = {s \in SUBSET S : Bad(s)}
  OBVIOUS
<1>1. PICK m \in T : IsFiniteSet(m) /\ \A s \in T : s \subseteq m => s = m
  <2>1. T \subseteq SUBSET S /\ T # {}
    BY <1>T
  <2>. QED  BY <2>1, Smallest
<1>2. m \in SUBSET S /\ Bad(m)
  BY <1>1, <1>T
<1>3. m # {}
  <2>. SUFFICES ASSUME m = {} PROVE FALSE  OBVIOUS
  <2>1. Cardinality(m) = 0 /\ SumFunctionOnSet(f, m) = 0
    BY SumEmpty, FS_EmptySet
  <2>. QED  BY <1>2, <2>1
<1>4. PICK x : x \in m
  BY <1>3
<1>k. PICK k : k = m \ {x}  OBVIOUS
<1>5. ~Bad(k)
  BY <1>1, <1>2, <1>4, <1>k, <1>T
<1>6. IsFiniteSet(k) /\ k \subseteq m /\ \A y \in m : f[y] \in Nat /\ f[y] <= big
  BY <1>1, <1>2, <1>k, FS_Subset
<1>7. SumFunctionOnSet(f, k) \in Nat
  BY <1>6, SumNat
<1>8. SumFunctionOnSet(f, m) = f[x] + SumFunctionOnSet(f, k)
  BY <1>1, <1>4, <1>6, <1>k, SumTake DEF Takes
<1>9. Cardinality(k) \in Nat /\ Cardinality(m) = Cardinality(k) + 1
  <2>1. Cardinality(k) = Cardinality(m) - 1 /\ Cardinality(m) \in Nat /\ Cardinality(k) \in Nat
    BY <1>1, <1>4, <1>6, <1>k, FS_RemoveElement, FS_CardinalityType
  <2>. QED  BY <2>1
<1>10. Cardinality(m) * big = Cardinality(k) * big + big
  <2>1. ASSUME NEW n \in Nat PROVE (n + 1) * big = n * big + big  BY <2>1
  <2>. QED  BY <1>9, <2>1
<1>11. Cardinality(k) * big \in Nat
  BY <1>9
<1>12. f[x] \in Nat /\ f[x] <= big
  BY <1>4, <1>6
<1>13. SumFunctionOnSet(f, k) <= Cardinality(k) * big
  BY <1>5
<1>14. SumFunctionOnSet(f, m) <= Cardinality(m) * big
  <2>1. ASSUME NEW a \in Nat, NEW b \in Nat, NEW v \in Nat, v <= big, a <= b
        PROVE v + a <= b + big
    BY <2>1
  <2>. QED  BY <1>7, <1>8, <1>10, <1>11, <1>12, <1>13, <2>1
<1>. QED  BY <1>2, <1>14

\* Products are monotonic.
LEMMA MulMono ==
    ASSUME NEW k \in Nat, NEW n \in Nat, NEW b \in Nat, k <= n
    PROVE  k * b <= n * b /\ k * b \in Nat /\ n * b \in Nat
  OBVIOUS

-----------------------------------------------------------------------------
(* The byte bound. *)

\* Requests that will store a manifest, the blobs they hold, and every blob that
\* is listed or may be once they are done.
Storing == {c \in Client : put[c].pc \in {"write", "name"}}
Reach   == Listed \cup {put[c].blob : c \in Storing}

\* w gives each blob id the one length it ever has.
Weighs(w) ==
    /\ \A b \in Listed : b \in used /\ len[b] = w[b]
    /\ \A c \in Storing : put[c].blob \in used /\ put[c].size = w[put[c].blob]

Within(w, big) ==
    SumFunctionOnSet(w, Reach) <= MaxBytes + (Cardinality(Client) - 1) * big

\* Whatever is stored, or may be without a further check, is within the bound.
BytesFor(big) == \E w \in [Blob -> 0..big] : Weighs(w) /\ Within(w, big)

Largest(big) == big \in Size /\ \A s \in Size : s <= big

ByteInv == \A big : Largest(big) => BytesFor(big)

\* The sets of the byte bound are finite.
LEMMA ReachFinite ==
    ASSUME IInv
    PROVE  /\ IsFiniteSet(Reach) /\ IsFiniteSet(Listed) /\ Reach \subseteq Blob
           /\ Listed \subseteq Reach /\ Listed \subseteq Blob
           /\ Cardinality(Client) - 1 \in Nat
<1>1. IsFiniteSet({put[c].blob : c \in Storing})
  <2>1. PICK f : f = [c \in Storing |-> put[c].blob]
    OBVIOUS
  <2>2. f \in Surjection(Storing, {put[c].blob : c \in Storing})
    BY <2>1 DEF Surjection
  <2>3. IsFiniteSet(Storing)
    BY QuotaAssumption, FS_Subset DEF Storing
  <2>. QED
    BY <2>2, <2>3, FS_Surjection
<1>2. IsFiniteSet(Reach) /\ IsFiniteSet(Listed)
  BY <1>1, FS_Union DEF IInv, Reach
<1>3. Listed \subseteq Blob /\ Listed \subseteq Reach /\ Reach \subseteq Blob
  BY DEF Listed, Reach, Storing, IInv, ShapeInv
<1>4. Cardinality(Client) - 1 \in Nat
  BY Finite DEF IInv
<1>. QED
  BY <1>2, <1>3, <1>4

\* A step after which no further blob is within reach, and that leaves every
\* length as it was, keeps the byte bound.
LEMMA BytesShrink ==
    ASSUME IInv, ByteInv, Reach' \subseteq Reach,
           \A big, w : Largest(big) /\ w \in [Blob -> 0..big] /\ Weighs(w) => Weighs(w)'
    PROVE  ByteInv'
<1>. SUFFICES ASSUME NEW big, Largest(big) PROVE BytesFor(big)'
  BY DEF ByteInv, Largest
<1>1. PICK w \in [Blob -> 0..big] : Weighs(w) /\ Within(w, big)
  BY DEF ByteInv, BytesFor
<1>2. big \in Nat
  BY QuotaAssumption DEF Largest
<1>3. Weighs(w)'
  BY <1>1
<1>4. IsFiniteSet(Reach) /\ Reach \subseteq Blob
  BY ReachFinite
<1>5. \A x \in Reach : w[x] \in Nat
  BY <1>1, <1>2, <1>4
<1>6. SumFunctionOnSet(w, Reach') <= SumFunctionOnSet(w, Reach)
  BY <1>4, <1>5, SumMono
<1>7. SumFunctionOnSet(w, Reach) \in Nat
  BY <1>4, <1>5, SumNat
<1>8. SumFunctionOnSet(w, Reach') \in Nat
  <2>1. IsFiniteSet(Reach') /\ \A x \in Reach' : w[x] \in Nat
    BY <1>4, <1>5, FS_Subset
  <2>. QED  BY <2>1, SumNat
<1>9. MaxBytes + (Cardinality(Client) - 1) * big \in Nat
  BY <1>2, ReachFinite, QuotaAssumption
<1>10. Within(w, big)'
  BY <1>1, <1>6, <1>7, <1>8, <1>9 DEF Within
<1>. QED
  BY <1>1, <1>3, <1>10 DEF BytesFor

\* Every step but the quota check leaves the lengths and the reach as they were.
LEMMA BytesOther ==
    ASSUME IInv, IInv', ByteInv, NEW c \in Client,
           \/ \E s \in Size : Arrive(c, s)
           \/ \E b \in Blob : NameGet(c, b)
           \/ Publish(c) \/ Fail(c) \/ NamePut(c)
    PROVE  ByteInv'
<1>0. /\ \A d \in Client \ {c} : put'[d] = put[d]
      /\ used' = used
  BY DEF Arrive, NameGet, Publish, Fail, NamePut, IInv, TypeOK
<1>1. CASE len' = len /\ put'[c].pc \in {"idle", "check"}
  <2>1. Storing' \subseteq Storing \ {c} /\ Listed' = Listed
    BY <1>0, <1>1 DEF Storing, Listed
  <2>2. Reach' \subseteq Reach
    BY <1>0, <2>1 DEF Reach, Storing
  <2>3. ASSUME NEW w, Weighs(w) PROVE Weighs(w)'
    BY <1>0, <1>1, <2>1, <2>3 DEF Weighs, Storing
  <2>. QED
    BY <2>2, <2>3, BytesShrink
<1>2. CASE \E b \in Blob : NameGet(c, b)
  <2>1. PICK b \in Blob : NameGet(c, b)
    BY <1>2
  <2>2. put'[c].blob = b /\ put'[c].size = len[b] /\ len' = len /\ b \in Listed
    BY <2>1 DEF NameGet, IInv, TypeOK, Listed
  <2>3. Storing' \subseteq Storing \cup {c} /\ Listed' = Listed
    BY <1>0, <2>2 DEF Storing, Listed
  <2>4. Reach' \subseteq Reach
    BY <1>0, <2>2, <2>3 DEF Reach, Storing
  <2>5. ASSUME NEW w, Weighs(w) PROVE Weighs(w)'
    BY <1>0, <2>2, <2>3, <2>5 DEF Weighs, Storing
  <2>. QED
    BY <2>4, <2>5, BytesShrink
<1>3. CASE Publish(c) \/ NamePut(c)
  <2>1. c \in Storing /\ put[c].blob \in Blob /\ put[c].size \in Size
        /\ put'[c].pc = "idle" /\ len' = [len EXCEPT ![put[c].blob] = put[c].size]
    BY <1>3 DEF Publish, NamePut, Storing, IInv, ShapeInv, TypeOK, Quiet
  <2>2. Storing' \subseteq Storing \ {c}
    BY <1>0, <2>1 DEF Storing
  <2>3. Listed' \subseteq Listed \cup {put[c].blob}
    BY <2>1 DEF Listed, IInv, TypeOK
  <2>4. Reach' \subseteq Reach
    BY <1>0, <2>1, <2>2, <2>3 DEF Reach, Storing
  <2>5. ASSUME NEW w, Weighs(w) PROVE Weighs(w)'
    <3>1. \A b \in Listed' : b \in used' /\ len'[b] = w[b]
      BY <1>0, <2>1, <2>3, <2>5 DEF Weighs, IInv, TypeOK, Listed
    <3>2. \A d \in Storing' : put'[d].blob \in used' /\ put'[d].size = w[put'[d].blob]
      BY <1>0, <2>2, <2>5 DEF Weighs, Storing
    <3>. QED  BY <3>1, <3>2 DEF Weighs
  <2>. QED
    BY <2>4, <2>5, BytesShrink
<1>4. CASE Fail(c) \/ \E s \in Size : Arrive(c, s)
  <2>1. len' = len /\ put'[c].pc \in {"idle", "check"}
    BY <1>4 DEF Fail, Arrive, Quiet, IInv, TypeOK
  <2>. QED
    BY <1>1, <2>1
<1>. QED
  BY <1>2, <1>3, <1>4

\* A delete gives bytes back.
LEMMA BytesDelete ==
    ASSUME IInv, IInv', ByteInv, NEW b \in Blob, Delete(b) PROVE ByteInv'
<1>1. /\ put' = put /\ used' = used /\ Listed' \subseteq Listed
      /\ \A x \in Listed' : len'[x] = len[x]
  BY DEF Delete, IInv, TypeOK, Listed
<1>2. Reach' \subseteq Reach
  BY <1>1 DEF Reach, Storing
<1>3. ASSUME NEW w, Weighs(w) PROVE Weighs(w)'
  BY <1>1, <1>3 DEF Weighs, Storing
<1>. QED
  BY <1>2, <1>3, BytesShrink

Image(R, h, D) == R = {h[d] : d \in D}

\* What the other requests hold is at most P - 1 uploads.
LEMMA OthersBounded ==
    ASSUME IInv, NEW c \in Client, NEW D, D \subseteq Client \ {c},
           NEW big \in Nat, NEW w \in [Blob -> 0..big],
           NEW h, NEW R \in SUBSET Blob, Image(R, h, D)
    PROVE  /\ IsFiniteSet(R)
           /\ SumFunctionOnSet(w, R) <= (Cardinality(Client) - 1) * big
           /\ (Cardinality(Client) - 1) * big \in Nat
<1>1. IsFiniteSet(Client) /\ IsFiniteSet(Client \ {c})
      /\ Cardinality(Client \ {c}) = Cardinality(Client) - 1
  BY QuotaAssumption, FS_RemoveElement
<1>2. IsFiniteSet(D) /\ Cardinality(D) <= Cardinality(Client) - 1
  BY <1>1, FS_Subset
<1>3. IsFiniteSet(R) /\ Cardinality(R) <= Cardinality(D)
  <2>1. PICK f : f = [d \in D |-> h[d]]
    OBVIOUS
  <2>2. f \in Surjection(D, R)
    BY <2>1 DEF Surjection, Image
  <2>. QED
    BY <1>2, <2>2, FS_Surjection
<1>4. Cardinality(R) \in Nat /\ Cardinality(D) \in Nat /\ Cardinality(Client) - 1 \in Nat
  BY <1>2, <1>3, FS_CardinalityType, ReachFinite
<1>5. \A x \in R : w[x] \in 0..big
  OBVIOUS
<1>6. SumFunctionOnSet(w, R) <= Cardinality(R) * big
  BY <1>3, <1>5, SumBound
<1>7. Cardinality(R) <= Cardinality(Client) - 1
  BY <1>2, <1>3, <1>4, QuotaAssumption, FS_CardinalityType
<1>8. /\ Cardinality(R) * big <= (Cardinality(Client) - 1) * big
      /\ Cardinality(R) * big \in Nat /\ (Cardinality(Client) - 1) * big \in Nat
  BY <1>4, <1>7, MulMono
<1>9. SumFunctionOnSet(w, R) \in Nat
  BY <1>3, <1>5, SumNat
<1>10. SumFunctionOnSet(w, R) <= (Cardinality(Client) - 1) * big
  BY <1>6, <1>8, <1>9
<1>. QED
  BY <1>3, <1>8, <1>10

\* The check: what it admits fits beside what is listed, and the other requests
\* hold at most P - 1 uploads.
LEMMA BytesCheck ==
    ASSUME MaxBytes < U64Max, IInv, IInv', ByteInv,
           NEW c \in Client, NEW b \in Blob, Check(c, b)
    PROVE  ByteInv'
<1>0. /\ \A d \in Client \ {c} : put'[d] = put[d]
      /\ len' = len /\ b \notin used /\ Listed' = Listed
  BY DEF Check, IInv, TypeOK, Listed
<1>1. CASE ~Admitted(put[c].size)
  <2>1. put'[c].pc = "idle" /\ used' = used
    BY <1>1 DEF Check, Quiet, IInv, TypeOK
  <2>2. Storing' \subseteq Storing \ {c}
    BY <1>0, <2>1 DEF Storing
  <2>3. Reach' \subseteq Reach
    BY <1>0, <2>2 DEF Reach, Storing
  <2>4. ASSUME NEW w, Weighs(w) PROVE Weighs(w)'
    BY <1>0, <2>1, <2>2, <2>4 DEF Weighs, Storing
  <2>. QED
    BY <2>3, <2>4, BytesShrink
<1>2. CASE Admitted(put[c].size)
  <2>. SUFFICES ASSUME NEW big, Largest(big) PROVE BytesFor(big)'
    BY DEF ByteInv, Largest
  <2>1. PICK w \in [Blob -> 0..big] : Weighs(w)
    BY DEF ByteInv, BytesFor
  <2>s. PICK size : size = put[c].size
    OBVIOUS
  <2>2. /\ put'[c].pc = "write" /\ put'[c].blob = b /\ put'[c].size = size
        /\ used' = used \cup {b} /\ size \in Size /\ put[c].pc = "check"
    BY <1>2, <2>s DEF Check, IInv, TypeOK, ShapeInv
  <2>3. big \in Nat /\ size \in 0..big /\ size \in Nat
    BY <2>2, QuotaAssumption DEF Largest
  <2>v. PICK v : v = [w EXCEPT ![b] = size]
    OBVIOUS
  <2>4. v \in [Blob -> 0..big] /\ v[b] = size /\ \A x \in Blob \ {b} : v[x] = w[x]
    BY <2>1, <2>3, <2>v
  <2>D. PICK D : D = Storing' \ {c}
    OBVIOUS
  <2>5. Storing' \subseteq Client /\ D \subseteq Storing /\ D \subseteq Client \ {c}
    BY <1>0, <2>D DEF Storing
  <2>6. b \notin Listed /\ \A d \in D : put[d].blob \in Blob \ {b}
    BY <1>0, <2>1, <2>5 DEF Weighs, Storing, IInv, ShapeInv
  <2>7. Weighs(v)'
    <3>1. \A x \in Listed' : x \in used' /\ len'[x] = v[x]
      BY <1>0, <2>1, <2>2, <2>4, <2>6, ReachFinite DEF Weighs
    <3>2. \A d \in D : put'[d].blob \in used' /\ put'[d].size = v[put'[d].blob]
      BY <1>0, <2>1, <2>2, <2>4, <2>5, <2>6 DEF Weighs
    <3>3. put'[c].blob \in used' /\ put'[c].size = v[put'[c].blob]
      BY <2>2, <2>4
    <3>. QED  BY <3>1, <3>2, <3>3, <2>D DEF Weighs
  <2>h. PICK h : h = [d \in Client |-> put[d].blob]
    OBVIOUS
  <2>R. PICK R : R = {h[d] : d \in D}
    OBVIOUS
  <2>8. Reach' \subseteq (Listed \cup {b}) \cup R /\ R \in SUBSET Blob
    BY <1>0, <2>2, <2>5, <2>6, <2>D, <2>h, <2>R DEF Reach
  <2>9. /\ IsFiniteSet(R)
        /\ SumFunctionOnSet(v, R) <= (Cardinality(Client) - 1) * big
        /\ (Cardinality(Client) - 1) * big \in Nat
    <3>1. big \in Nat /\ v \in [Blob -> 0..big]
      BY <2>3, <2>4
    <3>2. Image(R, h, D)
      BY <2>R DEF Image
    <3>. QED  BY <2>5, <2>8, <3>1, <3>2, OthersBounded
  <2>L. PICK L : L = Listed \cup {b}
    OBVIOUS
  <2>10. IsFiniteSet(L) /\ IsFiniteSet(Listed) /\ L \subseteq Blob /\ Listed \subseteq Blob
    BY <2>L, ReachFinite, FS_AddElement
  <2>11. /\ \A x \in L : v[x] \in Nat
         /\ \A x \in R : v[x] \in Nat
         /\ IsFiniteSet(R)
    BY <2>3, <2>4, <2>8, <2>9, <2>10, <2>R
  <2>12. SumFunctionOnSet(v, Listed) = Bytes
    <3>1. \A x \in Listed : v[x] = len[x]
      BY <2>1, <2>4, <2>6, <2>10 DEF Weighs
    <3>. QED  BY <2>10, <3>1, SumExt DEF Bytes
  <2>13. SumFunctionOnSet(v, L) = size + Bytes
    <3>1. L \ {b} = Listed /\ b \in L
      BY <2>6, <2>L
    <3>. QED  BY <2>4, <2>10, <2>11, <2>12, <3>1, SumTake DEF Takes
  <2>14. Bytes \in Nat
    <3>1. \A x \in Listed : v[x] \in Nat
      BY <2>L, <2>11
    <3>. QED  BY <2>10, <2>12, <3>1, SumNat
  <2>15. size + Bytes <= MaxBytes
    <3>1. SaturatingAdd(Bytes, size, U64Max) <= MaxBytes
      BY <1>2, <2>s DEF Admitted, Admits
    <3>. QED
      BY <2>3, <2>14, <3>1, QuotaAssumption DEF SaturatingAdd
  <2>16. SumFunctionOnSet(v, Reach') <= SumFunctionOnSet(v, L \cup R)
    <3>1. IsFiniteSet(L \cup R) /\ \A x \in L \cup R : v[x] \in Nat
      BY <2>10, <2>11, FS_Union
    <3>2. Reach' \subseteq L \cup R
      BY <2>8, <2>L
    <3>. QED  BY <3>1, <3>2, SumMono
  <2>17. SumFunctionOnSet(v, L \cup R) <= SumFunctionOnSet(v, L) + SumFunctionOnSet(v, R)
    BY <2>10, <2>11, SumUnion
  <2>18. /\ SumFunctionOnSet(v, L \cup R) \in Nat /\ SumFunctionOnSet(v, R) \in Nat
         /\ SumFunctionOnSet(v, Reach') \in Nat
    <3>1. IsFiniteSet(L \cup R) /\ \A x \in L \cup R : v[x] \in Nat
      BY <2>10, <2>11, FS_Union
    <3>2. IsFiniteSet(Reach') /\ \A x \in Reach' : v[x] \in Nat
      BY <3>1, <2>8, <2>L, <2>R, FS_Subset
    <3>. QED  BY <2>11, <3>1, <3>2, SumNat
  <2>19. SumFunctionOnSet(v, R) <= (Cardinality(Client) - 1) * big
    BY <2>9, <2>R
  <2>20. SumFunctionOnSet(v, Reach') <= MaxBytes + (Cardinality(Client) - 1) * big
    <3>1. ASSUME NEW x \in Nat, NEW y \in Nat, NEW z \in Nat, NEW e \in Nat, NEW f \in Nat,
                 NEW k \in Nat, x <= y, y <= e + z, e <= k, z <= f
          PROVE  x <= k + f
      BY <3>1
    <3>2. size + Bytes \in Nat /\ MaxBytes \in Nat
      BY <2>3, <2>14, QuotaAssumption
    <3>. QED  BY <2>9, <2>13, <2>15, <2>16, <2>17, <2>18, <2>19, <3>1, <3>2
  <2>. QED
    BY <2>4, <2>7, <2>20 DEF BytesFor, Within
<1>. QED
  BY <1>1, <1>2

\* The byte bound is an invariant. With max_bytes = u64::MAX saturating_add lets
\* everything through, so the quota is taken to be below it.
THEOREM ByteInvariance == MaxBytes < U64Max => (Spec => [](IInv /\ ByteInv))
<1>. SUFFICES ASSUME MaxBytes < U64Max PROVE Spec => [](IInv /\ ByteInv)
  OBVIOUS
<1>1. Init => ByteInv
  <2>. SUFFICES ASSUME Init, NEW big, Largest(big) PROVE BytesFor(big)
    BY DEF ByteInv
  <2>1. Listed = {} /\ Storing = {}
    BY DEF Init, Quiet, Listed, Storing
  <2>2. Reach = {}
    BY <2>1 DEF Reach
  <2>3. big \in Nat
    BY QuotaAssumption DEF Largest
  <2>4. PICK w : w = [b \in Blob |-> 0]
    OBVIOUS
  <2>5. w \in [Blob -> 0..big]
    BY <2>3, <2>4
  <2>6. Weighs(w)
    BY <2>1 DEF Weighs
  <2>7. 0 <= MaxBytes + (Cardinality(Client) - 1) * big
    <3>1. Cardinality(Client) - 1 \in Nat
      BY QuotaAssumption, FS_CardinalityType, FS_EmptySet
    <3>. QED  BY <2>3, <3>1, QuotaAssumption
  <2>8. Within(w, big)
    BY <2>2, <2>7, SumEmpty DEF Within
  <2>. QED
    BY <2>5, <2>6, <2>8 DEF BytesFor
<1>2. ByteInv /\ IInv /\ IInv' /\ [Next]_vars => ByteInv'
  <2>. SUFFICES ASSUME ByteInv, IInv, IInv', [Next]_vars PROVE ByteInv'
    OBVIOUS
  <2>1. CASE Next
    BY <2>1, BytesOther, BytesCheck, BytesDelete DEF Next
  <2>2. CASE UNCHANGED vars
    <3>1. Reach' = Reach /\ Listed' = Listed /\ Storing' = Storing
      BY <2>2 DEF vars, Reach, Listed, Storing
    <3>2. ASSUME NEW w, Weighs(w) PROVE Weighs(w)'
      BY <2>2, <3>1, <3>2 DEF vars, Weighs
    <3>. QED
      BY <3>1, <3>2, BytesShrink
  <2>. QED
    BY <2>1, <2>2
<1>. QED
  BY <1>1, <1>2, Invariance, PTL DEF Spec

\* PutBackup's check-then-act lets the bytes of a namespace grow beyond max_bytes
\* by at most one largest upload per further concurrent request, for every quota
\* below u64::MAX, every number of requests and any lengths.
THEOREM BytesOvershootIsBounded == MaxBytes < U64Max => (Spec => []ByteOvershoot)
<1>. SUFFICES ASSUME MaxBytes < U64Max PROVE Spec => []ByteOvershoot
  OBVIOUS
<1>1. IInv /\ ByteInv => ByteOvershoot
  <2>. SUFFICES ASSUME IInv, ByteInv, NEW big \in Size, \A s \in Size : s <= big
                PROVE  Bytes <= MaxBytes + (Cardinality(Client) - 1) * big
    BY DEF ByteOvershoot
  <2>1. PICK w \in [Blob -> 0..big] : Weighs(w) /\ Within(w, big)
    BY DEF ByteInv, BytesFor, Largest
  <2>2. big \in Nat
    BY QuotaAssumption
  <2>3. /\ IsFiniteSet(Reach) /\ IsFiniteSet(Listed) /\ Listed \subseteq Reach
        /\ Cardinality(Client) - 1 \in Nat
    BY ReachFinite
  <2>4. (\A x \in Reach : w[x] \in Nat) /\ \A x \in Listed : w[x] \in Nat /\ w[x] = len[x]
    BY <2>1, <2>2, ReachFinite DEF Weighs
  <2>5. Bytes = SumFunctionOnSet(w, Listed)
    BY <2>3, <2>4, SumExt DEF Bytes
  <2>6. SumFunctionOnSet(w, Listed) <= SumFunctionOnSet(w, Reach)
    BY <2>3, <2>4, SumMono
  <2>7. SumFunctionOnSet(w, Listed) \in Nat /\ SumFunctionOnSet(w, Reach) \in Nat
    BY <2>3, <2>4, SumNat
  <2>8. MaxBytes + (Cardinality(Client) - 1) * big \in Nat
    BY <2>2, <2>3, QuotaAssumption
  <2>. QED
    BY <2>1, <2>5, <2>6, <2>7, <2>8 DEF Within
<1>. QED
  BY <1>1, ByteInvariance, PTL
=============================================================================
