-------------------------- MODULE EdgeConstructProofs --------------------------
(***************************************************************************)
(* Edge construction puts every flow into exactly one edge, and the codes  *)
(* of aggregated edges are exact, for every flow vector, every number of   *)
(* threads and every pair of lines.                                        *)
(*                                                                         *)
(* The argument: the groups taken so far are disjoint from one another and *)
(* together are the fetched flows; and once a pass is over, no more than   *)
(* EDGE_AGG_LINE of the flows that remain share its key, so that a group   *)
(* of a later pass cannot agree on what an earlier pass aggregates by.     *)
(***************************************************************************)
EXTENDS EdgeConstruct, CommonProofs, FunctionTheorems

Phase == {"classify", "long", "emit", "done"} \cup Passes

DonePasses ==
  CASE phase \in {"classify", "long", "src_dst"} -> {}
    [] phase = "src" -> {"src_dst"}
    [] phase = "dst" -> {"src_dst", "src"}
    [] OTHER -> Passes

Earlier(pass) ==
  CASE pass = "src_dst" -> {}
    [] pass = "src" -> {"src_dst"}
    [] pass = "dst" -> {"src_dst", "src"}

SameKey(pass, g) == \A i, j \in g : Key(pass, i) = Key(pass, j)

GroupInv(pass, g) ==
  /\ g \subseteq shortFlows
  /\ Big(g)
  /\ SameKey(pass, g)
  /\ \A q \in Earlier(pass) : AtMost(q, g)

(* Which flows are long, and which thread has published which of them. *)
LongInv ==
  /\ flows \in FlowVectors /\ phase \in Phase /\ published \subseteq Cores
  /\ phase = "classify" => longFlows = {} /\ shortFlows = {} /\ published = {}
  /\ phase # "classify" => /\ longFlows = {i \in FlowIds : IsLong(i)}
                           /\ shortFlows = {i \in FlowIds : ~IsLong(i)}
  /\ longEdges = UNION {Share(c) : c \in published}
  /\ phase \notin {"classify", "long"} => published = Cores

GroupsInv ==
  /\ groups \in [Passes -> SUBSET SUBSET FlowIds]
  /\ fetched = UNION {UNION groups[p] : p \in Passes}
  /\ \A p \in Passes \ DonePasses : groups[p] = {}
  /\ \A p \in Passes : \A g \in groups[p] : GroupInv(p, g)
  /\ \A p, q \in Passes : \A g \in groups[p], h \in groups[q] :
       p # q \/ g # h => g \cap h = {}
  /\ \A p \in DonePasses : AtMost(p, Remaining)

EmitInv ==
  phase = "done" => shortEdges = (UNION {Aggregated(p) : p \in Passes}) \cup Alone

IInv == LongInv /\ GroupsInv /\ EmitInv

-------------------------------------------------------------------------------
(* Sums *)

(* The sum of F over S, and the equation of the fold that computes it.       *)
Total(F, S) == MapThenSumSet(LAMBDA x : F[x], S)

AnyOf(S) == CHOOSE x \in S : TRUE
AddOne(F, g, S) == IF S = {} THEN 0 ELSE F[AnyOf(S)] + g[S \ {AnyOf(S)}]
Adds(F, g, S) == g = [U \in SUBSET S |-> AddOne(F, g, U)]

(* A function with the equation of the fold exists: it is built for the      *)
(* subsets of k elements from the one for those of fewer.                    *)
LEMMA FoldExists ==
  ASSUME NEW F, NEW S, IsFiniteSet(S)
  PROVE  \E g : Adds(F, g, S)
<1> DEFINE Upto(g, k) == \A U \in SUBSET S : Cardinality(U) <= k => g[U] = AddOne(F, g, U)
           K == {k \in Nat : \E g : Upto(g, k)}
<1>1. \A U \in SUBSET S : IsFiniteSet(U) /\ Cardinality(U) \in Nat
  BY FS_Subset, FS_CardinalityType
<1>2. \A U \in SUBSET S : U # {} =>
        /\ AnyOf(U) \in U /\ U \ {AnyOf(U)} \in SUBSET S
        /\ Cardinality(U \ {AnyOf(U)}) = Cardinality(U) - 1
  BY <1>1, FS_RemoveElement DEF AnyOf
<1>3. 0 \in K
  <2> DEFINE g == [U \in SUBSET S |-> 0]
  <2>1. \A U \in SUBSET S : Cardinality(U) <= 0 => U = {}
    BY <1>1, FS_EmptySet
  <2>2. \A U \in SUBSET S : Cardinality(U) <= 0 => g[U] = AddOne(F, g, U)
    BY <2>1 DEF AddOne
  <2> HIDE DEF g
  <2> QED BY <2>2
<1>4. ASSUME NEW k \in K PROVE k + 1 \in K
  <2>1. PICK g : Upto(g, k)
    OBVIOUS
  <2> DEFINE h == [U \in SUBSET S |-> AddOne(F, g, U)]
  <2>2. ASSUME NEW U \in SUBSET S, Cardinality(U) <= k PROVE h[U] = g[U]
    BY <2>1, <2>2
  <2>3. ASSUME NEW U \in SUBSET S, Cardinality(U) <= k + 1, U # {}
        PROVE  h[U \ {AnyOf(U)}] = g[U \ {AnyOf(U)}]
    <3>1. Cardinality(U \ {AnyOf(U)}) <= k /\ U \ {AnyOf(U)} \in SUBSET S
      BY <1>1, <1>2, <2>3
    <3> HIDE DEF h
    <3> QED BY <2>2, <3>1
  <2>4. \A U \in SUBSET S : Cardinality(U) <= k + 1 => h[U] = AddOne(F, h, U)
    <3> SUFFICES ASSUME NEW U \in SUBSET S, Cardinality(U) <= k + 1
                 PROVE  AddOne(F, g, U) = AddOne(F, h, U)
      OBVIOUS
    <3> HIDE DEF h
    <3> QED BY <2>3 DEF AddOne
  <2> HIDE DEF h
  <2> QED BY <2>4
<1>5. K = Nat
  <2> HIDE DEF K
  <2>1. K \subseteq Nat
    BY DEF K
  <2> QED BY <1>3, <1>4, <2>1, SetOfNaturalsInduction
<1>6. Cardinality(S) \in K /\ \A U \in SUBSET S : Cardinality(U) <= Cardinality(S)
  BY <1>1, <1>5, FS_Subset
<1>7. PICK g : Upto(g, Cardinality(S))
  BY <1>6
<1> DEFINE h == [U \in SUBSET S |-> g[U]]
<1>8. \A U \in SUBSET S : g[U] = AddOne(F, g, U)
  BY <1>6, <1>7
<1>9. \A U \in SUBSET S : AddOne(F, g, U) = AddOne(F, h, U)
  BY <1>2 DEF AddOne
<1>10. Adds(F, h, S)
  <2>1. h = [U \in SUBSET S |-> AddOne(F, h, U)]
    <3> DEFINE d == [U \in SUBSET S |-> AddOne(F, h, U)]
    <3>1. \A U \in SUBSET S : h[U] = d[U]
      BY <1>8, <1>9
    <3>2. DOMAIN h = SUBSET S /\ DOMAIN d = SUBSET S
      OBVIOUS
    <3>3. h = [U \in DOMAIN h |-> h[U]] /\ d = [U \in DOMAIN d |-> d[U]]
      OBVIOUS
    <3> HIDE DEF h, d
    <3>4. h = d
      BY <3>1, <3>2, <3>3
    <3> QED BY <3>4 DEF d
  <2> QED BY <2>1 DEF Adds
<1> QED BY <1>10

(* It is unique. *)
LEMMA FoldUnique ==
  ASSUME NEW F, NEW S, IsFiniteSet(S), NEW T \in SUBSET S,
         NEW g, NEW h, Adds(F, g, S), Adds(F, h, T)
  PROVE  g[T] = h[T]
<1> DEFINE B == {U \in SUBSET T : g[U] # h[U]}
<1> SUFFICES ASSUME B # {} PROVE FALSE
  OBVIOUS
<1>1. PICK U \in B : \A V \in B : V \subseteq U => V = U
  <2>1. B \subseteq SUBSET T /\ IsFiniteSet(T)
    BY FS_Subset
  <2> HIDE DEF B
  <2> QED BY <2>1, MinimalSubset
<1>2. g[U] = AddOne(F, g, U) /\ h[U] = AddOne(F, h, U)
  <2>1. U \in SUBSET S /\ U \in SUBSET T
    BY <1>1
  <2> QED BY <2>1 DEF Adds
<1>3. U # {} /\ AnyOf(U) \in U
  BY <1>1, <1>2 DEF AddOne, AnyOf
<1>4. g[U \ {AnyOf(U)}] = h[U \ {AnyOf(U)}]
  BY <1>1, <1>3
<1> QED BY <1>1, <1>2, <1>4 DEF AddOne

LEMMA TotalIsFold ==
  ASSUME NEW F, NEW S, IsFiniteSet(S)
  PROVE  \E g : Adds(F, g, S) /\ Total(F, S) = g[S]
<1>1. Adds(F, CHOOSE g : Adds(F, g, S), S)
  BY FoldExists, Zenon
<1>2. Total(F, S) = (CHOOSE g : Adds(F, g, S))[S]
  BY Zenon DEF Total, MapThenSumSet, MapThenFoldSet, Adds, AddOne, AnyOf
<1> QED BY <1>1, <1>2, Zenon

LEMMA TotalAddsOne ==
  ASSUME NEW F, NEW S, IsFiniteSet(S)
  PROVE  /\ S = {} => Total(F, S) = 0
         /\ S # {} => AnyOf(S) \in S /\ Total(F, S) = F[AnyOf(S)] + Total(F, S \ {AnyOf(S)})
<1>1. PICK g : Adds(F, g, S) /\ Total(F, S) = g[S]
  BY TotalIsFold
<1>2. Total(F, S) = AddOne(F, g, S)
  BY <1>1 DEF Adds
<1>3. ASSUME S # {} PROVE AnyOf(S) \in S /\ g[S \ {AnyOf(S)}] = Total(F, S \ {AnyOf(S)})
  <2>1. AnyOf(S) \in S
    BY <1>3 DEF AnyOf
  <2>2. IsFiniteSet(S \ {AnyOf(S)}) /\ S \ {AnyOf(S)} \in SUBSET S
    BY FS_RemoveElement
  <2>3. PICK h : Adds(F, h, S \ {AnyOf(S)}) /\ Total(F, S \ {AnyOf(S)}) = h[S \ {AnyOf(S)}]
    BY <2>2, TotalIsFold
  <2> QED BY <1>1, <2>1, <2>2, <2>3, FoldUnique
<1> QED BY <1>2, <1>3 DEF AddOne

(* A sum of naturals is one. *)
LEMMA TotalType ==
  ASSUME NEW F, NEW S, IsFiniteSet(S), \A x \in S : F[x] \in Nat
  PROVE  Total(F, S) \in Nat
<1> DEFINE B == {U \in SUBSET S : Total(F, U) \notin Nat}
<1> SUFFICES ASSUME B # {} PROVE FALSE
  OBVIOUS
<1>1. PICK U \in B : \A V \in B : V \subseteq U => V = U
  <2>1. B \subseteq SUBSET S
    OBVIOUS
  <2> HIDE DEF B
  <2> QED BY <2>1, MinimalSubset
<1>2. IsFiniteSet(U)
  BY <1>1, FS_Subset
<1>3. U # {}
  <2>1. Total(F, {}) = 0
    BY FS_EmptySet, TotalAddsOne
  <2>2. Total(F, U) \notin Nat
    BY <1>1
  <2> QED BY <2>1, <2>2
<1>4. AnyOf(U) \in U /\ Total(F, U) = F[AnyOf(U)] + Total(F, U \ {AnyOf(U)})
  BY <1>2, <1>3, TotalAddsOne
<1>5. Total(F, U \ {AnyOf(U)}) \in Nat /\ F[AnyOf(U)] \in Nat
  BY <1>1, <1>4
<1> QED BY <1>1, <1>4, <1>5

(* Any element may be taken out of a sum, not only the first. *)
LEMMA TotalTakesOut ==
  ASSUME NEW F, NEW S, IsFiniteSet(S), \A x \in S : F[x] \in Nat, NEW z \in S
  PROVE  Total(F, S) = F[z] + Total(F, S \ {z})
<1> DEFINE B == {U \in SUBSET S : \E x \in U : Total(F, U) # F[x] + Total(F, U \ {x})}
<1> SUFFICES ASSUME B # {} PROVE FALSE
  OBVIOUS
<1>1. PICK U \in B : \A V \in B : V \subseteq U => V = U
  <2>1. B \subseteq SUBSET S
    OBVIOUS
  <2> HIDE DEF B
  <2> QED BY <2>1, MinimalSubset
<1>2. PICK x \in U : Total(F, U) # F[x] + Total(F, U \ {x})
  OBVIOUS
<1>3. IsFiniteSet(U) /\ IsFiniteSet(U \ {x})
  BY <1>1, FS_Subset
<1> DEFINE y == AnyOf(U)
<1>4. y \in U /\ Total(F, U) = F[y] + Total(F, U \ {y})
  BY <1>2, <1>3, TotalAddsOne
<1> HIDE DEF y
<1>5. y # x
  BY <1>2, <1>4
<1>6. U \ {y} \notin B /\ U \ {x} \notin B /\ U \ {y} \in SUBSET S /\ U \ {x} \in SUBSET S
  BY <1>1, <1>2, <1>4
<1>7. Total(F, U \ {y}) = F[x] + Total(F, (U \ {y}) \ {x})
  BY <1>2, <1>5, <1>6
<1>8. Total(F, U \ {x}) = F[y] + Total(F, (U \ {x}) \ {y})
  BY <1>4, <1>5, <1>6
<1>9. (U \ {x}) \ {y} = (U \ {y}) \ {x}
  OBVIOUS
<1>10. Total(F, (U \ {y}) \ {x}) \in Nat
  <2>1. IsFiniteSet((U \ {y}) \ {x}) /\ \A v \in (U \ {y}) \ {x} : F[v] \in Nat
    BY <1>1, FS_Subset
  <2> QED BY <2>1, TotalType
<1>11. F[x] \in Nat /\ F[y] \in Nat
  BY <1>1, <1>2, <1>4
<1> QED BY <1>2, <1>4, <1>7, <1>8, <1>9, <1>10, <1>11

(* Sums over disjoint sets add up. *)
LEMMA TotalUnion ==
  ASSUME NEW F, NEW S, NEW T, IsFiniteSet(S), IsFiniteSet(T), S \cap T = {},
         \A x \in S \cup T : F[x] \in Nat
  PROVE  Total(F, S \cup T) = Total(F, S) + Total(F, T)
<1> DEFINE A == {U \in SUBSET T : Total(F, S \cup U) = Total(F, S) + Total(F, U)}
<1>1. ASSUME NEW U \in SUBSET T
      PROVE  /\ IsFiniteSet(U) /\ IsFiniteSet(S \cup U)
             /\ Total(F, U) \in Nat /\ Total(F, S \cup U) \in Nat /\ Total(F, S) \in Nat
  <2>1. IsFiniteSet(U) /\ IsFiniteSet(S \cup U)
    BY FS_Subset, FS_Union
  <2> QED BY <2>1, TotalType
<1>2. {} \in A
  <2>1. Total(F, {}) = 0 /\ S \cup {} = S
    BY TotalAddsOne, FS_EmptySet
  <2>2. Total(F, S \cup {}) = Total(F, S) + Total(F, {})
    BY <1>1, <2>1
  <2> QED BY <2>2
<1>3. ASSUME NEW U \in SUBSET T, NEW x \in T \ U, U \in A PROVE U \cup {x} \in A
  <2>1. U \cup {x} \in SUBSET T /\ (U \cup {x}) \ {x} = U /\ (S \cup (U \cup {x})) \ {x} = S \cup U
    OBVIOUS
  <2>2. Total(F, U \cup {x}) = F[x] + Total(F, U)
    <3>1. IsFiniteSet(U \cup {x}) /\ x \in U \cup {x} /\ \A v \in U \cup {x} : F[v] \in Nat
      BY <1>1, <2>1
    <3> QED BY <2>1, <3>1, TotalTakesOut
  <2>3. Total(F, S \cup (U \cup {x})) = F[x] + Total(F, S \cup U)
    <3>1. IsFiniteSet(S \cup (U \cup {x})) /\ x \in S \cup (U \cup {x})
          /\ \A v \in S \cup (U \cup {x}) : F[v] \in Nat
      BY <1>1, <2>1
    <3> QED BY <2>1, <3>1, TotalTakesOut
  <2>4. Total(F, S \cup U) = Total(F, S) + Total(F, U) /\ F[x] \in Nat
    BY <1>3
  <2>5. Total(F, S \cup (U \cup {x})) = Total(F, S) + Total(F, U \cup {x})
    BY <1>1, <2>2, <2>3, <2>4
  <2> QED BY <2>1, <2>5
<1>4. T \in A
  <2> HIDE DEF A
  <2> QED BY <1>2, <1>3, FamilyInduction
<1> QED BY <1>4

(* A sum may be taken group by group, of disjoint groups A[e]. *)
LEMMA TotalByGroups ==
  ASSUME NEW F, NEW E, IsFiniteSet(E), NEW A,
         \A e \in E : IsFiniteSet(A[e]) /\ \A x \in A[e] : F[x] \in Nat,
         \A e, d \in E : e # d => A[e] \cap A[d] = {}
  PROVE  Total([e \in E |-> Total(F, A[e])], E) = Total(F, UNION {A[e] : e \in E})
<1> DEFINE G == [e \in E |-> Total(F, A[e])]
           Whole(U) == UNION {A[e] : e \in U}
           C == {U \in SUBSET E : IsFiniteSet(Whole(U)) /\ Total(G, U) = Total(F, Whole(U))}
<1>1. \A e \in E : G[e] = Total(F, A[e]) /\ G[e] \in Nat
  BY TotalType
<1> HIDE DEF G
<1>2. {} \in C
  <2>1. Whole({}) = {}
    OBVIOUS
  <2> QED BY <2>1, TotalAddsOne, FS_EmptySet
<1>3. ASSUME NEW U \in SUBSET E, NEW e \in E \ U, U \in C PROVE U \cup {e} \in C
  <2>1. Whole(U \cup {e}) = Whole(U) \cup A[e]
    OBVIOUS
  <2>2. Whole(U) \cap A[e] = {}
    OBVIOUS
  <2>3. \A x \in Whole(U) \cup A[e] : F[x] \in Nat
    OBVIOUS
  <2>4. IsFiniteSet(Whole(U)) /\ Total(G, U) = Total(F, Whole(U))
    BY <1>3
  <2> HIDE DEF Whole
  <2>5. IsFiniteSet(Whole(U)) /\ IsFiniteSet(A[e]) /\ IsFiniteSet(Whole(U) \cup A[e])
    BY <2>4, FS_Union
  <2>6. Total(F, Whole(U) \cup A[e]) = Total(F, Whole(U)) + Total(F, A[e])
    BY <2>2, <2>3, <2>5, TotalUnion
  <2>7. Total(G, U \cup {e}) = G[e] + Total(G, U)
    <3>1. IsFiniteSet(U \cup {e}) /\ e \in U \cup {e} /\ (U \cup {e}) \ {e} = U
          /\ \A d \in U \cup {e} : G[d] \in Nat
      BY <1>1, FS_Subset
    <3> QED BY <3>1, TotalTakesOut
  <2>8. Total(G, U) = Total(F, Whole(U)) /\ Total(F, Whole(U)) \in Nat /\ G[e] = Total(F, A[e]) /\ G[e] \in Nat
    BY <1>1, <2>3, <2>5, <2>4, TotalType
  <2>9. Total(G, U \cup {e}) = Total(F, Whole(U) \cup A[e])
    BY <2>6, <2>7, <2>8
  <2>10. Total(G, U \cup {e}) = Total(F, Whole(U \cup {e})) /\ IsFiniteSet(Whole(U \cup {e}))
    BY <2>1, <2>5, <2>9
  <2> QED BY <2>10
<1>4. E \in C
  <2> HIDE DEF C
  <2> QED BY <1>2, <1>3, FamilyInduction
<1> QED BY <1>4 DEF G

-------------------------------------------------------------------------------
(* Finite sets of flows *)

LEMMA FlowIdsFinite ==
  ASSUME flows \in FlowVectors
  PROVE  FlowIds \subseteq Nat /\ IsFiniteSet(FlowIds)
<1>1. flows \in Seq(Flow)
  BY FlowAssumption
<1>2. Len(flows) \in Nat /\ FlowIds = 1 .. Len(flows)
  BY <1>1 DEF FlowIds
<1>3. IsFiniteSet(1 .. Len(flows))
  BY <1>2, FS_Interval
<1> QED BY <1>2, <1>3

LEMMA SubsetFinite ==
  ASSUME flows \in FlowVectors, NEW S, S \subseteq FlowIds, NEW T, T \subseteq S
  PROVE  /\ IsFiniteSet(S) /\ IsFiniteSet(T)
         /\ Cardinality(S) \in Nat /\ Cardinality(T) \in Nat
         /\ Cardinality(T) <= Cardinality(S)
         /\ Cardinality(T) = Cardinality(S) => T = S
<1>1. IsFiniteSet(S)
  BY FlowIdsFinite, FS_Subset
<1>2. IsFiniteSet(T) /\ Cardinality(T) <= Cardinality(S) /\ (Cardinality(T) = Cardinality(S) => T = S)
  BY <1>1, FS_Subset
<1> QED BY <1>1, <1>2, FS_CardinalityType

(* Fewer flows share a key in a part of a set than in the set. *)
LEMMA AtMostOfSubset ==
  ASSUME flows \in FlowVectors, NEW S, S \subseteq FlowIds, NEW T, T \subseteq S,
         NEW p, AtMost(p, S)
  PROVE  AtMost(p, T)
<1> SUFFICES ASSUME NEW i \in T
             PROVE  Cardinality({j \in T : Key(p, j) = Key(p, i)}) <= EDGE_AGG_LINE
  BY DEF AtMost
<1> DEFINE A == {j \in T : Key(p, j) = Key(p, i)}
           B == {j \in S : Key(p, j) = Key(p, i)}
<1>1. Cardinality(B) <= EDGE_AGG_LINE
  BY DEF AtMost
<1>2. A \subseteq B /\ B \subseteq FlowIds
  OBVIOUS
<1> HIDE DEF A, B
<1>3. Cardinality(A) <= Cardinality(B) /\ Cardinality(A) \in Nat /\ Cardinality(B) \in Nat
  BY <1>2, SubsetFinite
<1>4. Cardinality(A) <= EDGE_AGG_LINE
  BY <1>1, <1>3, LineAssumption
<1> QED BY <1>4 DEF A

(* A big group does not agree on a key that few of its flows share. *)
LEMMA BigDiffers ==
  ASSUME flows \in FlowVectors, NEW g, g \subseteq FlowIds, Big(g), NEW p, AtMost(p, g)
  PROVE  \E i, j \in g : Key(p, i) # Key(p, j)
<1>1. Cardinality(g) \in Nat /\ Cardinality(g) > EDGE_AGG_LINE
  BY SubsetFinite DEF Big
<1>2. PICK i \in g : TRUE
  <2>1. g # {}
    BY <1>1, FS_EmptySet, LineAssumption
  <2> QED BY <2>1
<1>3. {j \in g : Key(p, j) = Key(p, i)} # g
  BY <1>1, LineAssumption DEF AtMost
<1> QED BY <1>3

-------------------------------------------------------------------------------
(* Long edges *)

(* The threads' shares are together the long flows. *)
LEMMA SharesCover ==
  ASSUME flows \in FlowVectors, longFlows \subseteq FlowIds
  PROVE  (UNION {Share(c) : c \in Cores}) = longFlows
<1>1. ASSUME NEW i \in longFlows
      PROVE  \E c \in Cores : i \in Share(c)
  <2> DEFINE before == {j \in longFlows : j < i}
  <2>1. before \subseteq longFlows /\ i \in longFlows \ before
    BY FlowIdsFinite
  <2>2. /\ Cardinality(before) \in Nat /\ Cardinality(longFlows) \in Nat
        /\ Cardinality(before) < Cardinality(longFlows)
    BY <2>1, SubsetFinite
  <2>3. Place(i) \in 0 .. Cardinality(longFlows) - 1
    BY <2>2 DEF Place
  <2>4. \E c \in 0 .. Multiplex - 1 : Place(i) \in Slice(Cardinality(longFlows), Multiplex, c)
    BY <2>2, <2>3, SlicesCover, EdgeMultiplexAssumption
  <2> QED BY <2>4 DEF Share, Cores
<1> QED BY <1>1 DEF Share

-------------------------------------------------------------------------------
(* The invariant is inductive *)

LEMMA InitInv == Init => IInv
<1> SUFFICES ASSUME Init PROVE IInv
  OBVIOUS
<1>1. LongInv
  BY DEF Init, LongInv, Phase
<1>2. DonePasses = {}
  BY DEF Init, DonePasses
<1>3. \A p \in Passes : groups[p] = {}
  BY DEF Init
<1>4. GroupsInv
  BY <1>2, <1>3 DEF Init, GroupsInv
<1> QED BY <1>1, <1>4 DEF Init, IInv, EmitInv

(* What depends on the flows only. *)
LEMMA FlowsFixed ==
  ASSUME UNCHANGED flows
  PROVE  /\ FlowIds' = FlowIds
         /\ \A p, i : Key(p, i)' = Key(p, i)
         /\ \A i : IsLong(i)' = IsLong(i)
         /\ \A p, S : AtMost(p, S)' <=> AtMost(p, S)
         /\ \A p, S : SameKey(p, S)' <=> SameKey(p, S)
<1>1. \A p, i : Key(p, i)' = Key(p, i)
  BY DEF Key
<1>2. \A p, S : AtMost(p, S)' <=> AtMost(p, S)
  BY <1>1 DEF AtMost
<1>3. \A p, S : SameKey(p, S)' <=> SameKey(p, S)
  BY <1>1 DEF SameKey
<1> QED BY <1>1, <1>2, <1>3 DEF FlowIds, IsLong

(* Steps that leave the short flows and the groups alone. *)
LEMMA GroupsFrame ==
  ASSUME GroupsInv, UNCHANGED <<flows, shortFlows, fetched, groups>>, DonePasses' = DonePasses
  PROVE  GroupsInv'
<1>1. \A p, g : GroupInv(p, g)' <=> GroupInv(p, g)
  BY FlowsFixed DEF GroupInv, Big, Earlier
<1>2. Remaining' = Remaining
  BY DEF Remaining
<1> QED BY <1>1, <1>2, FlowsFixed DEF GroupsInv

LEMMA ClassifyInv == IInv /\ Classify => IInv'
<1> SUFFICES ASSUME IInv, Classify PROVE IInv'
  OBVIOUS
<1> USE DEF IInv
<1>1. LongInv'
  <2>1. published' = {} /\ longEdges' = {}
    BY DEF LongInv, Classify, longVars
  <2> QED BY <2>1, FlowsFixed DEF LongInv, Classify, Phase
<1>2. DonePasses = {} /\ DonePasses' = {}
  BY DEF DonePasses, Classify
<1>3. \A p \in Passes : groups'[p] = {}
  BY <1>2 DEF GroupsInv, Classify, shortVars
<1>4. GroupsInv'
  BY <1>2, <1>3, FlowsFixed DEF GroupsInv, Classify, shortVars
<1>5. EmitInv'
  BY DEF EmitInv, Classify
<1> QED BY <1>1, <1>4, <1>5

LEMMA LongWorkerInv == ASSUME NEW c \in Cores, IInv, LongWorker(c) PROVE IInv'
<1> USE DEF IInv
<1>1. \A d : Share(d)' = Share(d)
  BY DEF LongWorker, Share, Place, Slice
<1>2. LongInv'
  <2>1. longEdges' = UNION {Share(d) : d \in published'}
    BY DEF LongInv, LongWorker
  <2> QED BY <1>1, <2>1, FlowsFixed DEF LongInv, LongWorker
<1>3. GroupsInv'
  BY GroupsFrame DEF LongWorker, shortVars, DonePasses
<1> QED BY <1>2, <1>3 DEF EmitInv, LongWorker

LEMMA JoinLongInv == IInv /\ JoinLong => IInv'
<1> SUFFICES ASSUME IInv, JoinLong PROVE IInv'
  OBVIOUS
<1> USE DEF IInv
<1>1. \A d : Share(d)' = Share(d)
  BY DEF JoinLong, Share, Place, Slice
<1>2. LongInv'
  BY <1>1, FlowsFixed DEF LongInv, JoinLong, longVars, Phase, Passes
<1>3. DonePasses' = DonePasses
  BY DEF JoinLong, DonePasses
<1>4. GroupsInv'
  BY <1>3, GroupsFrame DEF JoinLong, shortVars
<1> QED BY <1>2, <1>4 DEF EmitInv, JoinLong

LEMMA AggregateInv == ASSUME NEW pass \in Passes, IInv, Aggregate(pass) PROVE IInv'
<1> USE DEF IInv
<1> DEFINE big == {g \in Select(pass) : Big(g)}
<1>1. /\ phase = pass /\ phase' = After[pass]
      /\ groups' = [groups EXCEPT ![pass] = big]
      /\ fetched' = fetched \cup UNION big
      /\ UNCHANGED <<flows, longFlows, shortFlows, longVars>>
  BY DEF Aggregate
<1>2. flows \in FlowVectors /\ shortFlows \subseteq FlowIds /\ Remaining \subseteq FlowIds
  BY <1>1 DEF LongInv, Remaining, Passes
<1>3. DonePasses = Earlier(pass) /\ DonePasses' = Earlier(pass) \cup {pass} /\ pass \notin DonePasses
  BY <1>1 DEF DonePasses, Earlier, Passes, After
<1>4. LongInv'
  <2>1. \A d : Share(d)' = Share(d)
    BY <1>1 DEF Share, Place, Slice
  <2>2. phase' \in Phase \ {"classify", "long"}
    BY <1>1 DEF Passes, After, Phase
  <2> QED BY <1>1, <2>1, <2>2, FlowsFixed DEF LongInv, longVars, Passes
<1>5. \A g \in big : g \subseteq Remaining /\ SameKey(pass, g)
  BY DEF Select, SameKey
<1>6. /\ groups'[pass] = big
      /\ \A p \in Passes \ {pass} : groups'[p] = groups[p]
      /\ groups' \in [Passes -> SUBSET SUBSET FlowIds]
  BY <1>1, <1>2, <1>5 DEF GroupsInv
<1>7. groups[pass] = {}
  BY <1>3 DEF GroupsInv
<1>8. fetched' = UNION {UNION groups'[p] : p \in Passes}
  BY <1>1, <1>6, <1>7 DEF GroupsInv
<1>9. \A p \in Passes \ DonePasses' : groups'[p] = {}
  BY <1>3, <1>6 DEF GroupsInv
<1>10. \A p \in Passes : \A g \in groups'[p] : GroupInv(p, g)'
  <2>1. \A p, g : GroupInv(p, g)' <=> GroupInv(p, g)
    BY <1>1, FlowsFixed DEF GroupInv, Big, Earlier
  <2>2. ASSUME NEW g \in big PROVE GroupInv(pass, g)
    <3>1. \A q \in Earlier(pass) : AtMost(q, g)
      BY <1>2, <1>3, <1>5, AtMostOfSubset DEF GroupsInv
    <3> QED BY <1>5, <3>1 DEF GroupInv, Remaining
  <2> QED BY <1>6, <2>1, <2>2 DEF GroupsInv
<1>11. \A p, q \in Passes : \A g \in groups'[p], h \in groups'[q] :
          p # q \/ g # h => g \cap h = {}
  <2>1. \A g, h \in big : g # h => g \cap h = {}
    BY DEF Select
  <2>2. \A g \in big : \A q \in Passes : \A h \in groups[q] : g \cap h = {}
    BY <1>5 DEF GroupsInv, Remaining
  <2> QED BY <1>6, <2>1, <2>2 DEF GroupsInv
<1>12. \A p \in DonePasses' : AtMost(p, Remaining)'
  <2>1. Remaining' = Remaining \ UNION big
    BY <1>1 DEF Remaining
  <2>2. \A p \in Earlier(pass) : AtMost(p, Remaining')
    BY <1>2, <1>3, <2>1, AtMostOfSubset DEF GroupsInv
  <2>3. AtMost(pass, Remaining')
    <3> SUFFICES ASSUME NEW i \in Remaining'
                 PROVE  Cardinality({j \in Remaining' : Key(pass, j) = Key(pass, i)}) <= EDGE_AGG_LINE
      BY DEF AtMost
    <3> DEFINE A == {j \in Remaining' : Key(pass, j) = Key(pass, i)}
               B == {j \in Remaining : Key(pass, j) = Key(pass, i)}
    <3>1. A \subseteq B /\ B \subseteq FlowIds /\ B \in Select(pass) /\ i \in B
      BY <1>2, <2>1 DEF Select
    <3>2. ~Big(B)
      BY <2>1, <3>1
    <3> HIDE DEF A, B, big
    <3>3. /\ Cardinality(A) <= Cardinality(B) /\ Cardinality(A) \in Nat /\ Cardinality(B) \in Nat
          /\ ~(Cardinality(B) > EDGE_AGG_LINE)
      BY <1>2, <3>1, <3>2, SubsetFinite DEF Big
    <3>4. Cardinality(A) <= EDGE_AGG_LINE
      BY <3>3, LineAssumption
    <3> QED BY <3>4 DEF A
  <2> QED BY <1>1, <1>3, <2>2, <2>3, FlowsFixed DEF AtMost
<1>13. GroupsInv'
  <2> HIDE DEF big
  <2> QED BY <1>1, <1>6, <1>8, <1>9, <1>10, <1>11, <1>12, FlowsFixed DEF GroupsInv
<1>14. EmitInv'
  BY <1>1 DEF EmitInv, After, Passes
<1> QED BY <1>4, <1>13, <1>14

LEMMA EmitStepInv == IInv /\ Emit => IInv'
<1> SUFFICES ASSUME IInv, Emit PROVE IInv'
  OBVIOUS
<1> USE DEF IInv
<1>1. /\ phase = "emit" /\ phase' = "done"
      /\ shortEdges' = (UNION {Aggregated(p) : p \in Passes}) \cup Alone
      /\ UNCHANGED <<flows, longFlows, shortFlows, longVars, fetched, groups>>
  BY DEF Emit
<1>2. \A d : Share(d)' = Share(d)
  BY <1>1 DEF Share, Place, Slice
<1>3. LongInv'
  BY <1>1, <1>2, FlowsFixed DEF LongInv, longVars, Phase
<1>4. DonePasses' = DonePasses
  BY <1>1 DEF DonePasses, Passes
<1>5. GroupsInv'
  BY <1>1, <1>4, GroupsFrame
<1>6. Alone' = Alone /\ \A p : Aggregated(p)' = Aggregated(p)
  BY <1>1 DEF Alone, Remaining, Aggregated, PortBits
<1> QED BY <1>1, <1>3, <1>5, <1>6 DEF EmitInv

LEMMA StutterInv == IInv /\ UNCHANGED vars => IInv'
<1> SUFFICES ASSUME IInv, UNCHANGED vars PROVE IInv'
  OBVIOUS
<1> USE DEF IInv, vars
<1>1. LongInv'
  <2>1. \A d : Share(d)' = Share(d)
    BY DEF Share, Place, Slice
  <2> QED BY <2>1, FlowsFixed DEF LongInv, longVars
<1>2. GroupsInv'
  BY GroupsFrame DEF DonePasses, shortVars
<1>3. Alone' = Alone /\ \A p : Aggregated(p)' = Aggregated(p)
  BY DEF Alone, Remaining, Aggregated, PortBits, shortVars
<1> QED BY <1>1, <1>2, <1>3 DEF EmitInv, shortVars

LEMMA StepInv == IInv /\ [Next]_vars => IInv'
<1> SUFFICES ASSUME IInv, [Next]_vars PROVE IInv'
  OBVIOUS
<1>1. CASE Classify
  BY <1>1, ClassifyInv
<1>2. ASSUME NEW c \in Cores, LongWorker(c) PROVE IInv'
  BY <1>2, LongWorkerInv
<1>3. CASE JoinLong
  BY <1>3, JoinLongInv
<1>4. ASSUME NEW pass \in Passes, Aggregate(pass) PROVE IInv'
  BY <1>4, AggregateInv
<1>5. CASE Emit
  BY <1>5, EmitStepInv
<1>6. CASE UNCHANGED vars
  BY <1>6, StutterInv
<1> QED BY <1>1, <1>2, <1>3, <1>4, <1>5, <1>6 DEF Next, Finished

LEMMA Invariance == Spec => []IInv
<1> QED BY InitInv, StepInv, PTL DEF Spec

-------------------------------------------------------------------------------
(* What the invariant says of the finished edges *)

(* The edges of a finished construction. *)
LEMMA FinishedEdges ==
  ASSUME IInv, phase = "done"
  PROVE  /\ flows \in FlowVectors /\ shortFlows \subseteq FlowIds
         /\ longEdges = {i \in FlowIds : IsLong(i)}
         /\ shortFlows = {i \in FlowIds : ~IsLong(i)}
         /\ Remaining \subseteq shortFlows
         /\ \A p \in Passes : \A g \in groups[p] : GroupInv(p, g)
         /\ \A p \in Passes : AtMost(p, Remaining)
         /\ \A e \in shortEdges :
              \/ \E p \in Passes : \E g \in groups[p] :
                   e = [flows |-> g, agg |-> PassBits[p] \cup PortBits(g)]
              \/ \E i \in Remaining : e = [flows |-> {i}, agg |-> {"NO_AGG"}]
<1> USE DEF IInv
<1>1. longEdges = {i \in FlowIds : IsLong(i)}
  BY SharesCover DEF LongInv
<1>2. DonePasses = Passes
  BY DEF DonePasses
<1>3. /\ flows \in FlowVectors /\ shortFlows = {i \in FlowIds : ~IsLong(i)}
      /\ Remaining \subseteq shortFlows
  BY DEF LongInv, Remaining
<1>4. /\ \A p \in Passes : \A g \in groups[p] : GroupInv(p, g)
      /\ \A p \in Passes : AtMost(p, Remaining)
  BY <1>2 DEF GroupsInv
<1>5. ASSUME NEW e \in shortEdges
      PROVE  \/ \E p \in Passes : \E g \in groups[p] :
                  e = [flows |-> g, agg |-> PassBits[p] \cup PortBits(g)]
             \/ \E i \in Remaining : e = [flows |-> {i}, agg |-> {"NO_AGG"}]
  <2>1. (\E p \in Passes : e \in Aggregated(p)) \/ e \in Alone
    BY <1>5 DEF EmitInv
  <2> QED BY <2>1 DEF Aggregated, Alone
<1> QED BY <1>1, <1>3, <1>4, <1>5

LEMMA InvEveryFlowOnce == IInv => EveryFlowOnce
<1> SUFFICES ASSUME IInv, phase = "done", NEW i \in FlowIds
             PROVE  /\ i \in longEdges \/ \E e \in shortEdges : i \in e.flows
                    /\ ~(i \in longEdges /\ \E e \in shortEdges : i \in e.flows)
                    /\ \A e, d \in shortEdges : i \in e.flows /\ i \in d.flows => e = d
  BY DEF EveryFlowOnce
<1>1. \A e \in shortEdges : e.flows \subseteq shortFlows
  BY FinishedEdges DEF GroupInv
<1>2. ~(i \in longEdges /\ \E e \in shortEdges : i \in e.flows)
  BY <1>1, FinishedEdges
<1>3. ASSUME i \notin longEdges PROVE \E e \in shortEdges : i \in e.flows
  <2>1. i \in shortFlows
    BY <1>3, FinishedEdges
  <2>2. CASE i \in Remaining
    <3>1. [flows |-> {i}, agg |-> {"NO_AGG"}] \in shortEdges
      BY <2>2 DEF IInv, EmitInv, Alone
    <3> QED BY <3>1
  <2>3. CASE i \in fetched
    <3>1. PICK p \in Passes : \E g \in groups[p] : i \in g
      BY <2>3 DEF IInv, GroupsInv
    <3>2. PICK g \in groups[p] : i \in g
      BY <3>1
    <3>3. [flows |-> g, agg |-> PassBits[p] \cup PortBits(g)] \in shortEdges
      BY DEF IInv, EmitInv, Aggregated
    <3> QED BY <3>2, <3>3
  <2> QED BY <2>1, <2>2, <2>3 DEF Remaining
<1>4. ASSUME NEW e \in shortEdges, NEW d \in shortEdges, i \in e.flows, i \in d.flows
      PROVE  e = d
  <2>1. ASSUME NEW p \in Passes, NEW g \in groups[p], i \in g
        PROVE  i \notin Remaining
    BY <2>1 DEF IInv, GroupsInv, Remaining
  <2>2. ASSUME NEW p \in Passes, NEW g \in groups[p], NEW q \in Passes, NEW h \in groups[q],
               i \in g, i \in h
        PROVE  p = q /\ g = h
    BY <2>2 DEF IInv, GroupsInv
  <2>3. CASE i \in Remaining
    <3>1. e = [flows |-> {i}, agg |-> {"NO_AGG"}]
      BY <1>4, <2>1, <2>3, FinishedEdges
    <3>2. d = [flows |-> {i}, agg |-> {"NO_AGG"}]
      BY <1>4, <2>1, <2>3, FinishedEdges
    <3> QED BY <3>1, <3>2
  <2>4. CASE i \notin Remaining
    <3>1. PICK p \in Passes : \E g \in groups[p] :
            e = [flows |-> g, agg |-> PassBits[p] \cup PortBits(g)]
      BY <1>4, <2>4, FinishedEdges
    <3>2. PICK g \in groups[p] : e = [flows |-> g, agg |-> PassBits[p] \cup PortBits(g)]
      BY <3>1
    <3>3. PICK q \in Passes : \E h \in groups[q] :
            d = [flows |-> h, agg |-> PassBits[q] \cup PortBits(h)]
      BY <1>4, <2>4, FinishedEdges
    <3>4. PICK h \in groups[q] : d = [flows |-> h, agg |-> PassBits[q] \cup PortBits(h)]
      BY <3>3
    <3>5. i \in g /\ i \in h
      BY <1>4, <3>2, <3>4
    <3>6. p = q /\ g = h
      BY <2>2, <3>5
    <3> QED BY <3>2, <3>4, <3>6
  <2> QED BY <2>3, <2>4
<1> QED BY <1>2, <1>3, <1>4

(* No flow is lost or doubled between the flow vector and the edges, for     *)
(* any flows, threads and lines (edge_constructor.cpp:142-284).              *)
THEOREM FlowsInOneEdge == Spec => []EveryFlowOnce
<1> QED BY Invariance, InvEveryFlowOnce, PTL

LEMMA InvAggCodeExact == IInv => AggCodeExact
<1> SUFFICES ASSUME IInv, phase = "done", NEW e \in shortEdges
             PROVE  \/ e.agg = {"NO_AGG"} /\ Cardinality(e.flows) = 1
                    \/ /\ "NO_AGG" \notin e.agg
                       /\ "SRC_AGG" \in e.agg <=> (\A i, j \in e.flows : flows[i].src = flows[j].src)
                       /\ "DST_AGG" \in e.agg <=> (\A i, j \in e.flows : flows[i].dst = flows[j].dst)
                       /\ "SRC_P_AGG" \in e.agg <=> (\A i, j \in e.flows : flows[i].srcp = flows[j].srcp)
                       /\ "DST_P_AGG" \in e.agg <=> (\A i, j \in e.flows : flows[i].dstp = flows[j].dstp)
                       /\ \A i, j \in e.flows : flows[i].code = flows[j].code
  BY DEF AggCodeExact, Same
<1>1. CASE \E i \in Remaining : e = [flows |-> {i}, agg |-> {"NO_AGG"}]
  BY <1>1, FS_Singleton
<1>2. ASSUME NEW p \in Passes, NEW g \in groups[p],
             e = [flows |-> g, agg |-> PassBits[p] \cup PortBits(g)]
      PROVE  /\ "NO_AGG" \notin e.agg
             /\ "SRC_AGG" \in e.agg <=> (\A i, j \in g : flows[i].src = flows[j].src)
             /\ "DST_AGG" \in e.agg <=> (\A i, j \in g : flows[i].dst = flows[j].dst)
             /\ "SRC_P_AGG" \in e.agg <=> (\A i, j \in g : flows[i].srcp = flows[j].srcp)
             /\ "DST_P_AGG" \in e.agg <=> (\A i, j \in g : flows[i].dstp = flows[j].dstp)
             /\ \A i, j \in g : flows[i].code = flows[j].code
  <2>1. /\ GroupInv(p, g) /\ g \subseteq FlowIds /\ flows \in FlowVectors
        /\ e.agg = PassBits[p] \cup PortBits(g)
    BY <1>2, FinishedEdges DEF GroupInv
  <2>2. /\ "SRC_P_AGG" \in e.agg <=> (\A i, j \in g : flows[i].srcp = flows[j].srcp)
        /\ "DST_P_AGG" \in e.agg <=> (\A i, j \in g : flows[i].dstp = flows[j].dstp)
        /\ "SRC_AGG" \in e.agg <=> p \in {"src_dst", "src"}
        /\ "DST_AGG" \in e.agg <=> p \in {"src_dst", "dst"}
        /\ "NO_AGG" \notin e.agg
    BY <2>1 DEF PassBits, PortBits, Passes
  <2>3. /\ p \in {"src_dst", "src"} => \A i, j \in g : flows[i].src = flows[j].src
        /\ p \in {"src_dst", "dst"} => \A i, j \in g : flows[i].dst = flows[j].dst
        /\ \A i, j \in g : flows[i].code = flows[j].code
    BY <2>1 DEF GroupInv, SameKey, Key, Passes
  <2>4. ASSUME p = "src" PROVE ~(\A i, j \in g : flows[i].dst = flows[j].dst)
    <3>1. \E i, j \in g : Key("src_dst", i) # Key("src_dst", j)
      BY <2>1, <2>4, BigDiffers DEF GroupInv, Earlier
    <3> QED BY <2>3, <2>4, <3>1 DEF Key
  <2>5. ASSUME p = "dst" PROVE ~(\A i, j \in g : flows[i].src = flows[j].src)
    <3>1. \E i, j \in g : Key("src", i) # Key("src", j)
      BY <2>1, <2>5, BigDiffers DEF GroupInv, Earlier
    <3> QED BY <2>3, <2>5, <3>1 DEF Key
  <2> QED BY <2>2, <2>3, <2>4, <2>5 DEF Passes
<1> QED BY <1>1, <1>2, FinishedEdges

LEMMA InvNothingLeft == IInv => NothingLeftToAggregate
<1> SUFFICES ASSUME IInv, phase = "done" PROVE NothingLeftToAggregate
  BY DEF NothingLeftToAggregate
<1> DEFINE alone == UNION {e.flows : e \in {d \in shortEdges : d.agg = {"NO_AGG"}}}
<1>1. alone \subseteq Remaining
  <2> SUFFICES ASSUME NEW e \in shortEdges, e.agg = {"NO_AGG"} PROVE e.flows \subseteq Remaining
    OBVIOUS
  <2>1. ASSUME NEW p \in Passes, NEW g, e = [flows |-> g, agg |-> PassBits[p] \cup PortBits(g)]
        PROVE  FALSE
    BY <2>1 DEF PassBits, PortBits, Passes
  <2> QED BY <2>1, FinishedEdges
<1>2. \A p \in Passes : AtMost(p, alone)
  <2> HIDE DEF alone
  <2>1. flows \in FlowVectors /\ Remaining \subseteq FlowIds /\ \A p \in Passes : AtMost(p, Remaining)
    BY FinishedEdges
  <2> QED BY <1>1, <2>1, AtMostOfSubset
<1>3. ASSUME NEW e \in shortEdges
      PROVE  \/ "NO_AGG" \in e.agg
             \/ {"SRC_AGG", "DST_AGG"} \subseteq e.agg
             \/ AtMost("src_dst", e.flows)
  <2>1. CASE \E i \in Remaining : e = [flows |-> {i}, agg |-> {"NO_AGG"}]
    BY <2>1
  <2>2. ASSUME NEW p \in Passes, NEW g \in groups[p],
               e = [flows |-> g, agg |-> PassBits[p] \cup PortBits(g)]
        PROVE  {"SRC_AGG", "DST_AGG"} \subseteq e.agg \/ AtMost("src_dst", e.flows)
    <3>1. CASE p = "src_dst"
      BY <2>2, <3>1 DEF PassBits
    <3>2. CASE p \in {"src", "dst"}
      <4>1. "src_dst" \in Earlier(p) /\ GroupInv(p, g) /\ e.flows = g
        BY <2>2, <3>2, FinishedEdges DEF Earlier
      <4> QED BY <4>1 DEF GroupInv
    <3> QED BY <3>1, <3>2 DEF Passes
  <2> QED BY <2>1, <2>2, FinishedEdges
<1> QED BY <1>2, <1>3 DEF NothingLeftToAggregate

(* The code of an edge says exactly what its flows share, and nothing more,  *)
(* for any flows, threads and lines (edge_constructor.cpp:151-281).          *)
THEOREM CodesExact == Spec => []AggCodeExact
<1> QED BY Invariance, InvAggCodeExact, PTL

(* The flows left alone could not have been aggregated by any pass, and an   *)
(* edge aggregated by one address not by both (edge_constructor.cpp:151-201).*)
THEOREM AggregationComplete == Spec => []NothingLeftToAggregate
<1> QED BY Invariance, InvNothingLeft, PTL

-------------------------------------------------------------------------------
(* The packet counters *)

Size == [i \in FlowIds |-> flows[i].size]

LEMMA SizeType ==
  ASSUME flows \in FlowVectors
  PROVE  \A i \in FlowIds : Size[i] = flows[i].size /\ Size[i] \in Nat
<1>1. flows \in Seq(Flow)
  BY FlowAssumption
<1>2. \A i \in FlowIds : flows[i] \in Flow
  BY <1>1 DEF FlowIds
<1>3. \A i \in FlowIds : flows[i].size \in Nat
  BY <1>2, SizeAssumption DEF Flow
<1> QED BY <1>3 DEF Size

(* The packets of a set of flows are a sum of sizes. *)
LEMMA PacketsTotal ==
  ASSUME flows \in FlowVectors, NEW S, S \subseteq FlowIds
  PROVE  Packets(S) = Total(Size, S) /\ Packets(S) \in Nat
<1> DEFINE One(g, U) == IF U = {} THEN 0 ELSE flows[AnyOf(U)].size + g[U \ {AnyOf(U)}]
           fold == CHOOSE g : g = [U \in SUBSET S |-> One(g, U)]
<1>1. IsFiniteSet(S)
  BY SubsetFinite
<1>2. Packets(S) = fold[S]
  BY Zenon DEF Packets, MapThenSumSet, MapThenFoldSet, AnyOf
<1>3. ASSUME NEW g PROVE \A U \in SUBSET S : One(g, U) = AddOne(Size, g, U)
  <2>1. \A U \in SUBSET S : U # {} => AnyOf(U) \in FlowIds
    BY DEF AnyOf
  <2> QED BY <2>1 DEF AddOne, Size
<1>4. \A g : (g = [U \in SUBSET S |-> One(g, U)]) <=> Adds(Size, g, S)
  BY <1>3 DEF Adds
<1>5. \E g : g = [U \in SUBSET S |-> One(g, U)]
  BY <1>1, <1>4, FoldExists
<1>6. fold = [U \in SUBSET S |-> One(fold, U)]
  BY <1>5, Zenon
<1> HIDE DEF fold
<1>7. Adds(Size, fold, S)
  BY <1>4, <1>6
<1>8. PICK g : Adds(Size, g, S) /\ Total(Size, S) = g[S]
  BY <1>1, TotalIsFold
<1>9. Packets(S) = Total(Size, S)
  BY <1>1, <1>2, <1>7, <1>8, FoldUnique
<1>10. \A i \in S : Size[i] \in Nat
  BY SizeType
<1> QED BY <1>1, <1>9, <1>10, TotalType

LEMMA PacketsUnion ==
  ASSUME flows \in FlowVectors, NEW S, NEW T, S \subseteq FlowIds, T \subseteq FlowIds, S \cap T = {}
  PROVE  Packets(S \cup T) = Packets(S) + Packets(T)
<1>1. IsFiniteSet(S) /\ IsFiniteSet(T)
  BY SubsetFinite
<1>2. \A i \in S \cup T : Size[i] \in Nat
  BY SizeType
<1>3. Total(Size, S \cup T) = Total(Size, S) + Total(Size, T)
  BY <1>1, <1>2, TotalUnion
<1>4. S \cup T \subseteq FlowIds
  OBVIOUS
<1> QED BY <1>3, <1>4, PacketsTotal

(* The packets of the edges of E, as Emit adds them up. *)
EdgeSum(E) == MapThenSumSet(LAMBDA e : Packets(e.flows), E)

(* Both sums as functions of the flows, which no step changes.               *)
PacketsIn(fl, S) == MapThenSumSet(LAMBDA i : fl[i].size, S)
EdgeSumIn(fl, E) == MapThenSumSet(LAMBDA e : PacketsIn(fl, e.flows), E)

LEMMA SumsFixed ==
  ASSUME flows' = flows
  PROVE  (\A S : Packets(S)' = Packets(S)) /\ (\A E : EdgeSum(E)' = EdgeSum(E))
<1>1. ASSUME NEW S PROVE Packets(S)' = Packets(S)
  <2>1. Packets(S) = PacketsIn(flows, S)
    BY DEF Packets, PacketsIn
  <2>2. Packets(S)' = PacketsIn(flows', S)
    BY Zenon DEF Packets, PacketsIn, MapThenSumSet, MapThenFoldSet
  <2> QED BY <2>1, <2>2
<1>2. ASSUME NEW E PROVE EdgeSum(E)' = EdgeSum(E)
  <2>1. EdgeSum(E) = EdgeSumIn(flows, E)
    BY DEF EdgeSum, EdgeSumIn, Packets, PacketsIn
  <2>2. EdgeSum(E)' = EdgeSumIn(flows', E)
    BY Zenon DEF EdgeSum, EdgeSumIn, Packets, PacketsIn, MapThenSumSet, MapThenFoldSet
  <2> QED BY <2>1, <2>2
<1> QED BY <1>1, <1>2

LEMMA EdgeSumTotal ==
  ASSUME NEW E, IsFiniteSet(E)
  PROVE  EdgeSum(E) = Total([e \in E |-> Packets(e.flows)], E)
<1> DEFINE F == [e \in E |-> Packets(e.flows)]
           One(g, U) == IF U = {} THEN 0 ELSE Packets(AnyOf(U).flows) + g[U \ {AnyOf(U)}]
           fold == CHOOSE g : g = [U \in SUBSET E |-> One(g, U)]
<1>1. EdgeSum(E) = fold[E]
  BY Zenon DEF EdgeSum, MapThenSumSet, MapThenFoldSet, AnyOf
<1>2. ASSUME NEW g PROVE \A U \in SUBSET E : One(g, U) = AddOne(F, g, U)
  <2>1. \A U \in SUBSET E : U # {} => AnyOf(U) \in E
    BY DEF AnyOf
  <2> QED BY <2>1 DEF AddOne
<1>3. \A g : (g = [U \in SUBSET E |-> One(g, U)]) <=> Adds(F, g, E)
  BY <1>2 DEF Adds
<1>4. \E g : g = [U \in SUBSET E |-> One(g, U)]
  BY <1>3, FoldExists
<1>5. fold = [U \in SUBSET E |-> One(fold, U)]
  BY <1>4, Zenon
<1> HIDE DEF fold
<1>6. Adds(F, fold, E)
  BY <1>3, <1>5
<1> HIDE DEF F
<1>7. PICK g : Adds(F, g, E) /\ Total(F, E) = g[E]
  BY TotalIsFold
<1>8. g[E] = fold[E]
  BY <1>6, <1>7, FoldUnique
<1> QED BY <1>1, <1>7, <1>8 DEF F

(* No two threads have a flow in both their shares. *)
LEMMA SharesDisjoint ==
  ASSUME flows \in FlowVectors, longFlows \subseteq FlowIds, NEW c \in Cores, NEW d \in Cores, c # d
  PROVE  Share(c) \cap Share(d) = {}
<1>1. Cardinality(longFlows) \in Nat
  BY SubsetFinite
<1>2. Slice(Cardinality(longFlows), Multiplex, c) \cap Slice(Cardinality(longFlows), Multiplex, d) = {}
  BY <1>1, SlicesDisjoint, EdgeMultiplexAssumption DEF Cores
<1> QED BY <1>2 DEF Share

(* The counters are the packets of the edges published so far. *)
SumInv ==
  /\ longPacketSum = Packets(longEdges)
  /\ phase # "done" => shortPacketSum = 0 /\ shortEdges = {}
  /\ phase = "done" => shortPacketSum = EdgeSum(shortEdges)

LEMMA LongInside ==
  ASSUME IInv
  PROVE  /\ flows \in FlowVectors /\ longFlows \subseteq FlowIds /\ shortFlows \subseteq FlowIds
         /\ longEdges \subseteq longFlows /\ published \subseteq Cores
<1>1. longFlows \subseteq FlowIds /\ shortFlows \subseteq FlowIds
  BY DEF IInv, LongInv
<1>2. flows \in FlowVectors /\ published \subseteq Cores
  BY DEF IInv, LongInv
<1>3. longEdges \subseteq longFlows
  BY DEF IInv, LongInv, Share
<1> QED BY <1>1, <1>2, <1>3

LEMMA InitSum == Init => SumInv
<1> SUFFICES ASSUME Init PROVE SumInv
  OBVIOUS
<1>1. Packets({}) = 0
  <2>1. flows \in FlowVectors
    BY DEF Init
  <2> QED BY <2>1, PacketsTotal, TotalAddsOne, FS_EmptySet
<1> QED BY <1>1 DEF Init, SumInv

LEMMA StepSum == IInv /\ SumInv /\ [Next]_vars => SumInv'
<1> SUFFICES ASSUME IInv, SumInv, [Next]_vars PROVE SumInv'
  OBVIOUS
<1>1. flows' = flows
  BY DEF Next, Classify, LongWorker, JoinLong, Aggregate, Emit, Finished, vars
<1>2. (\A S : Packets(S)' = Packets(S)) /\ (\A E : EdgeSum(E)' = EdgeSum(E))
  BY <1>1, SumsFixed
<1>3. ASSUME NEW c \in Cores, LongWorker(c) PROVE SumInv'
  <2>1. /\ c \notin published /\ phase = "long" /\ phase' = "long"
        /\ longEdges' = longEdges \cup Share(c)
        /\ longPacketSum' = longPacketSum + Packets(Share(c))
        /\ UNCHANGED <<shortEdges, shortPacketSum>>
    BY <1>3 DEF LongWorker, shortVars
  <2>2. longEdges \cap Share(c) = {}
    BY <2>1, LongInside, SharesDisjoint DEF IInv, LongInv
  <2>3. longEdges \subseteq FlowIds /\ Share(c) \subseteq FlowIds
    BY LongInside DEF Share
  <2>4. Packets(longEdges \cup Share(c)) = Packets(longEdges) + Packets(Share(c))
    BY <2>2, <2>3, LongInside, PacketsUnion
  <2> QED BY <1>2, <2>1, <2>4 DEF SumInv
<1>4. CASE Emit
  <2>1. shortPacketSum' = EdgeSum(shortEdges')
    BY <1>4 DEF Emit, EdgeSum
  <2>2. phase' = "done" /\ UNCHANGED <<longEdges, longPacketSum>>
    BY <1>4 DEF Emit, longVars
  <2> QED BY <1>2, <2>1, <2>2 DEF SumInv
<1>5. CASE Classify \/ JoinLong \/ \E pass \in Passes : Aggregate(pass)
  <2>1. phase # "done" /\ phase' # "done" /\ UNCHANGED <<longEdges, longPacketSum, shortEdges, shortPacketSum>>
    BY <1>5 DEF Classify, JoinLong, Aggregate, longVars, shortVars, Passes, After
  <2> QED BY <1>2, <2>1 DEF SumInv
<1>6. CASE UNCHANGED vars
  BY <1>2, <1>6 DEF SumInv, vars, longVars, shortVars
<1> QED BY <1>3, <1>4, <1>5, <1>6 DEF Next, Finished

(* The short edges together hold the packets of the short flows. *)
LEMMA ShortSum ==
  ASSUME IInv, phase = "done"
  PROVE  EdgeSum(shortEdges) = Packets(shortFlows)
<1> DEFINE A == [e \in shortEdges |-> e.flows]
<1>1. \A e \in shortEdges : e.flows \subseteq shortFlows /\ e.flows # {}
  <2> SUFFICES ASSUME NEW e \in shortEdges PROVE e.flows \subseteq shortFlows /\ e.flows # {}
    OBVIOUS
  <2>1. ASSUME NEW p \in Passes, NEW g \in groups[p], e = [flows |-> g, agg |-> PassBits[p] \cup PortBits(g)]
        PROVE  e.flows \subseteq shortFlows /\ e.flows # {}
    <3>1. GroupInv(p, g)
      BY FinishedEdges
    <3>2. g \subseteq shortFlows /\ g # {}
      BY <3>1, FS_EmptySet, LineAssumption DEF GroupInv, Big
    <3> QED BY <2>1, <3>2
  <2>2. ASSUME NEW i \in Remaining, e = [flows |-> {i}, agg |-> {"NO_AGG"}]
        PROVE  e.flows \subseteq shortFlows /\ e.flows # {}
    BY <2>2, FinishedEdges
  <2> QED BY <2>1, <2>2, FinishedEdges
<1>2. \A e, d \in shortEdges : e # d => e.flows \cap d.flows = {}
  <2> SUFFICES ASSUME NEW e \in shortEdges, NEW d \in shortEdges, NEW i \in e.flows, i \in d.flows
               PROVE  e = d
    OBVIOUS
  <2>1. i \in FlowIds
    BY <1>1, LongInside
  <2> QED BY <2>1, InvEveryFlowOnce DEF EveryFlowOnce
<1>3. IsFiniteSet(SUBSET shortFlows)
  BY LongInside, SubsetFinite, FS_SUBSET
<1>4. IsFiniteSet(shortEdges)
  <2>1. A \in [shortEdges -> SUBSET shortFlows] /\ \A e, d \in shortEdges : A[e] = A[d] => e = d
    BY <1>1, <1>2
  <2>2. A \in Injection(shortEdges, SUBSET shortFlows)
    BY <2>1, Fun_IsInj
  <2> QED BY <1>3, <2>2, FS_Injection
<1>5. (UNION {A[e] : e \in shortEdges}) = shortFlows
  <2>1. ASSUME NEW i \in shortFlows PROVE \E e \in shortEdges : i \in e.flows
    <3>1. i \in FlowIds /\ i \notin longEdges
      BY LongInside, FinishedEdges
    <3> QED BY <3>1, InvEveryFlowOnce DEF EveryFlowOnce
  <2> QED BY <1>1, <2>1
<1>6. [e \in shortEdges |-> Packets(e.flows)] = [e \in shortEdges |-> Total(Size, A[e])]
  <2>1. \A e \in shortEdges : Packets(e.flows) = Total(Size, A[e])
    BY <1>1, LongInside, PacketsTotal
  <2> QED BY <2>1
<1>7. \A e \in shortEdges : IsFiniteSet(A[e]) /\ \A i \in A[e] : Size[i] \in Nat
  BY <1>1, LongInside, SubsetFinite, SizeType
<1>8. \A e, d \in shortEdges : e # d => A[e] \cap A[d] = {}
  BY <1>2
<1> HIDE DEF A
<1>9. Total([e \in shortEdges |-> Total(Size, A[e])], shortEdges) = Total(Size, shortFlows)
  BY <1>4, <1>5, <1>7, <1>8, TotalByGroups
<1> QED BY <1>4, <1>6, <1>9, EdgeSumTotal, LongInside, PacketsTotal

LEMMA SumsAgree == IInv /\ SumInv => PacketSumsAgree
<1> SUFFICES ASSUME IInv, SumInv, phase = "done"
             PROVE  longPacketSum + shortPacketSum = Packets(FlowIds)
  BY DEF PacketSumsAgree, SumInv
<1>1. longEdges \cup shortFlows = FlowIds /\ longEdges \cap shortFlows = {}
  BY FinishedEdges
<1>2. Packets(longEdges \cup shortFlows) = Packets(longEdges) + Packets(shortFlows)
  BY <1>1, FinishedEdges, PacketsUnion
<1> QED BY <1>1, <1>2, ShortSum DEF SumInv

LEMMA SumInvariance == Spec => [](IInv /\ SumInv)
<1> QED BY InitInv, StepInv, InitSum, StepSum, PTL DEF Spec

(* The counters of long and of short edges agree with the edges at every     *)
(* step of every schedule and at the end with the flows given, for any       *)
(* flows, sizes, threads and lines (edge_constructor.cpp:81-86, 246-281).    *)
THEOREM PacketsCounted == Spec => []PacketSumsAgree
<1> QED BY SumInvariance, SumsAgree, PTL

LEMMA EdgesTyped == IInv /\ SumInv => EdgeTypeOK
<1> SUFFICES ASSUME IInv, SumInv PROVE EdgeTypeOK
  OBVIOUS
<1>1. flows \in FlowVectors /\ phase \in {"classify", "long", "emit", "done"} \cup Passes
  BY DEF IInv, LongInv, Phase
<1>2. /\ longFlows \subseteq FlowIds /\ shortFlows \subseteq FlowIds /\ published \subseteq Cores
      /\ longEdges \subseteq FlowIds
  BY LongInside
<1>3. longPacketSum \in Nat
  BY <1>1, <1>2, PacketsTotal DEF SumInv
<1>4. shortPacketSum \in Nat
  <2>1. CASE phase = "done"
    BY <1>1, <1>2, <2>1, ShortSum, PacketsTotal DEF SumInv
  <2> QED BY <2>1 DEF SumInv
<1>5. groups \in [Passes -> SUBSET SUBSET FlowIds] /\ fetched \subseteq FlowIds
  BY DEF IInv, GroupsInv
<1>6. shortEdges \subseteq [flows : SUBSET FlowIds, agg : SUBSET Bits]
  <2>1. CASE phase # "done"
    BY <2>1 DEF SumInv
  <2>2. CASE phase = "done"
    <3> SUFFICES ASSUME NEW e \in shortEdges PROVE e \in [flows : SUBSET FlowIds, agg : SUBSET Bits]
      OBVIOUS
    <3>1. ASSUME NEW p \in Passes, NEW g \in groups[p],
                 e = [flows |-> g, agg |-> PassBits[p] \cup PortBits(g)]
          PROVE  e \in [flows : SUBSET FlowIds, agg : SUBSET Bits]
      <4>1. g \in SUBSET FlowIds
        BY <1>5
      <4>2. PassBits[p] \cup PortBits(g) \in SUBSET Bits
        BY DEF PassBits, PortBits, Bits, Passes
      <4> QED BY <3>1, <4>1, <4>2
    <3>2. ASSUME NEW i \in Remaining, e = [flows |-> {i}, agg |-> {"NO_AGG"}]
          PROVE  e \in [flows : SUBSET FlowIds, agg : SUBSET Bits]
      <4>1. {i} \in SUBSET FlowIds /\ {"NO_AGG"} \in SUBSET Bits
        BY <1>2, <2>2, FinishedEdges DEF Bits
      <4> QED BY <3>2, <4>1
    <3> QED BY <2>2, <3>1, <3>2, FinishedEdges
  <2> QED BY <2>1, <2>2
<1> QED BY <1>1, <1>2, <1>3, <1>4, <1>5, <1>6 DEF EdgeTypeOK

(* The sets do_construct works on stay sets of the flows given, the counters *)
(* numbers and the codes of the edges codes (edge_constructor.cpp:28-289).   *)
THEOREM EdgeTypeCorrect == Spec => []EdgeTypeOK
<1> QED BY SumInvariance, EdgesTyped, PTL
================================================================================
