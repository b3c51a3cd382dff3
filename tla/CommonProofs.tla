------------------------------ MODULE CommonProofs -----------------------------
(***************************************************************************)
(* What the proofs of several components need: induction over numbers and  *)
(* over finite sets, extreme elements, and the ranges of the thread pools, *)
(* for every array length and pool size.                                   *)
(*                                                                         *)
(* The induction principles speak of sets, not of predicates: a proof      *)
(* defines the set of the values it wants to cover and cites them.         *)
(***************************************************************************)
EXTENDS Partition, FiniteSetTheorems, TLAPS

-------------------------------------------------------------------------------
(* Induction *)

(* The naturals are well ordered. *)
LEMMA LeastNatural ==
  ASSUME NEW S, S \subseteq Nat, S # {}
  PROVE  \E m \in S : \A k \in S : m <= k
<1> DEFINE R == OpToRel(<, Nat)
<1>1. IsWellFoundedOn(R, Nat)
  BY NatLessThanWellFounded, Zenon
<1>2. PICK x \in S : \A y \in S : ~(<<y, x>> \in R)
  <2> HIDE DEF R
  <2> QED BY <1>1, WFMin
<1>3. \A y \in S : ~(y < x)
  BY <1>2 DEF OpToRel
<1> QED BY <1>3

(* A set of naturals with 0 and the successors of its elements is Nat. *)
LEMMA SetOfNaturalsInduction ==
  ASSUME NEW S, S \subseteq Nat, 0 \in S, \A n \in S : n + 1 \in S
  PROVE  S = Nat
<1> SUFFICES ASSUME Nat \ S # {} PROVE FALSE
  OBVIOUS
<1>1. PICK m \in Nat \ S : \A k \in Nat \ S : m <= k
  BY LeastNatural
<1>2. m - 1 \in Nat /\ m - 1 \in S
  BY <1>1
<1> QED BY <1>1, <1>2

(* Among some subsets of a finite set one has no other of them inside.       *)
LEMMA MinimalSubset ==
  ASSUME NEW T, IsFiniteSet(T), NEW B, B \subseteq SUBSET T, B # {}
  PROVE  \E U \in B : \A V \in B : V \subseteq U => V = U
<1> DEFINE R == StrictSubsetOrdering(T)
<1>1. IsWellFoundedOn(R, FiniteSubsetsOf(T))
  BY FS_StrictSubsetOrderingWellFounded
<1>2. B \subseteq FiniteSubsetsOf(T)
  BY FS_FiniteSubsetsOfFinite
<1>3. PICK U \in B : \A V \in B : ~(<<V, U>> \in R)
  <2> HIDE DEF R
  <2> QED BY <1>1, <1>2, WFMin
<1> QED BY <1>3 DEF StrictSubsetOrdering

(* A family of sets that has the empty one, and with a subset of the finite  *)
(* set T the sets of one element of T more, has T.                           *)
LEMMA FamilyInduction ==
  ASSUME NEW T, IsFiniteSet(T), NEW F, {} \in F,
         \A U \in SUBSET T : \A x \in T \ U : U \in F => U \cup {x} \in F
  PROVE  T \in F
<1> DEFINE B == {U \in SUBSET T : U \notin F}
<1> SUFFICES ASSUME B # {} PROVE FALSE
  OBVIOUS
<1>1. PICK U \in B : \A V \in B : V \subseteq U => V = U
  <2> HIDE DEF B
  <2>1. B \subseteq SUBSET T
    BY DEF B
  <2> QED BY <2>1, MinimalSubset
<1>2. PICK x \in U : TRUE
  OBVIOUS
<1>3. U \ {x} \in F
  BY <1>1, <1>2
<1>4. U = (U \ {x}) \cup {x} /\ U \ {x} \in SUBSET T /\ x \in T \ (U \ {x})
  BY <1>2
<1> QED BY <1>3, <1>4

(* A finite set of integers has a greatest and a least element. *)
LEMMA FiniteHasExtremes ==
  ASSUME NEW S, IsFiniteSet(S), S # {}, S \subseteq Int
  PROVE  /\ \E m \in S : \A k \in S : m >= k
         /\ \E m \in S : \A k \in S : m <= k
<1> DEFINE P(U) == /\ \E m \in U : \A k \in U : m >= k
                   /\ \E m \in U : \A k \in U : m <= k
           F == {U \in SUBSET S : U # {} => P(U)}
<1>1. {} \in F
  OBVIOUS
<1>2. ASSUME NEW U \in SUBSET S, NEW x \in S \ U, U \in F PROVE U \cup {x} \in F
  <2>1. CASE U = {}
    <3>1. U \cup {x} = {x}
      BY <2>1
    <3>2. \A k \in {x} : x >= k /\ x <= k
      OBVIOUS
    <3> QED BY <3>1, <3>2
  <2>2. CASE U # {}
    <3>1. PICK a \in U : \A k \in U : a >= k
      BY <1>2, <2>2
    <3>2. PICK b \in U : \A k \in U : b <= k
      BY <1>2, <2>2
    <3>3. \E m \in U \cup {x} : \A k \in U \cup {x} : m >= k
      <4>1. CASE a >= x
        BY <3>1, <4>1
      <4>2. CASE ~(a >= x)
        <5>1. \A k \in U \cup {x} : x >= k
          BY <3>1, <4>2
        <5> QED BY <5>1
      <4> QED BY <4>1, <4>2
    <3>4. \E m \in U \cup {x} : \A k \in U \cup {x} : m <= k
      <4>1. CASE b <= x
        BY <3>2, <4>1
      <4>2. CASE ~(b <= x)
        <5>1. \A k \in U \cup {x} : x <= k
          BY <3>2, <4>2
        <5> QED BY <5>1
      <4> QED BY <4>1, <4>2
    <3> QED BY <3>3, <3>4
  <2> QED BY <2>1, <2>2
<1>3. S \in F
  <2> HIDE DEF F
  <2> QED BY <1>1, <1>2, FamilyInduction
<1> QED BY <1>3

(* What a function makes of a finite set is finite. *)
LEMMA FiniteImage ==
  ASSUME NEW S, IsFiniteSet(S), NEW f
  PROVE  IsFiniteSet({f[x] : x \in S})
<1> DEFINE T == {f[x] : x \in S}
           g == [x \in S |-> f[x]]
<1>1. g \in [S -> T] /\ \A t \in T : \E x \in S : g[x] = t
  OBVIOUS
<1>2. g \in Surjection(S, T)
  <2> HIDE DEF g, T
  <2> QED BY <1>1 DEF Surjection
<1> HIDE DEF g, T
<1>3. IsFiniteSet(T)
  BY <1>2, FS_Surjection
<1> QED BY <1>3 DEF T

-------------------------------------------------------------------------------
(* Ranges *)

(* The part size is a natural number and m parts of it reach the end. *)
LEMMA PartSizeBound ==
  ASSUME NEW n \in Nat, NEW m \in Nat \ {0}
  PROVE  /\ PartSize(n, m) \in Nat
         /\ m * PartSize(n, m) >= n
         /\ n > 0 => PartSize(n, m) > 0
<1> DEFINE p == PartSize(n, m)
<1>1. p \in Int /\ m * p <= n + m - 1 /\ n + m - 1 < m * p + m
  BY DEF PartSize
<1>2. p >= 0
  BY <1>1
<1>3. n > 0 => p > 0
  BY <1>1, <1>2
<1> QED BY <1>1, <1>2, <1>3

(* k parts end where part k + 1 starts, and later parts start no earlier. *)
LEMMA PartsMonotone ==
  ASSUME NEW p \in Nat, NEW k \in Nat, NEW l \in Nat, k < l
  PROVE  k * p + p <= l * p
<1>1. PICK d \in Nat : l = k + 1 + d
  <2>1. l - k - 1 \in Nat /\ l = k + 1 + (l - k - 1)
    OBVIOUS
  <2> QED BY <2>1
<1>2. l * p = k * p + p + d * p
  BY <1>1
<1>3. d * p \in Nat
  OBVIOUS
<1> QED BY <1>2, <1>3

(* Ranges lie inside the array. *)
LEMMA SliceInside ==
  ASSUME NEW n \in Nat, NEW m \in Nat \ {0}, NEW k \in 0 .. m - 1
  PROVE  /\ From(n, m, k) \in Nat
         /\ To(n, m, k) \in Nat
         /\ To(n, m, k) <= n
         /\ Slice(n, m, k) \subseteq 0 .. n - 1
<1>1. PartSize(n, m) \in Nat
  BY PartSizeBound
<1>2. From(n, m, k) \in Nat
  BY <1>1 DEF From
<1> QED BY <1>1, <1>2 DEF To, Slice, Least

(* No index belongs to two workers (the loops of pcap_parser,               *)
(* explicit_constructor and edge_constructor never share an element).        *)
THEOREM SlicesDisjoint ==
  ASSUME NEW n \in Nat, NEW m \in Nat \ {0},
         NEW k \in 0 .. m - 1, NEW l \in 0 .. m - 1, k # l
  PROVE  Slice(n, m, k) \cap Slice(n, m, l) = {}
<1> DEFINE p == PartSize(n, m)
<1>1. p \in Nat
  BY PartSizeBound
<1>2. k * p \in Nat /\ l * p \in Nat
  BY <1>1
<1>3. CASE k < l
  <2>1. k * p + p <= l * p
    BY <1>1, <1>3, PartsMonotone
  <2> QED BY <1>1, <1>2, <2>1 DEF Slice, From, To, Least
<1>4. CASE l < k
  <2>1. l * p + p <= k * p
    BY <1>1, <1>4, PartsMonotone
  <2> QED BY <1>1, <1>2, <2>1 DEF Slice, From, To, Least
<1> QED BY <1>3, <1>4

(* Every index belongs to some worker, whatever the thread count. *)
THEOREM SlicesCover ==
  ASSUME NEW n \in Nat, NEW m \in Nat \ {0}, NEW i \in 0 .. n - 1
  PROVE  \E k \in 0 .. m - 1 : i \in Slice(n, m, k)
<1> DEFINE p == PartSize(n, m)
           k == i \div p
<1>1. p \in Nat /\ p > 0 /\ m * p >= n
  BY PartSizeBound
<1>2. k \in Int /\ p * k <= i /\ i < p * k + p
  BY <1>1
<1>3. k >= 0
  BY <1>1, <1>2
<1>4. k < m
  <2>1. SUFFICES ASSUME k >= m PROVE FALSE
    BY <1>2
  <2>2. k * p >= m * p
    <3>1. k = m \/ k > m
      BY <1>2, <2>1
    <3>2. CASE k = m
      BY <1>1, <3>2
    <3>3. CASE k > m
      <4>1. m * p + p <= k * p
        BY <1>1, <1>2, <1>3, <3>3, PartsMonotone
      <4> HIDE DEF k, p
      <4> QED BY <1>1, <1>2, <4>1
    <3> QED BY <3>1, <3>2, <3>3
  <2> QED BY <1>1, <1>2, <2>2
<1>5. k * p \in Nat /\ k * p <= i /\ i < k * p + p
  BY <1>1, <1>2, <1>3
<1>6. i \in Slice(n, m, k)
  BY <1>1, <1>5 DEF Slice, From, To, Least
<1> QED BY <1>2, <1>3, <1>4, <1>6
================================================================================
