----------------------------- MODULE NumberLemmas -----------------------------
(***************************************************************************)
(* Sets of numbers, for the proofs that need more than arithmetic: least   *)
(* and greatest members, bounds of finite sets, and induction in the form  *)
(* in which a set takes the place of the predicate.                        *)
(***************************************************************************)
EXTENDS Integers, FiniteSets, FiniteSetTheorems, FunctionTheorems,
        WellFoundedInduction, TLAPS

(* A set of numbers that is not empty has a least member. *)
LEMMA LeastNumber ==
  ASSUME NEW S \in SUBSET Nat, S # {}
  PROVE  \E m \in S : \A k \in S : m <= k
  <1> DEFINE Below == OpToRel(<, Nat)
  <1>1. IsWellFoundedOn(Below, Nat)
    BY NatLessThanWellFounded
  <1> HIDE DEF Below
  <1>2. PICK m \in S : \A k \in S : <<k, m>> \notin Below
    BY <1>1, WFMin
  <1>3. \A k \in S : ~(k < m)
    BY <1>2 DEF Below, OpToRel
  <1>4. QED
    BY <1>3

(* Induction: a set with 0 that has n + 1 with every n has all numbers. *)
LEMMA InductionSet ==
  ASSUME NEW S, 0 \in S, \A n \in Nat : n \in S => n + 1 \in S
  PROVE  Nat \subseteq S
  <1> DEFINE Missing == Nat \ S
  <1> SUFFICES ASSUME Missing # {} PROVE FALSE
    OBVIOUS
  <1>1. PICK m \in Missing : \A k \in Missing : m <= k
    BY LeastNumber
  <1>2. m \in Nat /\ m # 0 /\ m - 1 \in Nat /\ m - 1 \notin Missing
    BY <1>1
  <1>3. (m - 1) + 1 \in S
    BY <1>2
  <1>4. QED
    BY <1>2, <1>3

(* A set of numbers with a bound has a greatest member. *)
LEMMA GreatestNumber ==
  ASSUME NEW S \in SUBSET Nat, S # {}, NEW n \in Nat, \A s \in S : s <= n
  PROVE  \E m \in S : \A k \in S : k <= m
  <1> DEFINE Gaps == {n - s : s \in S}
  <1>1. Gaps \in SUBSET Nat /\ Gaps # {}
    <2>1. \A s \in S : n - s \in Nat
      OBVIOUS
    <2>2. PICK s \in S : TRUE
      OBVIOUS
    <2>3. n - s \in Gaps
      OBVIOUS
    <2>4. QED
      BY <2>1, <2>3
  <1>2. PICK g \in Gaps : \A h \in Gaps : g <= h
    BY <1>1, LeastNumber
  <1>3. PICK m \in S : g = n - m
    BY <1>2
  <1>4. ASSUME NEW k \in S PROVE k <= m
    <2>1. n - k \in Gaps
      OBVIOUS
    <2>2. n - m <= n - k
      BY <1>2, <1>3, <2>1
    <2>3. m \in Nat /\ k \in Nat
      OBVIOUS
    <2>4. QED
      BY <2>2, <2>3
  <1>5. QED
    BY <1>4

(* The members of a finite set can be numbered from any n + 1 on. *)
LEMMA Numbered ==
  ASSUME NEW S, IsFiniteSet(S), NEW n \in Nat
  PROVE  \E ids \in [S -> n + 1 .. n + Cardinality(S)] :
           \A x, y \in S : x # y => ids[x] # ids[y]
  <1> DEFINE c == Cardinality(S)
  <1>1. c \in Nat /\ ExistsBijection(1 .. c, S)
    BY FS_CardinalityType
  <1> HIDE DEF c
  <1>2. ExistsBijection(S, 1 .. c)
    BY <1>1, Fun_ExistsBijSymmetric
  <1>3. PICK h \in Bijection(S, 1 .. c) : TRUE
    BY <1>2 DEF ExistsBijection
  <1>4. h \in [S -> 1 .. c] /\ \A x, y \in S : h[x] = h[y] => x = y
    BY <1>3 DEF Bijection, Injection, IsInjective
  <1> DEFINE ids == [x \in S |-> n + h[x]]
  <1>5. ids \in [S -> n + 1 .. n + c] 
    BY <1>1, <1>4
  <1>6. ASSUME NEW x \in S, NEW y \in S, x # y PROVE ids[x] # ids[y]
    <2>1. h[x] # h[y] /\ h[x] \in Nat /\ h[y] \in Nat
      BY <1>4, <1>6
    <2>2. QED
      BY <2>1
  <1> HIDE DEF ids
  <1>7. \E m \in [S -> n + 1 .. n + c] : \A x, y \in S : x # y => m[x] # m[y]
    BY <1>5, <1>6
  <1>8. QED
    BY <1>7 DEF c


(* A finite set of numbers has a bound. *)
LEMMA BoundOfFinite ==
  ASSUME NEW S \in SUBSET Nat, IsFiniteSet(S)
  PROVE  \E n \in Nat : \A s \in S : s <= n
  <1> DEFINE Bounded(T) == \E n \in Nat : \A s \in T : s <= n
             Sizes == {c \in Nat : \A T \in SUBSET Nat :
                                     IsFiniteSet(T) /\ Cardinality(T) = c => Bounded(T)}
  <1>1. 0 \in Sizes
    BY FS_EmptySet
  <1>2. ASSUME NEW c \in Nat, c \in Sizes PROVE c + 1 \in Sizes
    <2>1. ASSUME NEW T \in SUBSET Nat, IsFiniteSet(T), Cardinality(T) = c + 1
          PROVE  Bounded(T)
      <3>1. T # {}
        BY <2>1, FS_EmptySet
      <3>2. PICK t \in T : TRUE
        BY <3>1
      <3>3. IsFiniteSet(T \ {t}) /\ Cardinality(T \ {t}) = c /\ T \ {t} \in SUBSET Nat
        <4>1. IsFiniteSet(T \ {t}) /\ Cardinality(T \ {t}) = Cardinality(T) - 1
          BY <2>1, <3>2, FS_RemoveElement
        <4>2. QED
          BY <2>1, <4>1
      <3>4. PICK n \in Nat : \A s \in T \ {t} : s <= n
        BY <1>2, <3>3
      <3>5. CASE t <= n
        BY <3>4, <3>5
      <3>6. CASE ~(t <= n)
        <4>1. t \in Nat /\ \A s \in T : s <= t
          BY <3>4, <3>6
        <4>2. QED
          BY <4>1
      <3>7. QED
        BY <3>5, <3>6
    <2>2. QED
      BY <2>1
  <1> HIDE DEF Sizes
  <1>3. Nat \subseteq Sizes
    BY <1>1, <1>2, InductionSet
  <1>4. Cardinality(S) \in Sizes
    BY <1>3, FS_CardinalityType
  <1>5. QED
    BY <1>4 DEF Sizes
===============================================================================
