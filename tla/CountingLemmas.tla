---------------------------- MODULE CountingLemmas ---------------------------
(***************************************************************************)
(* Lemmas on numbers and finite sums that the proofs share: the least      *)
(* number principle, the form in which this project uses induction, and    *)
(* sums of a function over a finite set, written as the number of the      *)
(* pairs <<p, i>> with i up to the value at p.                             *)
(***************************************************************************)
EXTENDS Integers, FiniteSetTheorems, WellFoundedInduction, TLAPS

LEMMA Least ==
    ASSUME NEW T \in SUBSET Nat, T # {}
    PROVE  \E x \in T : \A y \in T : x <= y
<1> DEFINE Below == {ss \in Nat \X Nat : ss[1] < ss[2]}
<1>1. IsWellFoundedOn(Below, Nat)
  BY NatLessThanWellFounded DEF OpToRel
<1>2. \E x \in T : \A y \in T : ~(<<y, x>> \in Below)
  <2> HIDE DEF Below
  <2>1. QED
    BY <1>1, WFMin
<1>3. PICK x \in T : \A y \in T : ~(<<y, x>> \in Below)
  BY <1>2
<1>4. ASSUME NEW y \in T PROVE x <= y
  <2>1. x \in Nat /\ y \in Nat
    OBVIOUS
  <2>2. ~(y < x)
    BY <1>3, <2>1
  <2>3. QED
    BY <2>1, <2>2
<1>5. QED
  BY <1>4

\* A statement about the numbers up to n that holds at 0 and is passed on, given
\* as the set of the numbers it holds for.
LEMMA Climb ==
    ASSUME NEW n \in Nat, NEW S, 0 \in S,
           \A k \in 0..(n - 1) : k \in S => k + 1 \in S
    PROVE  \A k \in 0..n : k \in S
<1> DEFINE T == {k \in 0..n : k \notin S}
<1> SUFFICES ASSUME T # {} PROVE FALSE
  OBVIOUS
<1>1. T \in SUBSET Nat
  OBVIOUS
<1>2. PICK k \in T : \A j \in T : k <= j
  BY <1>1, Least
<1>3. k \in 1..n /\ k \notin S
  OBVIOUS
<1>4. k - 1 \in 0..(n - 1) /\ k - 1 \notin T /\ (k - 1) + 1 = k
  BY <1>2, <1>3
<1>5. QED
  BY <1>3, <1>4

-----------------------------------------------------------------------------
(* Sums.                                                                   *)

\* Each member of S as often as F says.
Weighted(S, F) == UNION {{p} \X (1..F[p]) : p \in S}

Weight(S, F) == Cardinality(Weighted(S, F))

LEMMA WeightedFinite ==
    ASSUME NEW P, NEW F \in [P -> Nat], NEW S \in SUBSET P, IsFiniteSet(S)
    PROVE  IsFiniteSet(Weighted(S, F)) /\ Weight(S, F) \in Nat
<1> DEFINE Column(p) == {p} \X (1..F[p])
           columns   == {Column(p) : p \in S}
           f         == [p \in S |-> Column(p)]
<1>1. f \in Surjection(S, columns)
  BY DEF Surjection
<1>2. IsFiniteSet(columns)
  BY <1>1, FS_Surjection
<1>3. \A T \in columns : IsFiniteSet(T)
  <2> SUFFICES ASSUME NEW p \in S PROVE IsFiniteSet({p} \X (1..F[p]))
    OBVIOUS
  <2>1. F[p] \in Int
    OBVIOUS
  <2>2. IsFiniteSet(1..F[p])
    BY <2>1, FS_Interval
  <2>3. IsFiniteSet({p})
    BY FS_Singleton
  <2>4. QED
    BY <2>2, <2>3, FS_Product
<1>4. IsFiniteSet(UNION columns)
  <2> HIDE DEF columns
  <2> QED BY <1>2, <1>3, FS_UNION
<1>5. Weighted(S, F) = UNION columns
  BY DEF Weighted
<1>6. QED
  BY <1>4, <1>5, FS_CardinalityType DEF Weight

LEMMA WeightEmpty ==
    ASSUME NEW F
    PROVE  Weight({}, F) = 0
BY FS_EmptySet DEF Weight, Weighted

LEMMA WeightAdd ==
    ASSUME NEW P, NEW F \in [P -> Nat], NEW S \in SUBSET P, IsFiniteSet(S),
           NEW p \in P, p \notin S
    PROVE  Weight(S \cup {p}, F) = Weight(S, F) + F[p]
<1> DEFINE C == {p} \X (1..F[p])
<1>1. Weighted(S \cup {p}, F) = Weighted(S, F) \cup C
  BY DEF Weighted
<1>2. Weighted(S, F) \cap C = {}
  BY DEF Weighted
<1>3. IsFiniteSet(Weighted(S, F)) /\ Weight(S, F) \in Nat
  BY WeightedFinite
<1>4. IsFiniteSet(C) /\ Cardinality(C) = F[p]
  <2>1. F[p] \in Nat
    OBVIOUS
  <2>2. IsFiniteSet(1..F[p]) /\ Cardinality(1..F[p]) = F[p]
    BY <2>1, FS_Interval
  <2>3. IsFiniteSet({p}) /\ Cardinality({p}) = 1
    BY FS_Singleton
  <2>4. IsFiniteSet(C) /\ Cardinality(C) = Cardinality({p}) * Cardinality(1..F[p])
    BY <2>2, <2>3, FS_Product
  <2>5. QED
    BY <2>1, <2>2, <2>3, <2>4
<1>5. Cardinality(Weighted(S, F) \cup C) = Weight(S, F) + F[p]
  <2> DEFINE A == Weighted(S, F)
  <2>1. IsFiniteSet(A) /\ Cardinality(A) \in Nat /\ A \cap C = {}
    BY <1>2, <1>3 DEF Weight
  <2> HIDE DEF A, C
  <2>2. Cardinality(A \cup C) = Cardinality(A) + Cardinality(C) - Cardinality(A \cap C)
    BY <1>4, <2>1, FS_Union
  <2>3. Cardinality(A \cap C) = 0
    BY <2>1, FS_EmptySet
  <2>4. QED
    BY <1>4, <2>1, <2>2, <2>3 DEF A, Weight
<1>6. QED
  BY <1>1, <1>5 DEF Weight

LEMMA WeightRemove ==
    ASSUME NEW P, NEW F \in [P -> Nat], NEW S \in SUBSET P, IsFiniteSet(S), NEW p \in S
    PROVE  /\ Weight(S \ {p}, F) = Weight(S, F) - F[p]
           /\ F[p] <= Weight(S, F) /\ F[p] \in Nat /\ Weight(S \ {p}, F) \in Nat
<1> DEFINE T == S \ {p}
<1>1. T \in SUBSET P /\ IsFiniteSet(T) /\ p \notin T /\ S = T \cup {p} /\ F[p] \in Nat
  BY FS_Subset
<1> HIDE DEF T
<1>2. Weight(T \cup {p}, F) = Weight(T, F) + F[p]
  BY <1>1, WeightAdd
<1>3. Weight(T, F) \in Nat
  BY <1>1, WeightedFinite
<1>4. Weight(S, F) = Weight(T, F) + F[p]
  BY <1>1, <1>2
<1>5. Weight(T, F) = Weight(S, F) - F[p] /\ F[p] <= Weight(S, F)
  BY <1>1, <1>3, <1>4
<1>6. QED
  BY <1>1, <1>3, <1>5 DEF T
=============================================================================
