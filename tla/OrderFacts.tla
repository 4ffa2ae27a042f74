------------------------------ MODULE OrderFacts ------------------------------
(***************************************************************************)
(* Least and greatest elements of sets of naturals, for the proofs.        *)
(***************************************************************************)
EXTENDS Integers, FiniteSets, FiniteSetTheorems, TLAPS

(* A nonempty set of naturals has a least element.                         *)
LEMMA LeastOfNats ==
  ASSUME NEW S \in SUBSET Nat, S # {}
  PROVE  \E x \in S : \A y \in S : x <= y
<1> DEFINE R == OpToRel(<, Nat)
<1>1. IsWellFoundedOn(R, Nat)
  BY NatLessThanWellFounded
<1>2. \E x \in S : \A y \in S : ~ (<<y, x>> \in R)
  <2> HIDE DEF R
  <2> QED BY <1>1, WFMin
<1>3. \A x, y \in Nat : y < x => <<y, x>> \in R
  BY DEF OpToRel
<1> HIDE DEF R
<1>4. PICK x \in S : \A y \in S : ~ (<<y, x>> \in R)
  BY <1>2
<1>5. ASSUME NEW y \in S PROVE x <= y
  <2>1. x \in Nat /\ y \in Nat
    OBVIOUS
  <2>2. ~ (y < x)
    BY <1>3, <1>4, <2>1
  <2> QED BY <2>1, <2>2
<1> QED BY <1>5

(* A nonempty bounded set of naturals has a greatest element.              *)
LEMMA GreatestOfNats ==
  ASSUME NEW S \in SUBSET Nat, S # {}, NEW n \in Nat, \A s \in S : s < n
  PROVE  \E x \in S : \A y \in S : y <= x
<1> DEFINE U == {b \in Nat : \A s \in S : s <= b}
<1>1. n \in U
  OBVIOUS
<1>2. PICK b \in U : \A c \in U : b <= c
  BY <1>1, LeastOfNats
<1>3. b \in S
  <2> SUFFICES ASSUME b \notin S PROVE FALSE
    OBVIOUS
  <2>1. PICK s \in S : TRUE
    OBVIOUS
  <2>2. b - 1 \in U
    BY <1>2, <2>1
  <2> QED BY <1>2, <2>2
<1> QED BY <1>2, <1>3

(* A finite nonempty set of naturals has a greatest element: a smallest    *)
(* set without one would have one after an element is taken out of it.     *)
LEMMA GreatestOfFinite ==
  ASSUME NEW S \in SUBSET Nat, IsFiniteSet(S), S # {}
  PROVE  \E x \in S : \A y \in S : y <= x
<1> DEFINE Bad == {T \in SUBSET S : T # {} /\ \A x \in T : \E y \in T : x < y}
<1> DEFINE Sizes == {Cardinality(T) : T \in Bad}
<1>1. SUFFICES ASSUME S \in Bad PROVE FALSE
  OBVIOUS
<1>2. \A T \in Bad : IsFiniteSet(T) /\ Cardinality(T) \in Nat
  BY FS_Subset, FS_CardinalityType
<1>3. PICK T \in Bad : \A U \in Bad : Cardinality(T) <= Cardinality(U)
  <2>1. Sizes \in SUBSET Nat /\ Sizes # {}
    BY <1>1, <1>2
  <2>2. PICK m \in Sizes : \A n \in Sizes : m <= n
    <3> HIDE DEF Sizes
    <3> QED BY <2>1, LeastOfNats
  <2> QED BY <2>2
<1>4. PICK x \in T : TRUE
  OBVIOUS
<1>5. T \ {x} \notin Bad
  <2>1. Cardinality(T \ {x}) = Cardinality(T) - 1 /\ Cardinality(T) \in Nat
    BY <1>2, <1>4, FS_RemoveElement
  <2> HIDE DEF Bad
  <2>2. ASSUME T \ {x} \in Bad PROVE FALSE
    BY <1>3, <2>1, <2>2
  <2> QED BY <2>2
<1>6. T \subseteq S /\ \A u \in T : \E y \in T : u < y
  OBVIOUS
<1>7. PICK z \in T : x < z
  BY <1>4, <1>6
<1>8. T \ {x} # {}
  BY <1>4, <1>6, <1>7
<1>9. PICK u \in T \ {x} : \A y \in T \ {x} : ~(u < y)
  BY <1>5, <1>6, <1>8
<1>10. u < x
  BY <1>6, <1>9
<1> QED BY <1>4, <1>6, <1>7, <1>9, <1>10
=============================================================================
