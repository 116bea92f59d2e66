----------------------------- MODULE SetLemmas -----------------------------
(***************************************************************************)
(* Facts about sets that the proofs of several modules need.               *)
(***************************************************************************)
EXTENDS Integers, FiniteSets, FiniteSetTheorems, WellFoundedInduction, TLAPS

\* A finite set that gains at most one element, or loses one.
LEMMA OneMore ==
  ASSUME NEW S, IsFiniteSet(S), NEW T, NEW x, T \subseteq S \cup {x}
  PROVE  /\ IsFiniteSet(T) /\ Cardinality(S) \in Nat /\ Cardinality(T) \in Nat
         /\ Cardinality(T) <= Cardinality(S) + 1
         /\ T \subseteq S => Cardinality(T) <= Cardinality(S)
         /\ x \in S /\ T \subseteq S \ {x} => Cardinality(T) <= Cardinality(S) - 1
<1>1. Cardinality(S) \in Nat
  BY FS_CardinalityType
<1>2. /\ IsFiniteSet(S \cup {x})
      /\ Cardinality(S \cup {x}) = IF x \in S THEN Cardinality(S) ELSE Cardinality(S) + 1
  BY FS_AddElement
<1>3. IsFiniteSet(T) /\ Cardinality(T) <= Cardinality(S \cup {x})
  BY <1>2, FS_Subset
<1>4. Cardinality(T) \in Nat
  BY <1>3, FS_CardinalityType
<1>5. Cardinality(T) <= Cardinality(S) + 1
  BY <1>1, <1>2, <1>3, <1>4
<1>6. T \subseteq S => Cardinality(T) <= Cardinality(S)
  BY FS_Subset
<1>7. ASSUME x \in S, T \subseteq S \ {x}  PROVE  Cardinality(T) <= Cardinality(S) - 1
  <2>1. IsFiniteSet(S \ {x}) /\ Cardinality(S \ {x}) = Cardinality(S) - 1
    BY <1>7, FS_RemoveElement
  <2> QED
    BY <1>7, <2>1, FS_Subset
<1> QED
  BY <1>1, <1>3, <1>4, <1>5, <1>6, <1>7

\* A set of natural numbers that is not empty has a first element.
LEMMA Least ==
  ASSUME NEW S, S \subseteq Nat, S # {}
  PROVE  \E x \in S : \A y \in S : x <= y
<1>1. PICK x \in S : \A y \in S : ~(<<y, x>> \in OpToRel(<, Nat))
  BY NatLessThanWellFounded, WFMin
<1>2. \A y \in S : ~(y < x)
  BY <1>1 DEF OpToRel
<1> QED
  BY <1>2

\* A finite set of integers that is not empty has a last element: one that
\* is alone in a smallest subset without which the set has no bound.
LEMMA Greatest ==
  ASSUME NEW S, IsFiniteSet(S), S \subseteq Int, S # {}
  PROVE  \E x \in S : \A y \in S : y <= x
<1> DEFINE Dominating == {U \in SUBSET S : \A y \in S : \E x \in U : y <= x}
           Sizes == {Cardinality(U) : U \in Dominating}
<1>1. \A U \in Dominating : IsFiniteSet(U) /\ Cardinality(U) \in Nat
  BY FS_Subset, FS_CardinalityType
<1>2. S \in Dominating
  OBVIOUS
<1>3. Sizes \subseteq Nat /\ Sizes # {}
  BY <1>1, <1>2
<1>4. PICK n \in Sizes : \A m \in Sizes : n <= m
  BY <1>3, Least
<1>5. PICK U \in Dominating : Cardinality(U) = n
  BY <1>4
<1>6. PICK x \in U : TRUE
  BY <1>2, <1>5
<1>7. \A y \in U : y <= x
  <2> SUFFICES ASSUME NEW y \in U, ~(y <= x)  PROVE FALSE
    OBVIOUS
  <2>1. U \ {x} \in Dominating
    <3> SUFFICES ASSUME NEW z \in S  PROVE \E u \in U \ {x} : z <= u
      BY <1>5
    <3>1. PICK u \in U : z <= u
      BY <1>5
    <3>2. CASE u = x
      <4>1. z <= y /\ y # x
        BY <1>5, <3>1, <3>2
      <4> QED
        BY <4>1
    <3> QED
      BY <3>1, <3>2
  <2>2. Cardinality(U \ {x}) = n - 1 /\ n \in Nat
    BY <1>1, <1>5, FS_RemoveElement
  <2>3. n - 1 \in Sizes
    BY <2>1, <2>2
  <2>4. n <= n - 1
    BY <1>4, <2>3
  <2> QED
    BY <2>2, <2>4
<1>8. \A y \in S : y <= x
  <2> SUFFICES ASSUME NEW y \in S  PROVE y <= x
    OBVIOUS
  <2>1. PICK u \in U : y <= u
    BY <1>5
  <2>2. u <= x /\ u \in Int /\ x \in Int /\ y \in Int
    BY <1>5, <1>7, <2>1
  <2> QED
    BY <2>1, <2>2
<1> QED
  BY <1>5, <1>8

=============================================================================
