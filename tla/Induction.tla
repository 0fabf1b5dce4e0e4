----------------------------- MODULE Induction -----------------------------
(***************************************************************************)
(* Induction without a predicate for a parameter, which the provers cannot *)
(* instantiate: over the members of a set instead.                         *)
(***************************************************************************)
EXTENDS Integers, FiniteSets, FiniteSetTheorems, WellFoundedInduction, TLAPS

(***************************************************************************)
(* A finite set of integers that is not empty has a least element, the one *)
(* whose set of smaller elements has no strict subset among such sets.     *)
(***************************************************************************)
LEMMA LeastElement ==
  ASSUME NEW R, R \subseteq Int, IsFiniteSet(R), R # {}
  PROVE  \E id \in R : \A other \in R : id <= other
<1>. DEFINE Below(x) == {y \in R : y < x}
            Sets == {Below(x) : x \in R}
<1>1. Sets # {} /\ Sets \subseteq FiniteSubsetsOf(R)
  <2>1. ASSUME NEW x \in R PROVE Below(x) \in FiniteSubsetsOf(R)
    <3>1. Below(x) \in SUBSET R
      OBVIOUS
    <3>2. IsFiniteSet(Below(x))
      <4>. HIDE DEF Below
      <4>. QED  BY <3>1, FS_Subset
    <3>. QED  BY <3>1, <3>2 DEF FiniteSubsetsOf
  <2>. QED  BY <2>1
<1>2. PICK U \in Sets : \A V \in Sets : <<V, U>> \notin StrictSubsetOrdering(R)
  <2>1. IsWellFoundedOn(StrictSubsetOrdering(R), FiniteSubsetsOf(R))
    BY FS_StrictSubsetOrderingWellFounded
  <2>. HIDE DEF Sets
  <2>2. \E U \in Sets : \A V \in Sets : ~ (<<V, U>> \in StrictSubsetOrdering(R))
    BY <1>1, <2>1, WFMin
  <2>. QED  BY <2>2
<1>3. PICK id \in R : U = Below(id)
  OBVIOUS
<1>4. ASSUME NEW other \in R, other < id PROVE FALSE
  <2>. other \in Int /\ id \in Int
    OBVIOUS
  <2>1. Below(other) \subseteq Below(id)
    <3>1. ASSUME NEW y \in R, y < other PROVE y < id
      BY <1>4, <3>1
    <3>. QED  BY <3>1
  <2>2. other \in Below(id) /\ other \notin Below(other)
    BY <1>4
  <2>3. <<Below(other), Below(id)>> \in StrictSubsetOrdering(R)
    BY <2>1, <2>2 DEF StrictSubsetOrdering
  <2>. QED  BY <1>2, <1>3, <2>3
<1>. QED  BY <1>4

(***************************************************************************)
(* A set that has 0, and with each number below n the next one, has all    *)
(* numbers up to n: there is no least one it has not.                      *)
(***************************************************************************)
LEMMA UpTo ==
  ASSUME NEW n \in Nat, NEW S, 0 \in S, \A k \in 0..n - 1 : k \in S => k + 1 \in S
  PROVE  0..n \subseteq S
<1>. DEFINE R == (0..n) \ S
<1>1. R \subseteq Int /\ IsFiniteSet(R)
  <2>1. IsFiniteSet(0..n)
    BY FS_Interval
  <2>. QED  BY <2>1, FS_Subset
<1>2. SUFFICES ASSUME R # {} PROVE FALSE
  OBVIOUS
<1>3. PICK least \in R : \A other \in R : least <= other
  <2>. HIDE DEF R
  <2>. QED  BY <1>1, <1>2, LeastElement
<1>4. least \in 1..n
  OBVIOUS
<1>5. least - 1 \in 0..n - 1 /\ least - 1 \notin R
  BY <1>3, <1>4
<1>6. least \in S
  BY <1>4, <1>5
<1>. QED  BY <1>6
=============================================================================
