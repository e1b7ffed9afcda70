---------------------------- MODULE NumberLemmas ----------------------------
(***************************************************************************)
(* The least and the greatest of a set of numbers, which is what the loops  *)
(* that look for the first or the last entry of a table find.               *)
(***************************************************************************)
EXTENDS Integers, WellFoundedInduction, TLAPS

(* Any set of natural numbers that is not empty has a least element.        *)
LEMMA LeastNatural ==
    ASSUME NEW T, T \subseteq Nat, T # {}
    PROVE  \E x \in T : \A y \in T : x <= y
<1> DEFINE R == OpToRel(<, Nat)
<1>1. IsWellFoundedOn(R, Nat)
  BY NatLessThanWellFounded
<1>2. PICK x \in T : \A y \in T : ~ (<<y, x>> \in R)
  BY <1>1, WFMin
<1>3. \A y \in Nat : y < x => <<y, x>> \in R
  BY <1>2 DEF OpToRel
<1>4. \A y \in T : ~(y < x)
  <2> HIDE DEF R
  <2> QED
    BY <1>2, <1>3
<1>5. \A y \in T : x <= y
  BY <1>4
<1> QED
  BY <1>5

(* One that has a bound has a greatest element.                             *)
LEMMA GreatestNatural ==
    ASSUME NEW n \in Nat, NEW T, T \subseteq 0..n, T # {}
    PROVE  \E x \in T : \A y \in T : x >= y
<1> DEFINE D == {n - y : y \in T}
<1>1. D \subseteq Nat /\ D # {}
  <2>1. \A y \in T : n - y \in Nat
    OBVIOUS
  <2> QED BY <2>1
<1>2. PICK d \in D : \A e \in D : d <= e
  <2> HIDE DEF D
  <2> QED BY <1>1, LeastNatural
<1>3. PICK x \in T : d = n - x
  OBVIOUS
<1>4. \A y \in T : n - x <= n - y
  BY <1>2, <1>3
<1> QED BY <1>4
=============================================================================
