----------------------------- MODULE LeastNumber -----------------------------
(***************************************************************************)
(* Induction without an operator as a parameter: a set of numbers that is  *)
(* not empty has a least one.  A property P is proved for all numbers by   *)
(* taking the set of those for which it fails.                             *)
(***************************************************************************)
EXTENDS Integers, FiniteSetTheorems, TLAPS

(* By the order of the intervals 1 .. n, which are finite sets.            *)
LEMMA LeastNat ==
  ASSUME NEW T, T \subseteq Nat, T # {}
  PROVE  \E n \in T : \A m \in T : n <= m
<1> DEFINE U == {1 .. n : n \in T}
           R == StrictSubsetOrdering(Nat)
           F == FiniteSubsetsOf(Nat)
<1>1. IsWellFoundedOn(R, F)
  BY FS_StrictSubsetOrderingWellFounded
<1>2. U \subseteq F
  <2> SUFFICES ASSUME NEW n \in T PROVE 1 .. n \in F
    OBVIOUS
  <2>1. n \in Nat /\ 1 .. n \in SUBSET Nat
    OBVIOUS
  <2>2. IsFiniteSet(1 .. n)
    BY <2>1, FS_Interval
  <2> QED
    BY <2>1, <2>2 DEF FiniteSubsetsOf
<1>3. U # {}
  OBVIOUS
<1> HIDE DEF U, R, F
<1>4. PICK x \in U : \A y \in U : ~(<<y, x>> \in R)
  BY <1>1, <1>2, <1>3, WFMin
<1>5. PICK n \in T : x = 1 .. n
  BY DEF U
<1>6. ASSUME NEW m \in T PROVE n <= m
  <2>1. n \in Nat /\ m \in Nat /\ 1 .. m \in U
    BY DEF U
  <2>2. SUFFICES ASSUME m < n PROVE FALSE
    BY <2>1
  <2>3. 1 .. m \subseteq 1 .. n /\ 1 .. m # 1 .. n
    <3>1. n \in 1 .. n /\ n \notin 1 .. m
      BY <2>1, <2>2
    <3> QED
      BY <2>1, <2>2, <3>1
  <2>4. <<1 .. m, 1 .. n>> \in R
    <3>1. 1 .. m \in SUBSET Nat /\ 1 .. n \in SUBSET Nat
      BY <2>1
    <3> QED
      BY <2>3, <3>1 DEF R, StrictSubsetOrdering
  <2> QED
    BY <1>4, <1>5, <2>1, <2>4
<1> QED
  BY <1>6

=============================================================================
