------------------------------ MODULE Ordinals ------------------------------
(***************************************************************************)
(* Facts about sets of natural numbers that the proofs of several modules  *)
(* need.  They are first-order consequences of the well-foundedness of the *)
(* subset ordering on finite sets: the prefixes 1 .. n stand for the       *)
(* numbers n.                                                              *)
(***************************************************************************)
EXTENDS Integers, FiniteSetTheorems, WellFoundedInduction, TLAPS

\* A set of natural numbers that is not empty has a least element.
LEMMA LeastElement ==
  ASSUME NEW S \in SUBSET Nat, S # {}
  PROVE  \E m \in S : \A k \in S : m <= k
<1> DEFINE R == StrictSubsetOrdering(Nat)
           Prefixes == {1 .. n : n \in S}
<1>1. IsWellFoundedOn(R, FiniteSubsetsOf(Nat))
  BY FS_StrictSubsetOrderingWellFounded
<1>2. Prefixes \subseteq FiniteSubsetsOf(Nat)
  BY FS_Interval DEF FiniteSubsetsOf
<1>3. Prefixes # {}
  OBVIOUS
<1>4. PICK U \in Prefixes : \A V \in Prefixes : ~ (<<V, U>> \in R)
  <2> HIDE DEF Prefixes, R
  <2> QED BY <1>1, <1>2, <1>3, WFMin
<1>5. PICK m \in S : U = 1 .. m
  BY <1>4
<1>6. ASSUME NEW k \in S, k < m
      PROVE  FALSE
  <2>1. 1 .. k \in Prefixes /\ 1 .. k \subseteq 1 .. m
    BY <1>6
  <2>2. m \in 1 .. m /\ m \notin 1 .. k
    BY <1>6
  <2>3. <<1 .. k, U>> \in R
    BY <2>1, <2>2, <1>5 DEF StrictSubsetOrdering
  <2> QED BY <2>1, <2>3, <1>4
<1> QED BY <1>6

\* Induction, for a property given as the set of the numbers that have it.
LEMMA Induction ==
  ASSUME NEW S, 0 \in S, \A n \in Nat : n \in S => n + 1 \in S
  PROVE  Nat \subseteq S
<1> SUFFICES ASSUME Nat \ S # {}
             PROVE  FALSE
  OBVIOUS
<1>1. PICK m \in Nat \ S : \A k \in Nat \ S : m <= k
  BY LeastElement
<1>2. m - 1 \in Nat /\ m - 1 \in S
  BY <1>1
<1> QED BY <1>1, <1>2

\* A set of natural numbers with a bound that is not empty has a greatest element.
LEMMA GreatestElement ==
  ASSUME NEW S \in SUBSET Nat, S # {}, NEW bound \in Nat, \A n \in S : n <= bound
  PROVE  \E m \in S : \A k \in S : k <= m
<1> DEFINE Bounds == {b \in Nat : \A n \in S : n <= b}
<1>1. PICK b \in Bounds : \A c \in Bounds : b <= c
  BY LeastElement
<1>2. ASSUME b \notin S
      PROVE  FALSE
  <2>1. \A n \in S : n <= b - 1
    BY <1>1, <1>2
  <2>2. b - 1 \in Nat
    <3>1. PICK n \in S : n <= b - 1
      BY <2>1
    <3> QED BY <3>1
  <2> QED BY <1>1, <2>1, <2>2
<1> QED BY <1>1, <1>2
=============================================================================
