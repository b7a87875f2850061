---------------------------- MODULE OrderLemmas -----------------------------
(***************************************************************************)
(* Facts about the order of the naturals that the models' choices rest    *)
(* on: a CHOOSE of the least or of the greatest element of a non-empty    *)
(* set of indices (the first node with a role, the last matching profile) *)
(* picks an element of the set.                                           *)
(***************************************************************************)
EXTENDS Naturals, WellFoundedInduction, TLAPS

\* The order < of the naturals, as a relation.
NatLess == {ss \in Nat \X Nat : ss[1] < ss[2]}

LEMMA NatLessWellFounded == IsWellFoundedOn(NatLess, Nat)
BY NatLessThanWellFounded, Zenon DEF OpToRel, NatLess

\* A non-empty set of naturals has a least element.
LEMMA NatMinExists ==
    ASSUME NEW S \in SUBSET Nat, S # {}
    PROVE  \E x \in S : \A y \in S : x <= y
<1>1. PICK x \in S : \A y \in S : ~(<<y, x>> \in NatLess)
  BY NatLessWellFounded, WFMin
<1>2. ASSUME NEW y \in S PROVE x <= y
  <2>1. <<y, x>> \in Nat \X Nat
    OBVIOUS
  <2>2. ~(y < x)
    BY <1>1, <2>1 DEF NatLess
  <2>. QED
    BY <2>2
<1>. QED
  BY <1>2

\* A non-empty set of naturals below a bound has a greatest element.
LEMMA NatMaxExists ==
    ASSUME NEW n \in Nat, NEW S \in SUBSET (0..n), S # {}
    PROVE  \E x \in S : \A y \in S : y <= x
<1> DEFINE T == {n - j : j \in S}
<1>1. \A j \in S : j \in 0..n /\ n - j \in Nat
  OBVIOUS
<1>2. T \in SUBSET Nat /\ T # {}
  BY <1>1
<1>3. PICK m \in T : \A t \in T : m <= t
  BY <1>2, NatMinExists
<1>4. PICK x \in S : m = n - x
  OBVIOUS
<1>5. ASSUME NEW y \in S PROVE y <= x
  <2>1. n - y \in T
    OBVIOUS
  <2>2. n - x <= n - y
    BY <1>3, <1>4, <2>1
  <2>. QED
    BY <1>1, <2>2
<1>. QED
  BY <1>5

=============================================================================
