------------------------------ MODULE MinProofs ------------------------------
(***************************************************************************)
(* The least element of a set of naturals, which the models take with Min   *)
(* of FiniteSetsExt, and the larger and smaller one of two.                 *)
(***************************************************************************)
EXTENDS FiniteSetsExt, WellFoundedInduction, TLAPS

\* A set of naturals that is not empty has a least element.
LEMMA LeastNatural ==
  ASSUME NEW S \in SUBSET Nat, S # {}
  PROVE  \E m \in S : \A n \in S : m <= n
  <1> DEFINE R == {p \in Nat \X Nat : p[1] < p[2]}
  <1>1. IsWellFoundedOn(R, Nat)
    BY NatLessThanWellFounded, Zenon DEF OpToRel
  <1>2. \E m \in S : \A n \in S : <<n, m>> \notin R
    BY <1>1, WFMin
  <1>3. PICK m \in S : \A n \in S : <<n, m>> \notin R
    BY <1>2
  <1>4. ASSUME NEW n \in S PROVE m <= n
    <2>1. ~ (n < m)
      BY <1>3
    <2>2. m \in Nat /\ n \in Nat
      OBVIOUS
    <2> HIDE DEF R
    <2> QED
      BY <2>1, <2>2
  <1> QED
    BY <1>4

\* Min of FiniteSetsExt is that element.
LEMMA MinIsIn ==
  ASSUME NEW S \in SUBSET Nat, S # {}
  PROVE  Min(S) \in S /\ \A n \in S : Min(S) <= n
  <1>1. \E m \in S : \A n \in S : m <= n
    BY LeastNatural
  <1> QED
    BY <1>1, Zenon DEF Min

\* Of two naturals.
LEMMA MinOfTwo ==
  ASSUME NEW a \in Nat, NEW b \in Nat
  PROVE  Min({a, b}) = IF a <= b THEN a ELSE b
  <1>1. Min({a, b}) \in {a, b} /\ \A n \in {a, b} : Min({a, b}) <= n
    BY MinIsIn
  <1> DEFINE m == Min({a, b})
  <1> HIDE DEF m
  <1>2. (m = a \/ m = b) /\ m <= a /\ m <= b
    BY <1>1 DEF m
  <1>3. m = IF a <= b THEN a ELSE b
    BY <1>2
  <1> QED
    BY <1>3 DEF m

\* The greater of two numbers.
LEMMA MaxOfTwo ==
  ASSUME NEW a \in Nat, NEW b \in Nat
  PROVE  Max({a, b}) = IF a <= b THEN b ELSE a
  <1>1. \E x \in {a, b} : \A y \in {a, b} : x >= y
    BY a <= b \/ b <= a
  <1>2. Max({a, b}) \in {a, b} /\ \A y \in {a, b} : Max({a, b}) >= y
    BY <1>1, Zenon DEF Max
  <1> DEFINE m == Max({a, b})
  <1> HIDE DEF m
  <1>3. (m = a \/ m = b) /\ m >= a /\ m >= b
    BY <1>2 DEF m
  <1>4. m = IF a <= b THEN b ELSE a
    BY <1>3
  <1> QED
    BY <1>4 DEF m
=============================================================================
