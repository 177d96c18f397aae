---------------------------- MODULE NumberLemmas ----------------------------
(***************************************************************************)
(* Induction up to a number, as a fact about a set of numbers: a set is a  *)
(* value, which a proof can instantiate where the induction theorems of    *)
(* the library take an operator.                                           *)
(***************************************************************************)
EXTENDS Integers, FiniteSetTheorems, TLAPS

\* A set of naturals that is not empty has a least element.
LEMMA LeastNumber ==
  ASSUME NEW T \in SUBSET Nat, T # {}
  PROVE  \E n \in T : \A m \in T : n <= m
<1> DEFINE intervals == {1..n : n \in T}
<1>1. intervals \subseteq FiniteSubsetsOf(Nat)
  <2> SUFFICES ASSUME NEW n \in T PROVE 1..n \in FiniteSubsetsOf(Nat)
    OBVIOUS
  <2>1. IsFiniteSet(1..n)
    BY FS_Interval
  <2>2. 1..n \in SUBSET Nat
    OBVIOUS
  <2> QED BY <2>1, <2>2 DEF FiniteSubsetsOf
<1>2. intervals # {}
  OBVIOUS
<1>3. PICK I \in intervals : \A J \in intervals : ~ (<<J, I>> \in StrictSubsetOrdering(Nat))
  <2> HIDE DEF intervals
  <2> QED BY <1>1, <1>2, WFMin, FS_StrictSubsetOrderingWellFounded
<1>4. PICK n \in T : I = 1..n
  BY <1>3
<1>5. \A m \in T : n <= m
  <2> SUFFICES ASSUME NEW m \in T, m < n PROVE FALSE
    OBVIOUS
  <2>1. 1..m \in intervals
    OBVIOUS
  <2>2. 1..m \subseteq 1..n /\ n \in 1..n /\ n \notin 1..m
    OBVIOUS
  <2>3. <<1..m, 1..n>> \in StrictSubsetOrdering(Nat)
    BY <2>2 DEF StrictSubsetOrdering
  <2> QED BY <1>3, <1>4, <2>1, <2>3
<1> QED BY <1>5

\* What holds of 0, and of a number up to b with its predecessor, holds up to b.
LEMMA UpTo ==
  ASSUME NEW b \in Nat, NEW H \in SUBSET Nat, 0 \in H,
         \A n \in 1..b : n - 1 \in H => n \in H
  PROVE  0..b \subseteq H
<1> DEFINE T == {n \in 0..b : n \notin H}
<1> SUFFICES ASSUME T # {} PROVE FALSE
  OBVIOUS
<1>1. T \in SUBSET Nat
  OBVIOUS
<1>2. \E n \in T : \A m \in T : n <= m
  <2> HIDE DEF T
  <2> QED BY <1>1, LeastNumber
<1>3. PICK n \in 0..b : n \notin H /\ \A m \in 0..b : m \notin H => n <= m
  BY <1>2
<1>4. n \in 1..b /\ n - 1 \in 0..b /\ ~(n <= n - 1)
  BY <1>3
<1> QED BY <1>3, <1>4
=============================================================================
