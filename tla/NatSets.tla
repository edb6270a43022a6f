------------------------------ MODULE NatSets ------------------------------
(***************************************************************************)
(* Induction over the natural numbers, stated for sets so that it can be   *)
(* used where a theorem with a predicate as its parameter cannot.  The     *)
(* proofs about sums over the queue rest on it; the proofs about ids that  *)
(* go on from the greatest one in use rest on GreatestElement.             *)
(***************************************************************************)
EXTENDS Integers, FiniteSetTheorems, WellFoundedInduction, TLAPS

\* Every non-empty set of natural numbers has a least element.  The intervals
\* 1 .. k for the k of the set are finite sets, and strict inclusion of finite
\* sets is well founded.
LEMMA LeastElement ==
  ASSUME NEW S \in SUBSET Nat, S # {}
  PROVE  \E x \in S : \A y \in S : x <= y
<1> PICK m \in S : TRUE
  OBVIOUS
<1> DEFINE M == 1 .. m
           T == {1 .. k : k \in {j \in S : j <= m}}
<1>1. IsFiniteSet(M)
  BY FS_Interval
<1>2. IsWellFoundedOn(StrictSubsetOrdering(M), FiniteSubsetsOf(M))
  BY <1>1, FS_StrictSubsetOrderingWellFounded
<1>3. T \subseteq FiniteSubsetsOf(M) /\ T # {}
  <2>1. ASSUME NEW k \in S, k <= m PROVE 1 .. k \in SUBSET M
    BY <2>1
  <2>2. \A k \in S : k <= m => 1 .. k \in FiniteSubsetsOf(M)
    BY <2>1, <1>1, FS_FiniteSubsetsOfFinite
  <2>3. 1 .. m \in T
    OBVIOUS
  <2> QED BY <2>2, <2>3
<1> HIDE DEF T, M
<1>4. \E x \in T : \A y \in T : ~(<<y, x>> \in StrictSubsetOrdering(M))
  BY <1>2, <1>3, WFMin
<1> USE DEF T, M
<1>5. PICK x \in S : x <= m /\ \A k \in S : k <= m => <<1 .. k, 1 .. x>> \notin StrictSubsetOrdering(M)
  BY <1>4
<1>6. ASSUME NEW k \in S, k < x PROVE FALSE
  <2>1. 1 .. k \subseteq 1 .. x /\ 1 .. k # 1 .. x /\ x \in 1 .. x /\ x \notin 1 .. k
    BY <1>6
  <2>2. <<1 .. k, 1 .. x>> \in StrictSubsetOrdering(M)
    <3>1. 1 .. x \in SUBSET M /\ 1 .. k \in SUBSET M
      BY <1>5, <2>1
    <3>2. <<1 .. k, 1 .. x>> \in (SUBSET M) \X (SUBSET M)
      BY <3>1
    <3> HIDE DEF M, T
    <3> QED BY <3>2, <2>1 DEF StrictSubsetOrdering
  <2> QED BY <2>2, <1>5, <1>6
<1> QED BY <1>6

\* A non-empty set of natural numbers with a bound has a greatest element: the least of
\* its bounds.
LEMMA GreatestElement ==
  ASSUME NEW S \in SUBSET Nat, S # {}, NEW n \in Nat, \A y \in S : y <= n
  PROVE  \E x \in S : \A y \in S : y <= x
<1> DEFINE B == {k \in Nat : \A y \in S : y <= k}
<1>1. PICK b \in B : \A k \in B : b <= k
  <2>1. B \in SUBSET Nat /\ n \in B
    OBVIOUS
  <2> HIDE DEF B
  <2> QED BY <2>1, LeastElement
<1>2. CASE b \in S
  BY <1>2
<1>3. CASE b \notin S
  <2>1. \A y \in S : y <= b - 1
    BY <1>3
  <2>2. b - 1 \in Nat
    <3>1. PICK y \in S : TRUE
      OBVIOUS
    <3> QED BY <2>1, <3>1
  <2> QED BY <1>1, <2>1, <2>2
<1> QED BY <1>2, <1>3

\* Induction over the naturals, for a set instead of a predicate.
LEMMA SetInduction ==
  ASSUME NEW S \in SUBSET Nat, 0 \in S, \A n \in S : n + 1 \in S
  PROVE  S = Nat
<1> SUFFICES ASSUME Nat \ S # {} PROVE FALSE
  OBVIOUS
<1>1. PICK x \in Nat \ S : \A y \in Nat \ S : x <= y
  BY LeastElement
<1>2. x # 0 /\ x - 1 \in Nat
  BY <1>1
<1>3. x - 1 \in S
  BY <1>1, <1>2
<1> QED BY <1>3, <1>1

\* A sequence of naturals s has a function of its partial sums, up to any k.
LEMMA PartialSums ==
  ASSUME NEW s \in [Nat -> Nat]
  PROVE  \A k \in Nat : \E f \in [Nat -> Nat] :
           f[0] = 0 /\ \A n \in Nat : n < k => f[n + 1] = f[n] + s[n + 1]
<1> DEFINE Solves(f, k) == f[0] = 0 /\ \A n \in Nat : n < k => f[n + 1] = f[n] + s[n + 1]
           K == {k \in Nat : \E f \in [Nat -> Nat] : Solves(f, k)}
<1>1. 0 \in K
  <2>1. [n \in Nat |-> 0] \in [Nat -> Nat] /\ Solves([n \in Nat |-> 0], 0)
    OBVIOUS
  <2> QED BY <2>1
<1>2. ASSUME NEW k \in K PROVE k + 1 \in K
  <2>0. k \in Nat
    OBVIOUS
  <2>1. PICK f \in [Nat -> Nat] : Solves(f, k)
    OBVIOUS
  <2> DEFINE g == [f EXCEPT ![k + 1] = f[k] + s[k + 1]]
  <2>2. g \in [Nat -> Nat]
    BY <2>0
  <2>3. \A n \in Nat : g[n] = IF n = k + 1 THEN f[k] + s[k + 1] ELSE f[n]
    BY <2>0
  <2> HIDE DEF g, K
  <2>4. g[0] = 0
    BY <2>0, <2>1, <2>3
  <2>5. ASSUME NEW n \in Nat, n < k + 1 PROVE g[n + 1] = g[n] + s[n + 1]
    <3>1. g[n] = f[n]
      BY <2>0, <2>3, <2>5
    <3>2. CASE n < k
      BY <2>0, <2>1, <2>3, <3>1, <3>2
    <3>3. CASE n = k
      BY <2>0, <2>3, <3>1, <3>3
    <3> QED BY <2>0, <2>5, <3>2, <3>3
  <2>6. Solves(g, k + 1)
    BY <2>4, <2>5
  <2>7. k + 1 \in Nat
    BY <2>0
  <2> HIDE DEF Solves
  <2> QED BY <2>2, <2>6, <2>7, Zenon DEF K
<1> HIDE DEF Solves
<1>3. K \in SUBSET Nat
  BY DEF K
<1> HIDE DEF K
<1>4. K = Nat
  BY <1>1, <1>2, <1>3, SetInduction
<1>5. \A k \in Nat : \E f \in [Nat -> Nat] : Solves(f, k)
  BY <1>4, Zenon DEF K
<1> QED BY <1>5 DEF Solves
=============================================================================
