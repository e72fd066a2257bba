------------------------------ MODULE Numbers ------------------------------
(***************************************************************************)
(* The least-number principle, which proofs about lists and about maps     *)
(* that fill up use in place of induction.  The library states it for an   *)
(* operator; here it is stated for a set, and follows from the fact that   *)
(* inclusion is well-founded on the subsets of a finite set.               *)
(***************************************************************************)
EXTENDS Integers, FiniteSetsExt, FiniteSetTheorems, WellFoundedInduction, TLAPS

\* Among subsets of a finite set one has none of the others inside.
LEMMA MinimalExists ==
    ASSUME NEW S, IsFiniteSet(S), NEW T, T \subseteq SUBSET S, T # {}
    PROVE  \E x \in T : \A y \in T : ~(y \subseteq x /\ y # x)
<1> DEFINE R == StrictSubsetOrdering(S)
<1>1. IsWellFoundedOn(R, FiniteSubsetsOf(S))
  BY FS_StrictSubsetOrderingWellFounded
<1>2. FiniteSubsetsOf(S) = SUBSET S
  BY FS_FiniteSubsetsOfFinite
<1>3. IsWellFoundedOn(R, SUBSET S)
  BY <1>1, <1>2
<1>4. \A x, y \in T : y \subseteq x /\ y # x => <<y, x>> \in R
  BY DEF StrictSubsetOrdering
<1> HIDE DEF R
<1>5. \E x \in T : \A y \in T : ~(<<y, x>> \in R)
  BY <1>3, WFMin
<1> QED
  BY <1>4, <1>5

\* A set of positive numbers that has a member has a least one.
LEMMA LeastExists ==
    ASSUME NEW n \in Nat, NEW K \in SUBSET (1..n), K # {}
    PROVE  \E m \in K : \A k \in K : m <= k
<1> DEFINE S == 1..n
           T == {1..k : k \in K}
<1>1. IsFiniteSet(S)
  BY FS_Interval
<1>2. T \subseteq SUBSET S
  <2>1. \A k \in K : 1..k \subseteq 1..n
    OBVIOUS
  <2> QED
    BY <2>1
<1>3. T # {}
  OBVIOUS
<1> HIDE DEF S, T
<1>4. PICK x \in T : \A y \in T : ~(y \subseteq x /\ y # x)
  BY <1>1, <1>2, <1>3, MinimalExists
<1>5. PICK m \in K : \A k \in K : ~(1..k \subseteq 1..m /\ 1..k # 1..m)
  <2>1. PICK m \in K : x = 1..m
    BY Zenon DEF T
  <2>2. \A k \in K : 1..k \in T
    BY Zenon DEF T
  <2> QED
    BY Zenon, <1>4, <2>1, <2>2
<1>6. ASSUME NEW k \in K, k < m
      PROVE  FALSE
  <2>1. 1..k \subseteq 1..m /\ m \in 1..m /\ m \notin 1..k
    BY <1>6
  <2> QED
    BY <2>1, <1>5
<1> QED
  BY <1>6

\* That is what Min is.
LEMMA MinIsLeast ==
    ASSUME NEW n \in Nat, NEW K \in SUBSET (1..n), K # {}
    PROVE  Min(K) \in K /\ \A k \in K : Min(K) <= k
<1>1. \E m \in K : \A k \in K : m <= k
  BY LeastExists
<1> QED
  BY <1>1 DEF Min

\* K has the numbers of J, each moved by one.
Moved(n, J, K) ==
    /\ J \subseteq 1..n /\ K \subseteq 1..n + 1
    /\ n + 1 \in K /\ 1 \notin K
    /\ \A k \in 1..n : k \in J <=> k + 1 \in K

LEMMA MinMoves ==
    ASSUME NEW n \in Nat, NEW J, NEW K, Moved(n, J, K)
    PROVE  Min(J) \in J /\ Min(J) \in 1..n /\ Min(K) = Min(J) + 1
<1>0. /\ J \subseteq 1..n /\ K \subseteq 1..n + 1
      /\ n + 1 \in K /\ 1 \notin K
      /\ \A k \in 1..n : k \in J <=> k + 1 \in K
  BY DEF Moved
<1>1. Min(K) \in K /\ \A k \in K : Min(K) <= k
  <2>1. n + 1 \in Nat /\ K # {}
    BY <1>0
  <2> QED
    BY <1>0, <2>1, MinIsLeast
<1>2. n \in J
  <2>1. n # 0
    BY <1>0
  <2> QED
    BY <1>0, <2>1
<1>3. Min(J) \in J /\ \A k \in J : Min(J) <= k
  BY <1>0, <1>2, MinIsLeast
<1> DEFINE a == Min(J)
           b == Min(K)
<1>4. a \in J /\ a \in 1..n /\ b \in K /\ b \in 1..n + 1 /\ b # 1
  BY <1>0, <1>1, <1>3
<1>5. \A k \in K : b <= k
  BY <1>1
<1>6. \A k \in J : a <= k
  BY <1>3
<1> HIDE DEF a, b
<1>7. b <= a + 1
  BY <1>0, <1>4, <1>5
<1>8. a <= b - 1
  <2>1. b - 1 \in 1..n /\ (b - 1) + 1 = b
    BY <1>4
  <2>2. b - 1 \in J
    BY <1>0, <1>4, <2>1 DEF b
  <2> QED
    BY <1>6, <2>2
<1>9. b = a + 1
  BY <1>4, <1>7, <1>8
<1> QED
  BY <1>4, <1>9 DEF a, b
=============================================================================
