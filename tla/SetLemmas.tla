------------------------------ MODULE SetLemmas ------------------------------
(***************************************************************************)
(* Facts about sets of integers that the proofs about several components   *)
(* need: induction over the naturals, stated with a set, the least and the *)
(* greatest member of a finite set, and the order of its members, with     *)
(* what Lists!Keep leaves of a list.                                       *)
(***************************************************************************)
EXTENDS Integers, FiniteSetsExt, Lists, FiniteSetTheorems, FunctionTheorems,
        WellFoundedInduction, TLAPS

(* Induction: a set of naturals that has 0 and, with each number, the next *)
(* one has all of them.  The initial segments below the others would have  *)
(* a least one.                                                            *)
LEMMA NatSetInduction ==
  ASSUME NEW S \in SUBSET Nat, 0 \in S, \A n \in S : n + 1 \in S
  PROVE  \A n \in Nat : n \in S
<1> SUFFICES ASSUME NEW n \in Nat, n \notin S PROVE FALSE
  OBVIOUS
<1> DEFINE Below(k) == 0..(k - 1)
           T == {Below(k) : k \in Nat \ S}
           F == FiniteSubsetsOf(Nat)
<1>1. T \subseteq F
  <2> SUFFICES ASSUME NEW k \in Nat \ S PROVE Below(k) \in F
    OBVIOUS
  <2> QED  BY FS_Interval DEF FiniteSubsetsOf
<1>2. T # {}
  OBVIOUS
<1>3. \E x \in T : \A y \in T : ~(<<y, x>> \in StrictSubsetOrdering(Nat))
  <2>1. IsWellFoundedOn(StrictSubsetOrdering(Nat), F)
    BY FS_StrictSubsetOrderingWellFounded
  <2> HIDE DEF T, F
  <2> QED  BY <1>1, <1>2, <2>1, WFMin
<1>4. PICK k \in Nat \ S :
        \A j \in Nat \ S : ~(<<Below(j), Below(k)>> \in StrictSubsetOrdering(Nat))
  BY <1>3
<1>5. k # 0 /\ k - 1 \in Nat /\ k - 1 \notin S
  OBVIOUS
<1>6. Below(k - 1) \subseteq Below(k) /\ Below(k - 1) # Below(k) /\ Below(k) \subseteq Nat
  BY <1>5
<1>7. <<Below(k - 1), Below(k)>> \in StrictSubsetOrdering(Nat)
  BY <1>6 DEF StrictSubsetOrdering
<1> QED  BY <1>4, <1>5, <1>7

(* A set of naturals that is not empty has a least member.                 *)
LEMMA LeastExists ==
  ASSUME NEW S \in SUBSET Nat, S # {}
  PROVE  \E x \in S : \A y \in S : x <= y
<1> SUFFICES ASSUME \A x \in S : \E y \in S : y < x PROVE FALSE
  OBVIOUS
<1> DEFINE T == {n \in Nat : \A x \in S : n <= x}
<1>1. \A n \in T : n + 1 \in T
  OBVIOUS
<1>2. \A n \in Nat : n \in T
  <2>1. T \in SUBSET Nat /\ 0 \in T
    OBVIOUS
  <2> HIDE DEF T
  <2> QED  BY <1>1, <2>1, NatSetInduction
<1>3. PICK x \in S : TRUE
  OBVIOUS
<1>4. x + 1 \in T
  BY <1>2, <1>3
<1> QED  BY <1>3, <1>4

(* Min is that member.                                                     *)
LEMMA MinProperties ==
  ASSUME NEW S \in SUBSET Nat, S # {}
  PROVE  /\ Min(S) \in S
         /\ \A y \in S : Min(S) <= y
BY LeastExists DEF Min

(* It is determined by its properties.                                     *)
LEMMA MinUnique ==
  ASSUME NEW S \in SUBSET Nat, NEW x \in S, \A y \in S : x <= y
  PROVE  Min(S) = x
<1>1. Min(S) \in S /\ Min(S) \in Nat /\ Min(S) <= x
  BY MinProperties
<1>2. x <= Min(S)
  BY <1>1
<1> QED  BY <1>1, <1>2

(* A set of naturals with an upper bound has a greatest member, Max.       *)
LEMMA MaxProperties ==
  ASSUME NEW S \in SUBSET Nat, S # {}, NEW n \in Nat, \A x \in S : x <= n
  PROVE  /\ Max(S) \in S
         /\ \A y \in S : y <= Max(S)
<1> DEFINE T == {n - x : x \in S}
<1>1. T \in SUBSET Nat /\ T # {}
  <2>1. \A x \in S : n - x \in Nat
    OBVIOUS
  <2> QED  BY <2>1
<1>2. PICK t \in T : \A u \in T : t <= u
  BY <1>1, LeastExists
<1>3. n - t \in S /\ \A y \in S : y <= n - t
  BY <1>2
<1> QED  BY <1>3 DEF Max

LEMMA MaxUnique ==
  ASSUME NEW S \in SUBSET Nat, NEW x \in S, \A y \in S : y <= x
  PROVE  Max(S) = x
<1>1. Max(S) \in S /\ Max(S) \in Nat /\ x <= Max(S)
  BY MaxProperties
<1>2. Max(S) <= x
  BY <1>1
<1> QED  BY <1>1, <1>2

---------------------------------------------------------------------------
(* The members of a finite set in their order.                             *)

(* The rank of a member counts those up to it.                             *)
LEMMA RankType ==
  ASSUME NEW K \in SUBSET Nat, IsFiniteSet(K), NEW i \in K
  PROVE  Rank(K, i) \in 1..Cardinality(K)
<1> DEFINE A == {h \in K : h <= i}
<1>1. IsFiniteSet(A) /\ Cardinality(A) <= Cardinality(K) /\ Cardinality(A) \in Nat
  BY FS_Subset, FS_CardinalityType
<1>2. Cardinality(A) # 0
  <2>1. i \in A
    OBVIOUS
  <2> QED  BY <1>1, <2>1, FS_EmptySet
<1>3. Cardinality(K) \in Nat
  BY FS_CardinalityType
<1> QED  BY <1>1, <1>2, <1>3 DEF Rank

(* The ranks are in the order of the places.                               *)
LEMMA RankOrder ==
  ASSUME NEW K \in SUBSET Nat, IsFiniteSet(K), NEW i \in K, NEW j \in K, i < j
  PROVE  Rank(K, i) < Rank(K, j)
<1> DEFINE A == {h \in K : h <= i}
           B == {h \in K : h <= j}
<1>1. A \in SUBSET B /\ A # B
  <2>1. j \in B /\ j \notin A
    OBVIOUS
  <2>2. \A h \in K : h <= i => h <= j
    OBVIOUS
  <2>3. A \subseteq B
    BY <2>2
  <2> QED  BY <2>1, <2>3
<1>2. IsFiniteSet(B)
  BY FS_Subset
<1>3. IsFiniteSet(A) /\ Cardinality(A) <= Cardinality(B) /\ Cardinality(A) # Cardinality(B)
  <2> HIDE DEF A, B
  <2> QED  BY <1>1, <1>2, FS_Subset
<1>4. Cardinality(A) \in Nat /\ Cardinality(B) \in Nat
  BY <1>2, <1>3, FS_CardinalityType
<1> QED  BY <1>3, <1>4 DEF Rank

(* Each number up to the size of the set is a rank.                        *)
LEMMA RankOnto ==
  ASSUME NEW K \in SUBSET Nat, IsFiniteSet(K), NEW j \in 1..Cardinality(K)
  PROVE  \E i \in K : Rank(K, i) = j
<1> DEFINE n == Cardinality(K)
           f == [i \in K |-> Rank(K, i)]
<1>1. n \in Nat
  BY FS_CardinalityType
<1>2. f \in [K -> 1..n]
  BY RankType
<1>3. \A i, h \in K : f[i] = f[h] => i = h
  <2> SUFFICES ASSUME NEW i \in K, NEW h \in K, Rank(K, i) = Rank(K, h) PROVE i = h
    OBVIOUS
  <2>1. Rank(K, i) \in 1..n /\ Rank(K, h) \in 1..n
    BY RankType
  <2>2. ~(i < h) /\ ~(h < i)
    BY <2>1, RankOrder
  <2> QED  BY <2>2
<1>4. f \in Injection(K, 1..n)
  BY <1>2, <1>3 DEF Injection, IsInjective
<1>5. IsFiniteSet(1..n) /\ Cardinality(1..n) = n
  BY <1>1, FS_Interval
<1>6. f \in Surjection(K, 1..n)
  <2> HIDE DEF f, n
  <2>1. Cardinality(K) = Cardinality(1..n)
    BY <1>5 DEF n
  <2> QED  BY <1>4, <1>5, <2>1, FS_Injection
<1> QED  BY <1>6 DEF Surjection

(* Nth is the inverse of Rank, and in the same order.                      *)
LEMMA NthProperties ==
  ASSUME NEW K \in SUBSET Nat, IsFiniteSet(K)
  PROVE  /\ Cardinality(K) \in Nat
         /\ \A j \in 1..Cardinality(K) : Nth(K, j) \in K /\ Rank(K, Nth(K, j)) = j
         /\ \A i \in K : Rank(K, i) \in 1..Cardinality(K) /\ Nth(K, Rank(K, i)) = i
         /\ \A j, l \in 1..Cardinality(K) : j < l => Nth(K, j) < Nth(K, l)
<1>1. \A i \in K : Rank(K, i) \in 1..Cardinality(K)
  BY RankType
<1>2. \A j \in 1..Cardinality(K) : Nth(K, j) \in K /\ Rank(K, Nth(K, j)) = j
  BY RankOnto DEF Nth
<1>3. \A i, h \in K : Rank(K, i) = Rank(K, h) => i = h
  <2> TAKE i, h \in K
  <2> HAVE Rank(K, i) = Rank(K, h)
  <2>1. ~(i < h) /\ ~(h < i)
    BY <1>1, RankOrder
  <2> QED  BY <2>1
<1>4. \A i \in K : Nth(K, Rank(K, i)) = i
  BY <1>1, <1>2, <1>3
<1>5. \A j, l \in 1..Cardinality(K) : j < l => Nth(K, j) < Nth(K, l)
  <2> TAKE j, l \in 1..Cardinality(K)
  <2> HAVE j < l
  <2>1. Nth(K, j) \in K /\ Nth(K, l) \in K /\ Rank(K, Nth(K, j)) = j /\ Rank(K, Nth(K, l)) = l
    BY <1>2
  <2>2. ~(Nth(K, l) < Nth(K, j)) /\ Nth(K, j) # Nth(K, l)
    <3>1. Nth(K, l) < Nth(K, j) => l < j
      <4> HAVE Nth(K, l) < Nth(K, j)
      <4>1. Rank(K, Nth(K, l)) < Rank(K, Nth(K, j))
        BY <2>1, RankOrder
      <4> QED  BY <2>1, <4>1
    <3> QED  BY <2>1, <3>1
  <2>3. Nth(K, j) \in Nat /\ Nth(K, l) \in Nat
    BY <2>1
  <2> QED  BY <2>2, <2>3
<1>6. Cardinality(K) \in Nat
  BY FS_CardinalityType
<1> QED  BY <1>1, <1>2, <1>4, <1>5, <1>6

(* What Keep leaves: the entries at these places, in their order.          *)
LEMMA KeepProperties ==
  ASSUME NEW S, NEW list \in Seq(S), NEW K \in SUBSET (DOMAIN list)
  PROVE  /\ Keep(list, K) \in Seq(S)
         /\ Len(Keep(list, K)) = Cardinality(K) /\ Cardinality(K) \in Nat
         /\ DOMAIN Keep(list, K) = 1..Cardinality(K)
         /\ \A j \in 1..Cardinality(K) :
              Nth(K, j) \in K /\ Keep(list, K)[j] = list[Nth(K, j)]
         /\ \A i \in K : /\ Rank(K, i) \in 1..Cardinality(K)
                         /\ Nth(K, Rank(K, i)) = i
                         /\ Keep(list, K)[Rank(K, i)] = list[i]
         /\ \A j, l \in 1..Cardinality(K) : j < l => Nth(K, j) < Nth(K, l)
<1>1. DOMAIN list = 1..Len(list) /\ Len(list) \in Nat
      /\ \A i \in DOMAIN list : list[i] \in S
  OBVIOUS
<1>2. K \in SUBSET Nat /\ IsFiniteSet(K)
  <2>1. IsFiniteSet(1..Len(list))
    BY <1>1, FS_Interval
  <2> QED  BY <1>1, <2>1, FS_Subset
<1>3. Cardinality(K) \in Nat
  BY <1>2, NthProperties
<1>4. \A j \in 1..Cardinality(K) : Nth(K, j) \in K
  BY <1>2, NthProperties
<1>5. \A i \in K : Rank(K, i) \in 1..Cardinality(K) /\ Nth(K, Rank(K, i)) = i
  BY <1>2, NthProperties
<1>6. \A j, l \in 1..Cardinality(K) : j < l => Nth(K, j) < Nth(K, l)
  BY <1>2, NthProperties
<1>7. /\ Keep(list, K) \in [1..Cardinality(K) -> S]
      /\ \A j \in 1..Cardinality(K) : Keep(list, K)[j] = list[Nth(K, j)]
  BY <1>1, <1>4 DEF Keep
<1>8. Keep(list, K) \in Seq(S) /\ Len(Keep(list, K)) = Cardinality(K)
  BY <1>3, <1>7
<1> QED  BY <1>3, <1>4, <1>5, <1>6, <1>7, <1>8
=============================================================================
