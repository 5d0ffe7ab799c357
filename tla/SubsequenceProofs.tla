--------------------------- MODULE SubsequenceProofs --------------------------
(***************************************************************************)
(* What unlinking records of a list leaves, for every list: the lemmas     *)
(* that the proofs about modules with lists rest on.                       *)
(***************************************************************************)
EXTENDS Subsequences, FiniteSetTheorems, WellFoundedInduction, TLAPS

(* Every nonempty set of natural numbers has a least element: the positions *)
(* that GetFirst and the search loops of the queue choose exist.            *)
LEMMA NatSetHasMin ==
  ASSUME NEW T \in SUBSET Nat, T # {}
  PROVE  \E m \in T : \A k \in T : m <= k
<1> DEFINE R == StrictSubsetOrdering(Nat)
           U == {1 .. k : k \in T}
<1>1. U \subseteq FiniteSubsetsOf(Nat) /\ U # {}
  <2>1. ASSUME NEW k \in T PROVE 1 .. k \in FiniteSubsetsOf(Nat)
    <3>1. IsFiniteSet(1 .. k)
      BY FS_Interval
    <3>2. 1 .. k \in SUBSET Nat
      OBVIOUS
    <3> QED BY <3>1, <3>2 DEF FiniteSubsetsOf
  <2> QED BY <2>1
<1>2. PICK X \in U : \A Y \in U : <<Y, X>> \notin R
  <2> HIDE DEF R, U
  <2> QED BY <1>1, FS_StrictSubsetOrderingWellFounded, WFMin DEF R
<1>3. PICK m \in T : X = 1 .. m
  OBVIOUS
<1>4. ASSUME NEW k \in T, k < m PROVE FALSE
  <2>1. (1 .. k) \subseteq (1 .. m) /\ 1 .. k # 1 .. m
    BY <1>4, m \in 1 .. m, m \notin 1 .. k
  <2>2. <<1 .. k, 1 .. m>> \in R
    BY <2>1 DEF StrictSubsetOrdering
  <2> QED BY <1>2, <1>3, <2>2
<1> QED BY <1>4

(* What a set of positions is, for the lemmas below *)
LEMMA PositionsFinite ==
  ASSUME NEW n \in Nat, NEW K \in SUBSET (1 .. n)
  PROVE  K \in SUBSET Nat /\ IsFiniteSet(K) /\ Cardinality(K) \in Nat
<1>1. IsFiniteSet(1 .. n)
  BY FS_Interval
<1>2. IsFiniteSet(K)
  BY <1>1, FS_Subset
<1> QED BY <1>2, FS_CardinalityType

(* A record that is kept gets a position in the list that is left. *)
LEMMA RankType ==
  ASSUME NEW K \in SUBSET Nat, IsFiniteSet(K), NEW i \in K
  PROVE  /\ IsFiniteSet(K) /\ Cardinality(K) \in Nat
         /\ Rank(K, i) \in 1 .. Cardinality(K)
<1> DEFINE below == {j \in K : j <= i}
<1>1. IsFiniteSet(K)
  OBVIOUS
<1>2. /\ IsFiniteSet(below) /\ Cardinality(below) <= Cardinality(K)
      /\ Cardinality(below) \in Nat /\ Cardinality(K) \in Nat
  BY <1>1, FS_Subset, FS_CardinalityType
<1>3. Cardinality(below) # 0
  BY <1>2, <1>1, i \in below, FS_EmptySet
<1> QED BY <1>1, <1>2, <1>3 DEF Rank

(* Two records that are kept keep their order. *)
LEMMA RankMonotone ==
  ASSUME NEW K \in SUBSET Nat, IsFiniteSet(K), NEW i \in K, NEW j \in K, i < j
  PROVE  Rank(K, i) < Rank(K, j)
<1> DEFINE below(n) == {k \in K : k <= n}
<1>1. below(i) \in SUBSET below(j) /\ below(i) # below(j) /\ below(j) \in SUBSET K
  <2>1. \A k \in K : k <= i => k <= j
    <3> SUFFICES ASSUME NEW k \in K, k <= i PROVE k <= j
      OBVIOUS
    <3>1. k \in Nat /\ i \in Nat /\ j \in Nat
      OBVIOUS
    <3> QED BY <3>1
  <2>2. j \in below(j) /\ j \notin below(i)
    <3>1. i \in Nat /\ j \in Nat
      OBVIOUS
    <3> QED BY <3>1
  <2> QED BY <2>1, <2>2
<1>2. IsFiniteSet(below(j))
  <2> HIDE DEF below
  <2> QED BY <1>1, FS_Subset
<1>3. Cardinality(below(i)) < Cardinality(below(j))
  <2> HIDE DEF below
  <2>1. Cardinality(below(i)) \in Nat /\ Cardinality(below(j)) \in Nat
    BY <1>1, <1>2, FS_Subset, FS_CardinalityType
  <2> QED BY <1>1, <1>2, <2>1, FS_Subset
<1> QED BY <1>3 DEF Rank

(* ... and every position of the list that is left gets one of them. *)
LEMMA RankOnto ==
  ASSUME NEW K \in SUBSET Nat, IsFiniteSet(K), NEW k \in 1 .. Cardinality(K)
  PROVE  \E i \in K : Rank(K, i) = k
<1> DEFINE n == Cardinality(K)
           f == [i \in K |-> Rank(K, i)]
<1>1. IsFiniteSet(K) /\ n \in Nat /\ K \in SUBSET Nat
  BY FS_CardinalityType
<1>2. f \in [K -> 1 .. n]
  BY RankType
<1>3. \A i, j \in K : f[i] = f[j] => i = j
  <2> SUFFICES ASSUME NEW i \in K, NEW j \in K, i < j
               PROVE  f[i] # f[j]
    BY <1>1
  <2>1. Rank(K, i) < Rank(K, j)
    BY RankMonotone
  <2>2. Rank(K, i) \in Nat /\ Rank(K, j) \in Nat
    BY RankType
  <2> QED BY <2>1, <2>2
<1>4. f \in Injection(K, 1 .. n)
  BY <1>2, <1>3 DEF Injection, IsInjective
<1>5. IsFiniteSet(1 .. n) /\ Cardinality(1 .. n) = n
  BY <1>1, FS_Interval
<1>6. f \in Surjection(K, 1 .. n)
  <2> HIDE DEF f
  <2> QED BY <1>4, <1>5, FS_Injection
<1> QED BY <1>6 DEF Surjection

(* Each record of the list that is left was at a position that is kept. *)
LEMMA SubsequenceAt ==
  ASSUME NEW s, NEW K \in SUBSET Nat, IsFiniteSet(K), NEW k \in 1 .. Cardinality(K)
  PROVE  \E i \in K : Rank(K, i) = k /\ Subsequence(s, K)[k] = s[i]
<1> DEFINE i == CHOOSE i \in K : Rank(K, i) = k
<1>1. i \in K /\ Rank(K, i) = k
  BY RankOnto
<1>2. Subsequence(s, K)[k] = s[i]
  BY DEF Subsequence
<1> HIDE DEF i
<1> QED BY <1>1, <1>2

(* ... and each record at such a position is left. *)
LEMMA SubsequenceKeeps ==
  ASSUME NEW s, NEW K \in SUBSET Nat, IsFiniteSet(K), NEW i \in K
  PROVE  Rank(K, i) \in 1 .. Cardinality(K) /\ Subsequence(s, K)[Rank(K, i)] = s[i]
<1>1. Rank(K, i) \in 1 .. Cardinality(K)
  BY RankType
<1>2. PICK j \in K : Rank(K, j) = Rank(K, i) /\ Subsequence(s, K)[Rank(K, i)] = s[j]
  BY <1>1, SubsequenceAt
<1>3. ASSUME i # j PROVE FALSE
  <2>1. Rank(K, i) < Rank(K, j) \/ Rank(K, j) < Rank(K, i)
    BY <1>3, RankMonotone
  <2> QED BY <1>1, <1>2, <2>1
<1> QED BY <1>1, <1>2, <1>3

(* The list that is left has exactly the records that are kept, each of     *)
(* them once if that was so before.                                         *)
LEMMA SubsequenceFacts ==
  ASSUME NEW S, NEW s \in Seq(S), NEW K \in SUBSET (1 .. Len(s))
  PROVE  /\ Subsequence(s, K) \in Seq(S)
         /\ \A k \in DOMAIN Subsequence(s, K) : \E i \in K : Subsequence(s, K)[k] = s[i]
         /\ \A i \in K : \E k \in DOMAIN Subsequence(s, K) : Subsequence(s, K)[k] = s[i]
         /\ (\A i, j \in DOMAIN s : s[i] = s[j] => i = j) =>
              \A i, j \in DOMAIN Subsequence(s, K) :
                Subsequence(s, K)[i] = Subsequence(s, K)[j] => i = j
<1> DEFINE t == Subsequence(s, K)
           n == Cardinality(K)
<1>1. K \in SUBSET Nat /\ IsFiniteSet(K) /\ n \in Nat
  <2>1. Len(s) \in Nat
    OBVIOUS
  <2> QED BY <2>1, PositionsFinite
<1>2. DOMAIN t = 1 .. n /\ DOMAIN s = 1 .. Len(s)
  BY DEF Subsequence
<1>3. \A k \in 1 .. n : \E i \in K : Rank(K, i) = k /\ t[k] = s[i]
  BY <1>1, SubsequenceAt
<1>4. \A i \in K : Rank(K, i) \in 1 .. n /\ t[Rank(K, i)] = s[i]
  BY <1>1, SubsequenceKeeps
<1>5. t \in [1 .. n -> S]
  BY <1>2, <1>3 DEF Subsequence
<1>6. t \in Seq(S)
  <2> HIDE DEF t, n
  <2> QED BY <1>1, <1>5
<1>7. ASSUME \A i, j \in DOMAIN s : s[i] = s[j] => i = j,
             NEW k \in DOMAIN t, NEW l \in DOMAIN t, t[k] = t[l]
      PROVE  k = l
  <2>1. PICK i \in K : Rank(K, i) = k /\ t[k] = s[i]
    BY <1>2, <1>3
  <2>2. PICK j \in K : Rank(K, j) = l /\ t[l] = s[j]
    BY <1>2, <1>3
  <2> HIDE DEF t
  <2>3. i = j
    BY <1>2, <1>7, <2>1, <2>2
  <2> QED BY <2>1, <2>2, <2>3
<1>8. /\ \A k \in DOMAIN t : \E i \in K : t[k] = s[i]
      /\ \A i \in K : \E k \in DOMAIN t : t[k] = s[i]
  <2> HIDE DEF t, n
  <2> QED BY <1>2, <1>3, <1>4
<1> QED BY <1>6, <1>7, <1>8
===============================================================================
