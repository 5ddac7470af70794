------------------------- MODULE SubsequencesProofs -------------------------
(***************************************************************************)
(* Ranks in sets of indexes, and what is left of a sequence when only the  *)
(* elements at some indexes are kept: these elements, each of them, and in *)
(* the order they had.                                                     *)
(***************************************************************************)
EXTENDS Subsequences, SequencesExt, FiniteSetTheorems, SequenceTheorems, TLAPS

(* Least and greatest indexes. *)

LEMMA LeastElement ==
  ASSUME NEW T \in SUBSET Nat, T # {}
  PROVE  \E x \in T : \A y \in T : x <= y
<1>. DEFINE less == {pair \in Nat \X Nat : pair[1] < pair[2]}
<1>1. IsWellFoundedOn(less, Nat)
  BY NatLessThanWellFounded DEF OpToRel
<1>2. PICK x \in T : \A y \in T : <<y, x>> \notin less
  <2>. HIDE DEF less
  <2>. QED BY <1>1, WFMin
<1>3. \A y \in T : y \in Nat /\ (y < x => <<y, x>> \in less)
  OBVIOUS
<1>4. \A y \in T : y \in Nat /\ ~ (y < x)
  BY <1>2, <1>3
<1>5. \A m, k \in Nat : ~ (k < m) => m <= k
  OBVIOUS
<1>. QED BY <1>4, <1>5

LEMMA GreatestElement ==
  ASSUME NEW n \in Nat, NEW T \in SUBSET (1 .. n), T # {}
  PROVE  \E x \in T : \A y \in T : y <= x
<1>. DEFINE below == {n - x : x \in T}
<1>0. \A x \in T : x \in 1 .. n /\ n - x \in Nat
  OBVIOUS
<1>1. PICK d \in below : \A e \in below : d <= e
  <2>1. below \in SUBSET Nat /\ below # {}
    BY <1>0
  <2>. HIDE DEF below
  <2>. QED BY <2>1, LeastElement
<1>2. PICK x \in T : d = n - x
  OBVIOUS
<1>3. \A y \in T : y \in Nat /\ d <= n - y
  BY <1>0, <1>1
<1>. QED BY <1>0, <1>2, <1>3

-----------------------------------------------------------------------------
(* Ranks. *)

\* Every index has a rank of its own, and there is one for every rank.
LEMMA RankFacts ==
  ASSUME NEW n \in Nat, NEW S \in SUBSET (1 .. n)
  PROVE  /\ IsFiniteSet(S) /\ Cardinality(S) \in Nat
         /\ \A i \in S : Rank(S, i) \in 1 .. Cardinality(S)
         /\ \A i, j \in S : Rank(S, i) = Rank(S, j) => i = j
         /\ \A i, j \in S : i < j => Rank(S, i) < Rank(S, j)
         /\ \A k \in 1 .. Cardinality(S) : \E i \in S : Rank(S, i) = k
<1>1. IsFiniteSet(S) /\ Cardinality(S) \in Nat
  <2>1. IsFiniteSet(1 .. n)
    BY FS_Interval
  <2>2. IsFiniteSet(S)
    BY <2>1, FS_Subset
  <2>. QED BY <2>2, FS_CardinalityType
<1>2. \A i \in S : Rank(S, i) \in 1 .. Cardinality(S)
  <2>. SUFFICES ASSUME NEW i \in S PROVE Rank(S, i) \in 1 .. Cardinality(S)
    OBVIOUS
  <2>. DEFINE upTo == {j \in S : j <= i}
  <2>1. IsFiniteSet(upTo) /\ Cardinality(upTo) <= Cardinality(S)
    BY <1>1, FS_Subset
  <2>2. Cardinality(upTo) \in Nat /\ Cardinality(upTo) # 0
    BY <2>1, FS_CardinalityType, FS_EmptySet
  <2>. QED BY <1>1, <2>1, <2>2 DEF Rank
<1>3. ASSUME NEW i \in S, NEW j \in S, i < j PROVE Rank(S, i) < Rank(S, j)
  <2>. DEFINE upToI == {k \in S : k <= i}
              upToJ == {k \in S : k <= j}
  <2>1. /\ upToJ \in SUBSET S /\ upToI \in SUBSET upToJ
        /\ j \in upToJ /\ j \notin upToI
    <3>1. \A k \in S : k \in Int
      OBVIOUS
    <3>2. i \in Int /\ j \in Int /\ ~ (j <= i)
      BY <1>3, <3>1
    <3>3. \A k \in S : k <= i => k <= j
      BY <1>3, <3>1, <3>2
    <3>4. upToJ \in SUBSET S /\ upToI \in SUBSET upToJ
      BY <3>3
    <3>5. j \in upToJ /\ j \notin upToI
      BY <3>2
    <3>. QED BY <3>4, <3>5
  <2>. HIDE DEF upToI, upToJ
  <2>2. IsFiniteSet(upToJ) /\ IsFiniteSet(upToI)
    BY <1>1, <2>1, FS_Subset
  <2>3. /\ Cardinality(upToI) <= Cardinality(upToJ)
        /\ Cardinality(upToJ) # Cardinality(upToI)
    BY <2>1, <2>2, FS_Subset
  <2>4. Cardinality(upToI) \in Nat /\ Cardinality(upToJ) \in Nat
    BY <2>2, FS_CardinalityType
  <2>. QED BY <2>3, <2>4 DEF Rank, upToI, upToJ
<1>4. \A i, j \in S : Rank(S, i) = Rank(S, j) => i = j
  <2>1. \A i, j \in S : i < j \/ j < i \/ i = j
    OBVIOUS
  <2>2. \A i \in S : Rank(S, i) \in Int
    BY <1>1, <1>2
  <2>. QED BY <1>3, <2>1, <2>2
<1>5. \A k \in 1 .. Cardinality(S) : \E i \in S : Rank(S, i) = k
  <2>. DEFINE T == 1 .. Cardinality(S)
              f == [i \in S |-> Rank(S, i)]
  <2>1. f \in Injection(S, T)
    BY <1>2, <1>4 DEF Injection, IsInjective
  <2>2. IsFiniteSet(T) /\ Cardinality(T) = Cardinality(S)
    BY <1>1, FS_Interval
  <2>3. f \in Surjection(S, T)
    BY <2>1, <2>2, FS_Injection
  <2>. QED BY <2>3 DEF Surjection
<1>. QED BY <1>1, <1>2, <1>3, <1>4, <1>5

-----------------------------------------------------------------------------
(* Subsequences. *)

\* What is kept stands in the order it had: Rank leads from the old index of
\* an element to the new one, Nth back, and both keep the order.
LEMMA OrderKept ==
  ASSUME NEW T, NEW s \in Seq(T), NEW S \in SUBSET (DOMAIN s)
  PROVE  /\ Cardinality(S) \in Nat
         /\ ElementsAt(s, S) \in Seq(T)
         /\ Len(ElementsAt(s, S)) = Cardinality(S)
         /\ DOMAIN ElementsAt(s, S) = 1 .. Cardinality(S)
         /\ \A i \in S : /\ Rank(S, i) \in 1 .. Cardinality(S)
                         /\ ElementsAt(s, S)[Rank(S, i)] = s[i]
         /\ \A k \in 1 .. Cardinality(S) :
              Nth(S, k) \in S /\ ElementsAt(s, S)[k] = s[Nth(S, k)]
         /\ \A i, j \in S : i < j => Rank(S, i) < Rank(S, j)
         /\ \A k, l \in 1 .. Cardinality(S) : k < l => Nth(S, k) < Nth(S, l)
         /\ \A k \in 1 .. Cardinality(S) : Rank(S, Nth(S, k)) = k
<1>1. S \in SUBSET (1 .. Len(s)) /\ Len(s) \in Nat
  BY LenProperties
<1>2. Cardinality(S) \in Nat
  BY <1>1, RankFacts
<1>3. \A k \in 1 .. Cardinality(S) : Nth(S, k) \in S /\ Rank(S, Nth(S, k)) = k
  BY <1>1, RankFacts DEF Nth
<1>4. \A i \in S : Rank(S, i) \in 1 .. Cardinality(S)
  BY <1>1, RankFacts
<1>5. \A i, j \in S : i < j => Rank(S, i) < Rank(S, j)
  BY <1>1, RankFacts
<1>6. ASSUME NEW i \in S PROVE i = Nth(S, Rank(S, i))
  <2>. DEFINE k == Rank(S, i)
  <2>1. k \in 1 .. Cardinality(S)
    BY <1>4
  <2>2. Nth(S, k) \in S /\ Rank(S, Nth(S, k)) = Rank(S, i)
    BY <1>3, <2>1
  <2>3. \A a, b \in S : Rank(S, a) = Rank(S, b) => a = b
    BY <1>1, RankFacts
  <2>. QED BY <2>2, <2>3
<1>7. ASSUME NEW k \in 1 .. Cardinality(S), NEW l \in 1 .. Cardinality(S), k < l
      PROVE  Nth(S, k) < Nth(S, l)
  <2>1. Nth(S, k) \in Int /\ Nth(S, l) \in Int
    BY <1>1, <1>3
  <2>2. Rank(S, Nth(S, k)) = k /\ Rank(S, Nth(S, l)) = l
    BY <1>3
  <2>3. Nth(S, l) # Nth(S, k)
    BY <1>7, <2>2
  <2>4. ASSUME Nth(S, l) < Nth(S, k) PROVE FALSE
    <3>1. l < k
      BY <1>3, <1>5, <2>2, <2>4
    <3>. QED BY <1>2, <1>7, <3>1
  <2>. QED BY <2>1, <2>3, <2>4
<1>8. \A k \in 1 .. Cardinality(S) : s[Nth(S, k)] \in T
  BY <1>1, <1>3, ElementOfSeq
<1>9. /\ ElementsAt(s, S) \in Seq(T)
      /\ Len(ElementsAt(s, S)) = Cardinality(S)
      /\ DOMAIN ElementsAt(s, S) = 1 .. Cardinality(S)
  BY <1>2, <1>8 DEF ElementsAt
<1>. QED BY <1>2, <1>3, <1>4, <1>5, <1>6, <1>7, <1>9 DEF ElementsAt

\* Nothing else is kept.
LEMMA ElementsAtFacts ==
  ASSUME NEW T, NEW s \in Seq(T), NEW S \in SUBSET (DOMAIN s)
  PROVE  /\ ElementsAt(s, S) \in Seq(T)
         /\ ToSet(ElementsAt(s, S)) = {s[i] : i \in S}
<1>1. \A k \in 1 .. Cardinality(S) :
        Nth(S, k) \in S /\ ElementsAt(s, S)[k] = s[Nth(S, k)]
  BY OrderKept
<1>2. \A i \in S : /\ Rank(S, i) \in 1 .. Cardinality(S)
                  /\ ElementsAt(s, S)[Rank(S, i)] = s[i]
  BY OrderKept
<1>3. /\ ElementsAt(s, S) \in Seq(T)
      /\ DOMAIN ElementsAt(s, S) = 1 .. Cardinality(S)
  BY OrderKept
<1>. QED BY <1>1, <1>2, <1>3 DEF ToSet
=============================================================================
