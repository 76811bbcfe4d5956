--------------------------- MODULE PricingProofs ---------------------------
(***************************************************************************)
(* Proofs about Pricing, for any rows, listings and resale rules: order    *)
(* statistics of a set of sales by counting, and what they make of the     *)
(* estimate.                                                               *)
(***************************************************************************)
EXTENDS Pricing, FiniteSetTheorems, TLAPS

-----------------------------------------------------------------------------
(* Minima.                                                                 *)

LEMMA NatMin ==
  ASSUME NEW T \in SUBSET Nat, T # {}
  PROVE  \E m \in T : \A t \in T : m <= t
<1> DEFINE R == {ss \in Nat \X Nat : ss[1] < ss[2]}
<1>1. IsWellFoundedOn(R, Nat)
  BY NatLessThanWellFounded DEF OpToRel
<1>2. PICK m \in T : \A t \in T : ~(<<t, m>> \in R)
  <2> HIDE DEF R
  <2> QED BY <1>1, WFMin
<1>3. ASSUME NEW t \in T, t < m
      PROVE  FALSE
  <2>1. <<t, m>> \in Nat \X Nat /\ <<t, m>>[1] < <<t, m>>[2]
    BY <1>3
  <2>2. <<t, m>> \in R
    BY <2>1
  <2> QED
    BY <1>2, <2>2
<1> QED
  BY <1>3

LEMMA Least ==
  ASSUME NEW K, K # {}, NEW f \in [K -> Nat]
  PROVE  \E c \in K : \A d \in K : f[c] <= f[d]
<1> DEFINE T == {f[c] : c \in K}
<1>1. T \in SUBSET Nat /\ T # {}
  OBVIOUS
<1>2. PICK m \in T : \A t \in T : m <= t
  BY <1>1, NatMin
<1> QED
  BY <1>2

-----------------------------------------------------------------------------
(* Counting sales.                                                         *)

\* A finite set of sales at prices that can be compared.
Sales(S) == IsFiniteSet(S) /\ \A x \in S : Price(x) \in Int

LEMMA Counts ==
  ASSUME NEW S, Sales(S), NEW c
  PROVE  /\ Cardinality(S) \in Nat
         /\ Below(S, c) \in Nat /\ Below(S, c) <= Cardinality(S)
         /\ Above(S, c) \in Nat /\ Above(S, c) <= Cardinality(S)
<1> DEFINE B == {x \in S : Price(x) < c}
           A == {x \in S : Price(x) > c}
<1>1. IsFiniteSet(S) /\ B \in SUBSET S /\ A \in SUBSET S
  BY DEF Sales
<1>2. /\ IsFiniteSet(B) /\ Cardinality(B) <= Cardinality(S)
      /\ IsFiniteSet(A) /\ Cardinality(A) <= Cardinality(S)
  <2> HIDE DEF A, B
  <2> QED BY <1>1, FS_Subset
<1>3. Cardinality(S) \in Nat /\ Cardinality(B) \in Nat /\ Cardinality(A) \in Nat
  <2> HIDE DEF A, B
  <2> QED BY <1>1, <1>2, FS_CardinalityType
<1> QED
  BY <1>2, <1>3 DEF Below, Above

\* What is not above c.
LEMMA AtMost ==
  ASSUME NEW S, Sales(S), NEW c \in Int
  PROVE  LET M == {x \in S : Price(x) <= c}
         IN  /\ IsFiniteSet(M)
             /\ Cardinality(M) = Cardinality(S) - Above(S, c)
<1> DEFINE A == {x \in S : Price(x) > c}
           M == {x \in S : Price(x) <= c}
<1>1. M = S \ A /\ S \cap A = A /\ IsFiniteSet(S)
  BY DEF Sales
<1>2. IsFiniteSet(S \ A) /\ Cardinality(S \ A) = Cardinality(S) - Cardinality(S \cap A)
  <2> HIDE DEF A
  <2> QED BY <1>1, FS_Difference
<1> QED
  BY <1>1, <1>2 DEF Above

\* What is at most c is below every higher price.
LEMMA AtMostBelow ==
  ASSUME NEW S, Sales(S), NEW c \in Int, NEW d \in Int, c < d
  PROVE  Cardinality(S) - Above(S, c) <= Below(S, d)
<1> DEFINE M == {x \in S : Price(x) <= c}
           B == {x \in S : Price(x) < d}
<1>1. M \in SUBSET B /\ B \in SUBSET S /\ IsFiniteSet(S)
  BY DEF Sales
<1>2. IsFiniteSet(B)
  <2> HIDE DEF B
  <2> QED BY <1>1, FS_Subset
<1>3. Cardinality(M) <= Cardinality(B)
  <2> HIDE DEF M, B
  <2> QED BY <1>1, <1>2, FS_Subset
<1> QED
  BY <1>3, AtMost DEF Below

\* A price that a sale fetched has a rank of its own at least.
LEMMA OwnRank ==
  ASSUME NEW S, Sales(S), NEW c \in Cents(S)
  PROVE  c \in Int /\ Below(S, c) < Cardinality(S) - Above(S, c)
<1> DEFINE M == {x \in S : Price(x) <= c}
           B == {x \in S : Price(x) < c}
<1>1. PICK x \in S : c = Price(x)
  BY DEF Cents
<1>2. c \in Int
  BY <1>1 DEF Sales
<1>3. B \in SUBSET M /\ x \in M /\ x \notin B
  BY <1>1, <1>2 DEF Sales
<1>4. IsFiniteSet(M) /\ Cardinality(M) = Cardinality(S) - Above(S, c)
  BY <1>2, AtMost
<1>5. /\ Cardinality(B) <= Cardinality(M)
      /\ Cardinality(B) # Cardinality(M)
      /\ IsFiniteSet(B)
  <2> HIDE DEF M, B
  <2> QED BY <1>3, <1>4, FS_Subset
<1>6. Cardinality(B) \in Nat /\ Cardinality(M) \in Nat
  <2> HIDE DEF M, B
  <2> QED BY <1>4, <1>5, FS_CardinalityType
<1> QED
  BY <1>2, <1>4, <1>5, <1>6 DEF Below

-----------------------------------------------------------------------------
(* Ranks.                                                                  *)

\* The k-th lowest price of the sales is c, k from 0.
HasRank(S, c, k) == Below(S, c) <= k /\ k < Cardinality(S) - Above(S, c)

\* Every rank is some sale's: the lowest price that at least k + 1 sales do
\* not exceed has rank k.
LEMMA RankTaken ==
  ASSUME NEW S, Sales(S), NEW k \in 0 .. Cardinality(S) - 1
  PROVE  \E c \in Cents(S) : HasRank(S, c, k)
<1> DEFINE N == Cardinality(S)
           C == Cents(S)
           K == {c \in C : k < N - Above(S, c)}
<1>0. N \in Nat /\ C \subseteq Int /\ k \in Nat /\ k < N
  BY Counts, OwnRank
<1>1. C # {}
  <2>1. S # {}
    BY <1>0, FS_EmptySet DEF Sales
  <2> QED BY <2>1 DEF Cents
<1>2. K # {}
  <2> DEFINE f == [c \in C |-> Above(S, c)]
  <2>1. f \in [C -> Nat]
    BY Counts
  <2>2. PICK c \in C : \A d \in C : f[c] <= f[d]
    <3> HIDE DEF f, C
    <3> QED BY <1>1, <2>1, Least
  <2>3. Above(S, c) = 0
    <3>1. SUFFICES ASSUME Above(S, c) # 0
                   PROVE  FALSE
      OBVIOUS
    <3>2. PICK x \in S : Price(x) > c
      <4>1. {x \in S : Price(x) > c} # {}
        BY <3>1, FS_EmptySet DEF Above
      <4> QED BY <4>1
    <3>3. Price(x) \in C /\ Price(x) \in Int /\ c \in Int
      BY <1>0 DEF Cents
    <3>4. N - Above(S, c) <= Below(S, Price(x)) /\ Below(S, Price(x)) < N - Above(S, Price(x))
      BY <3>2, <3>3, AtMostBelow, OwnRank
    <3>5. Above(S, c) <= Above(S, Price(x))
      BY <2>2, <3>3
    <3> QED
      BY <3>4, <3>5, <1>0, Counts
  <2> QED
    BY <2>3, <1>0
<1>3. PICK c \in K : \A d \in K : Below(S, c) <= Below(S, d)
  <2> DEFINE f == [d \in K |-> Below(S, d)]
  <2>1. f \in [K -> Nat]
    BY Counts
  <2>2. \E c \in K : \A d \in K : f[c] <= f[d]
    <3> HIDE DEF f, K
    <3> QED BY <1>2, <2>1, Least
  <2> QED BY <2>2
<1>4. Below(S, c) <= k
  <2>1. SUFFICES ASSUME Below(S, c) > k
                 PROVE  FALSE
    BY Counts, <1>0
  <2> DEFINE L == {d \in C : d < c}
             f == [d \in L |-> Above(S, d)]
  <2>2. c \in C /\ c \in Int
    BY <1>0
  <2>3. L # {}
    <3>1. {x \in S : Price(x) < c} # {}
      BY <2>1, <1>0, FS_EmptySet DEF Below
    <3> QED BY <3>1 DEF Cents
  <2>4. f \in [L -> Nat]
    BY Counts
  <2>5. PICK d \in L : \A e \in L : f[d] <= f[e]
    <3> HIDE DEF f, L
    <3> QED BY <2>3, <2>4, Least
  <2>6. d \in C /\ d \in Int /\ d < c
    BY <1>0
  <2>7. {x \in S : Price(x) < c} = {x \in S : Price(x) <= d}
    <3>1. ASSUME NEW x \in S, Price(x) < c, Price(x) > d
          PROVE  FALSE
      <4>1. Price(x) \in L /\ Price(x) \in C /\ Price(x) \in Int
        BY <3>1 DEF Cents, Sales
      <4>2. Above(S, d) <= Above(S, Price(x))
        BY <4>1, <2>5
      <4>3. N - Above(S, d) <= Below(S, Price(x)) /\ Below(S, Price(x)) < N - Above(S, Price(x))
        BY <4>1, <2>6, <3>1, AtMostBelow, OwnRank
      <4> QED
        BY <4>2, <4>3, <1>0, Counts
    <3> QED
      BY <3>1, <2>2, <2>6 DEF Sales
  <2>8. Below(S, c) = N - Above(S, d)
    BY <2>6, <2>7, AtMost DEF Below
  <2>9. d \in K
    BY <2>1, <2>6, <2>8
  <2>10. Below(S, d) < Below(S, c)
    BY <2>6, <2>8, OwnRank
  <2> QED
    BY <1>3, <2>9, <2>10, Counts
<1> QED
  BY <1>3, <1>4 DEF HasRank

LEMMA RankOfOne ==
  ASSUME NEW S, Sales(S), NEW k \in Int, NEW c \in Int, NEW d \in Int,
         HasRank(S, c, k), HasRank(S, d, k)
  PROVE  c = d
<1>0. /\ Cardinality(S) \in Int
      /\ \A e \in Int : Below(S, e) \in Int /\ Above(S, e) \in Int
  BY Counts
<1>1. ASSUME c < d
      PROVE  FALSE
  <2>1. Cardinality(S) - Above(S, c) <= Below(S, d)
    BY <1>1, AtMostBelow
  <2> QED
    BY <2>1, <1>0 DEF HasRank
<1>2. ASSUME d < c
      PROVE  FALSE
  <2>1. Cardinality(S) - Above(S, d) <= Below(S, c)
    BY <1>2, AtMostBelow
  <2> QED
    BY <2>1, <1>0 DEF HasRank
<1> QED
  BY <1>1, <1>2

LEMMA SortedAt ==
  ASSUME NEW S, Sales(S), NEW k \in 0 .. Cardinality(S) - 1
  PROVE  /\ Sorted(S)[k] \in Cents(S) /\ Sorted(S)[k] \in Int
         /\ HasRank(S, Sorted(S)[k], k)
         /\ \A c \in Int : HasRank(S, c, k) => c = Sorted(S)[k]
<1>1. Sorted(S)[k] = CHOOSE c \in Cents(S) : HasRank(S, c, k)
  BY DEF Sorted, HasRank
<1>2. Sorted(S)[k] \in Cents(S) /\ HasRank(S, Sorted(S)[k], k)
  <2> HIDE DEF HasRank
  <2> QED BY <1>1, RankTaken
<1>3. Sorted(S)[k] \in Int
  BY <1>2, OwnRank
<1> QED
  BY <1>2, <1>3, RankOfOne

\* A price off the k-th lowest has more than k sales below it, or at most k
\* that do not exceed it.
LEMMA OffRank ==
  ASSUME NEW S, Sales(S), NEW k \in 0 .. Cardinality(S) - 1, NEW c \in Int
  PROVE  /\ c < Sorted(S)[k] => Cardinality(S) - Above(S, c) <= k
         /\ c > Sorted(S)[k] => k < Below(S, c)
<1> DEFINE v == Sorted(S)[k]
<1>1. v \in Int /\ HasRank(S, v, k)
  BY SortedAt
<1>2. /\ Cardinality(S) \in Int
      /\ \A e \in Int : Below(S, e) \in Int /\ Above(S, e) \in Int
  BY Counts
<1>3. c < v => Cardinality(S) - Above(S, c) <= Below(S, v)
  BY <1>1, AtMostBelow
<1>4. c > v => Cardinality(S) - Above(S, v) <= Below(S, c)
  BY <1>1, AtMostBelow
<1> QED
  BY <1>1, <1>2, <1>3, <1>4 DEF HasRank

\* The k-th lowest price and the sales on either side of one that it reaches.
LEMMA OnRank ==
  ASSUME NEW S, Sales(S), NEW k \in 0 .. Cardinality(S) - 1, NEW c \in Int
  PROVE  /\ c <= Sorted(S)[k] => Below(S, c) <= k
         /\ c >= Sorted(S)[k] => k < Cardinality(S) - Above(S, c)
<1> DEFINE v == Sorted(S)[k]
<1>1. v \in Int /\ HasRank(S, v, k)
  BY SortedAt
<1>2. /\ Cardinality(S) \in Int
      /\ \A e \in Int : Below(S, e) \in Int /\ Above(S, e) \in Int
  BY Counts
<1>3. Below(S, c) <= Cardinality(S) - Above(S, c)
  <2> DEFINE M == {x \in S : Price(x) <= c}
             B == {x \in S : Price(x) < c}
  <2>1. B \in SUBSET M
    BY DEF Sales
  <2>2. IsFiniteSet(M) /\ Cardinality(M) = Cardinality(S) - Above(S, c)
    BY AtMost
  <2>3. Cardinality(B) <= Cardinality(M)
    <3> HIDE DEF B, M
    <3> QED BY <2>1, <2>2, FS_Subset
  <2> QED
    BY <2>2, <2>3 DEF Below
<1>4. c < v => Cardinality(S) - Above(S, c) <= k
  BY OffRank
<1>5. c > v => k < Below(S, c)
  BY OffRank
<1> QED
  BY <1>1, <1>2, <1>3, <1>4, <1>5 DEF HasRank

LEMMA SortedUp ==
  ASSUME NEW S, Sales(S), NEW j \in 0 .. Cardinality(S) - 1,
         NEW k \in 0 .. Cardinality(S) - 1, j <= k
  PROVE  Sorted(S)[j] <= Sorted(S)[k]
<1>1. /\ Sorted(S)[j] \in Int /\ Sorted(S)[k] \in Int
      /\ HasRank(S, Sorted(S)[k], k)
  BY SortedAt
<1>2. Sorted(S)[k] < Sorted(S)[j] => Cardinality(S) - Above(S, Sorted(S)[k]) <= j
  BY <1>1, OffRank
<1>3. Cardinality(S) \in Int /\ Above(S, Sorted(S)[k]) \in Int
  BY Counts
<1> QED
  BY <1>1, <1>2, <1>3 DEF HasRank

-----------------------------------------------------------------------------
(* The estimate from a set of sales.                                       *)

Middle(S) ==
  (Sorted(S)[(Cardinality(S) - 1) \div 2] + Sorted(S)[Cardinality(S) \div 2]) \div 2

\* Trimming a tenth off at each end leaves the middle where it was.
LEMMA TrimmedMiddle ==
  ASSUME NEW S, Sales(S), S # {}, NEW method
  PROVE  RobustEstimate(S, method) =
           [method   |-> method,
            expected |-> Middle(S),
            low      |-> Sorted(S)[Cardinality(S) \div 10],
            high     |-> Sorted(S)[Cardinality(S) - 1 - Cardinality(S) \div 10],
            samples  |-> Cardinality(S)]
<1> DEFINE N    == Cardinality(S)
           low  == N \div 10
           high == N - 1 - low
           n    == high + 1 - low
           mid  == low + n \div 2
<1>1. N \in Nat /\ N > 0
  BY Counts, FS_EmptySet DEF Sales
<1>2. n % 2 = 0 => mid - 1 = (N - 1) \div 2 /\ mid = N \div 2
  BY <1>1
<1>3. n % 2 # 0 => mid = (N - 1) \div 2 /\ mid = N \div 2
  BY <1>1
<1>4. n % 2 # 0 => Sorted(S)[mid] = (Sorted(S)[mid] + Sorted(S)[mid]) \div 2
  <2>1. mid \in 0 .. N - 1
    BY <1>1
  <2>2. Sorted(S)[mid] \in Int
    BY <2>1, SortedAt
  <2> QED
    BY <2>2
<1>5. (IF n % 2 = 0 THEN (Sorted(S)[mid - 1] + Sorted(S)[mid]) \div 2
                    ELSE Sorted(S)[mid]) = Middle(S)
  BY <1>2, <1>3, <1>4, Zenon DEF Middle
<1> QED
  BY <1>5, Zenon DEF RobustEstimate

LEMMA MiddleRanks ==
  ASSUME NEW S, Sales(S), S # {}
  PROVE  /\ Cardinality(S) \in Nat /\ Cardinality(S) > 0
         /\ (Cardinality(S) - 1) \div 2 \in 0 .. Cardinality(S) - 1
         /\ Cardinality(S) \div 2 \in 0 .. Cardinality(S) - 1
         /\ (Cardinality(S) - 1) \div 2 <= Cardinality(S) \div 2
<1>1. Cardinality(S) \in Nat /\ Cardinality(S) > 0
  BY Counts, FS_EmptySet DEF Sales
<1> QED
  BY <1>1

LEMMA MiddleBetween ==
  ASSUME NEW S, Sales(S), S # {}
  PROVE  /\ Middle(S) \in Int
         /\ Sorted(S)[(Cardinality(S) - 1) \div 2] <= Middle(S)
         /\ Middle(S) <= Sorted(S)[Cardinality(S) \div 2]
<1> DEFINE j == (Cardinality(S) - 1) \div 2
           k == Cardinality(S) \div 2
<1>1. j \in 0 .. Cardinality(S) - 1 /\ k \in 0 .. Cardinality(S) - 1 /\ j <= k
  BY MiddleRanks
<1>2. Sorted(S)[j] \in Int /\ Sorted(S)[k] \in Int /\ Sorted(S)[j] <= Sorted(S)[k]
  <2> HIDE DEF j, k
  <2> QED BY <1>1, SortedAt, SortedUp
<1> QED
  BY <1>2 DEF Middle

\* The medians without sorting are the middle of the sorted prices.
LEMMA Medians ==
  ASSUME NEW S, Sales(S), S # {}
  PROVE  Middle(S) = (LowerMedian(S) + UpperMedian(S)) \div 2
<1> DEFINE N == Cardinality(S)
           j == (N - 1) \div 2
           k == N \div 2
<1>1. N \in Nat /\ N > 0 /\ j \in 0 .. N - 1 /\ k \in 0 .. N - 1
  BY MiddleRanks
<1>2. /\ \A c \in Cents(S) : HasRank(S, c, j) <=> 2 * Below(S, c) < N /\ 2 * Above(S, c) <= N
      /\ \A c \in Cents(S) : HasRank(S, c, k) <=> 2 * Above(S, c) < N /\ 2 * Below(S, c) <= N
  <2> SUFFICES ASSUME NEW c \in Cents(S)
               PROVE  /\ HasRank(S, c, j) <=> 2 * Below(S, c) < N /\ 2 * Above(S, c) <= N
                      /\ HasRank(S, c, k) <=> 2 * Above(S, c) < N /\ 2 * Below(S, c) <= N
    OBVIOUS
  <2>1. Below(S, c) \in Nat /\ Above(S, c) \in Nat
    BY Counts
  <2> QED
    BY <1>1, <2>1 DEF HasRank
<1>3. \A c \in Cents(S) : c \in Int
  BY OwnRank
<1>4. LowerMedian(S) = Sorted(S)[j]
  <2>1. /\ Sorted(S)[j] \in Cents(S) /\ HasRank(S, Sorted(S)[j], j)
        /\ \A c \in Int : HasRank(S, c, j) => c = Sorted(S)[j]
    <3> HIDE DEF j
    <3> QED BY <1>1, SortedAt
  <2> HIDE DEF j, N
  <2> QED
    BY <1>2, <1>3, <2>1 DEF LowerMedian, N
<1>5. UpperMedian(S) = Sorted(S)[k]
  <2>1. /\ Sorted(S)[k] \in Cents(S) /\ HasRank(S, Sorted(S)[k], k)
        /\ \A c \in Int : HasRank(S, c, k) => c = Sorted(S)[k]
    <3> HIDE DEF k
    <3> QED BY <1>1, SortedAt
  <2> HIDE DEF k, N
  <2> QED
    BY <1>2, <1>3, <2>1 DEF UpperMedian, N
<1> QED
  BY <1>4, <1>5 DEF Middle

\* The range leaves out at most a tenth of the sales at each end.
LEMMA TrimmedTenth ==
  ASSUME NEW S, Sales(S), S # {}
  PROVE  LET N == Cardinality(S)
         IN  /\ 10 * Below(S, Sorted(S)[N \div 10]) <= N
             /\ 10 * Above(S, Sorted(S)[N - 1 - N \div 10]) <= N
<1> DEFINE N == Cardinality(S)
           j == N \div 10
           k == N - 1 - N \div 10
<1>1. N \in Nat /\ N > 0 /\ j \in 0 .. N - 1 /\ k \in 0 .. N - 1
  BY MiddleRanks
<1>2. HasRank(S, Sorted(S)[j], j) /\ HasRank(S, Sorted(S)[k], k)
  <2> HIDE DEF j, k
  <2> QED BY <1>1, SortedAt
<1>3. Below(S, Sorted(S)[j]) \in Nat /\ Above(S, Sorted(S)[k]) \in Nat
  BY Counts
<1>4. 10 * Below(S, Sorted(S)[j]) <= N
  BY <1>1, <1>2, <1>3 DEF HasRank
<1>5. 10 * Above(S, Sorted(S)[k]) <= N
  BY <1>1, <1>2, <1>3 DEF HasRank
<1> QED
  BY <1>4, <1>5

\* Half of the sales fetched what the middle fetches.
LEMMA HalfPaid ==
  ASSUME NEW S, Sales(S), S # {}, NEW c \in Int, c <= Middle(S)
  PROVE  2 * Cardinality({x \in S : Price(x) >= c}) >= Cardinality(S)
<1> DEFINE N == Cardinality(S)
           B == {x \in S : Price(x) < c}
           P == {x \in S : Price(x) >= c}
<1>1. N \in Nat /\ N \div 2 \in 0 .. N - 1
  BY MiddleRanks
<1>2. c <= Sorted(S)[N \div 2]
  <2>1. Sorted(S)[N \div 2] \in Int
    BY <1>1, SortedAt
  <2> QED BY <2>1, MiddleBetween
<1>3. Below(S, c) <= N \div 2 /\ Below(S, c) \in Nat
  BY <1>1, <1>2, OnRank, Counts
<1>4. P = S \ B /\ S \cap B = B /\ IsFiniteSet(S)
  BY DEF Sales
<1>5. Cardinality(S \ B) = N - Cardinality(S \cap B)
  <2> HIDE DEF B
  <2> QED BY <1>4, FS_Difference
<1>6. Cardinality(P) = N - Below(S, c)
  BY <1>4, <1>5 DEF Below
<1> QED
  BY <1>1, <1>3, <1>6

-----------------------------------------------------------------------------
(* One sale more.                                                          *)

LEMMA OneMore ==
  ASSUME NEW S, Sales(S), NEW x, x \notin S, Price(x) \in Int
  PROVE  LET T == S \cup {x}
         IN  /\ Sales(T) /\ Cardinality(T) = Cardinality(S) + 1
             /\ \A c \in Int :
                  /\ Below(T, c) = IF Price(x) < c THEN Below(S, c) + 1 ELSE Below(S, c)
                  /\ Above(T, c) = IF Price(x) > c THEN Above(S, c) + 1 ELSE Above(S, c)
<1> DEFINE T == S \cup {x}
<1>1. IsFiniteSet(S)
  BY DEF Sales
<1>2. IsFiniteSet(T) /\ Cardinality(T) = Cardinality(S) + 1
  BY <1>1, FS_AddElement
<1>3. Sales(T)
  BY <1>2 DEF Sales
<1>4. ASSUME NEW c \in Int
      PROVE  Below(T, c) = IF Price(x) < c THEN Below(S, c) + 1 ELSE Below(S, c)
  <2> DEFINE B == {y \in S : Price(y) < c}
  <2>1. IsFiniteSet(B) /\ x \notin B
    BY <1>1, FS_Subset
  <2>2. Cardinality(B \cup {x}) = Cardinality(B) + 1
    <3> HIDE DEF B
    <3> QED BY <2>1, FS_AddElement
  <2>3. {y \in T : Price(y) < c} = IF Price(x) < c THEN B \cup {x} ELSE B
    OBVIOUS
  <2> QED
    BY <2>2, <2>3 DEF Below
<1>5. ASSUME NEW c \in Int
      PROVE  Above(T, c) = IF Price(x) > c THEN Above(S, c) + 1 ELSE Above(S, c)
  <2> DEFINE A == {y \in S : Price(y) > c}
  <2>1. IsFiniteSet(A) /\ x \notin A
    BY <1>1, FS_Subset
  <2>2. Cardinality(A \cup {x}) = Cardinality(A) + 1
    <3> HIDE DEF A
    <3> QED BY <2>1, FS_AddElement
  <2>3. {y \in T : Price(y) > c} = IF Price(x) > c THEN A \cup {x} ELSE A
    OBVIOUS
  <2> QED
    BY <2>2, <2>3 DEF Above
<1> QED
  BY <1>2, <1>3, <1>4, <1>5

\* Each price with one sale more lies between the neighbours it had.
LEMMA Interlaced ==
  ASSUME NEW S, Sales(S), NEW x, x \notin S, Price(x) \in Int,
         NEW k \in 0 .. Cardinality(S) - 1
  PROVE  LET T == S \cup {x}
         IN  Sorted(T)[k] <= Sorted(S)[k] /\ Sorted(S)[k] <= Sorted(T)[k + 1]
<1> DEFINE T == S \cup {x}
           N == Cardinality(S)
           v == Sorted(S)[k]
<1>0. /\ Sales(T) /\ Cardinality(T) = N + 1
      /\ \A c \in Int :
           /\ Below(T, c) = IF Price(x) < c THEN Below(S, c) + 1 ELSE Below(S, c)
           /\ Above(T, c) = IF Price(x) > c THEN Above(S, c) + 1 ELSE Above(S, c)
  BY OneMore
<1>1. N \in Nat /\ k \in 0 .. Cardinality(T) - 1 /\ k + 1 \in 0 .. Cardinality(T) - 1
  BY <1>0, Counts
<1>2. /\ v \in Int /\ HasRank(S, v, k)
      /\ Below(S, v) \in Nat /\ Above(S, v) \in Nat
  BY SortedAt, Counts
<1> HIDE DEF T, v
<1>3. Sorted(T)[k] \in Int /\ Sorted(T)[k + 1] \in Int
  BY <1>0, <1>1, SortedAt
<1>4. ~(v < Sorted(T)[k])
  <2>1. v < Sorted(T)[k] => Cardinality(T) - Above(T, v) <= k
    BY <1>0, <1>1, <1>2, OffRank
  <2> QED BY <2>1, <1>0, <1>1, <1>2 DEF HasRank
<1>5. ~(v > Sorted(T)[k + 1])
  <2>1. v > Sorted(T)[k + 1] => k + 1 < Below(T, v)
    BY <1>0, <1>1, <1>2, OffRank
  <2> QED BY <2>1, <1>0, <1>1, <1>2 DEF HasRank
<1> QED
  BY <1>2, <1>3, <1>4, <1>5 DEF T, v

\* A bound that one sale more respects still holds, one rank up for an
\* upper bound.
LEMMA BoundKept ==
  ASSUME NEW S, Sales(S), NEW x, x \notin S, Price(x) \in Int,
         NEW k \in 0 .. Cardinality(S) - 1, NEW c \in Int
  PROVE  LET T == S \cup {x}
         IN  /\ c <= Price(x) /\ c <= Sorted(S)[k] => c <= Sorted(T)[k]
             /\ c >= Price(x) /\ c >= Sorted(S)[k] => c >= Sorted(T)[k + 1]
<1> DEFINE T == S \cup {x}
           N == Cardinality(S)
<1>0. /\ Sales(T) /\ Cardinality(T) = N + 1
      /\ Below(T, c) = IF Price(x) < c THEN Below(S, c) + 1 ELSE Below(S, c)
      /\ Above(T, c) = IF Price(x) > c THEN Above(S, c) + 1 ELSE Above(S, c)
  BY OneMore
<1>1. /\ N \in Nat /\ k \in 0 .. Cardinality(T) - 1 /\ k + 1 \in 0 .. Cardinality(T) - 1
      /\ Below(S, c) \in Nat /\ Above(S, c) \in Nat
  BY <1>0, Counts
<1> HIDE DEF T
<1>2. Sorted(T)[k] \in Int /\ Sorted(T)[k + 1] \in Int
  BY <1>0, <1>1, SortedAt
<1>3. c <= Price(x) /\ c <= Sorted(S)[k] => c <= Sorted(T)[k]
  <2>1. c > Sorted(T)[k] => k < Below(T, c)
    BY <1>0, <1>1, OffRank
  <2>2. c <= Sorted(S)[k] => Below(S, c) <= k
    BY OnRank
  <2> QED BY <2>1, <2>2, <1>0, <1>1, <1>2
<1>4. c >= Price(x) /\ c >= Sorted(S)[k] => c >= Sorted(T)[k + 1]
  <2>1. c < Sorted(T)[k + 1] => Cardinality(T) - Above(T, c) <= k + 1
    BY <1>0, <1>1, OffRank
  <2>2. c >= Sorted(S)[k] => k < N - Above(S, c)
    BY OnRank
  <2> QED BY <2>1, <2>2, <1>0, <1>1, <1>2
<1> QED
  BY <1>3, <1>4 DEF T

\* One sale more moves the middle towards its price if at all, and not past
\* the sales that were there.
LEMMA OneSaleMoves ==
  ASSUME NEW S, Sales(S), Cardinality(S) > 1, NEW x, x \notin S, Price(x) \in Int
  PROVE  LET T == S \cup {x}
         IN  /\ Price(x) >= Middle(S) => Middle(T) >= Middle(S)
             /\ Price(x) <= Middle(S) => Middle(T) <= Middle(S)
             /\ \E y \in S : Price(y) <= Middle(T)
             /\ \E y \in S : Price(y) >= Middle(T)
<1> DEFINE T == S \cup {x}
           N == Cardinality(S)
           q == N \div 2
           m == Middle(S)
           a == Sorted(S)
           b == Sorted(T)
<1>1. Sales(T) /\ Cardinality(T) = N + 1 /\ N \in Nat /\ N > 1
  BY OneMore, Counts
<1>2. S # {} /\ T # {}
  BY FS_EmptySet
<1>3. m \in Int
  BY <1>2, MiddleBetween
<1>4. q \in Nat /\ q \in 0 .. N - 1 /\ q - 1 \in 0 .. N - 1 /\ (q - 1) + 1 = q
  BY <1>1
<1>5. ASSUME NEW k \in 0 .. N - 1
      PROVE  /\ a[k] \in Int /\ b[k] \in Int /\ b[k + 1] \in Int
             /\ b[k] <= a[k] /\ a[k] <= b[k + 1]
             /\ m <= Price(x) /\ m <= a[k] => m <= b[k]
             /\ m >= Price(x) /\ m >= a[k] => m >= b[k + 1]
             /\ \E y \in S : Price(y) = a[k]
  <2>1. a[k] \in Int /\ a[k] \in Cents(S)
    BY SortedAt
  <2>2. k \in 0 .. Cardinality(T) - 1 /\ k + 1 \in 0 .. Cardinality(T) - 1
    BY <1>1
  <2>3. b[k] \in Int /\ b[k + 1] \in Int
    <3> HIDE DEF T
    <3> QED BY <1>1, <2>2, SortedAt
  <2>4. b[k] <= a[k] /\ a[k] <= b[k + 1]
    BY Interlaced
  <2>5. /\ m <= Price(x) /\ m <= a[k] => m <= b[k]
        /\ m >= Price(x) /\ m >= a[k] => m >= b[k + 1]
    BY <1>3, BoundKept
  <2> QED
    BY <2>1, <2>3, <2>4, <2>5 DEF Cents
<1>6. Middle(T) = (b[N \div 2] + b[(N + 1) \div 2]) \div 2
  <2>1. (Cardinality(T) - 1) \div 2 = N \div 2
    BY <1>1
  <2> QED BY <1>1, <2>1, Zenon DEF Middle
<1>7. m = (a[(N - 1) \div 2] + a[q]) \div 2
  BY DEF Middle
<1> HIDE DEF a, b, m, T
<1>8. CASE N % 2 = 0
  <2>1. (N - 1) \div 2 = q - 1 /\ (N + 1) \div 2 = q
    BY <1>1, <1>8
  <2>2. m = (a[q - 1] + a[q]) \div 2 /\ Middle(T) = (b[q] + b[q]) \div 2
    BY <1>6, <1>7, <2>1, Zenon
  <2> HIDE DEF q
  <2>3. /\ a[q] \in Int /\ b[q] \in Int /\ b[q] <= a[q]
        /\ m <= Price(x) /\ m <= a[q] => m <= b[q]
        /\ \E y \in S : Price(y) = a[q]
    BY <1>4, <1>5
  <2>4. /\ a[q - 1] \in Int /\ a[q - 1] <= b[q]
        /\ m >= Price(x) /\ m >= a[q - 1] => m >= b[q]
        /\ \E y \in S : Price(y) = a[q - 1]
    BY <1>4, <1>5, Zenon
  <2>5. a[q - 1] <= m /\ m <= a[q] /\ Middle(T) = b[q]
    BY <2>2, <2>3, <2>4
  <2> QED
    BY <1>3, <2>3, <2>4, <2>5 DEF m, T
<1>9. CASE N % 2 = 1
  <2>1. (N - 1) \div 2 = q /\ (N + 1) \div 2 = q + 1 /\ q + 1 \in 0 .. N - 1
    BY <1>1, <1>9
  <2>2. m = (a[q] + a[q]) \div 2 /\ Middle(T) = (b[q] + b[q + 1]) \div 2
    BY <1>6, <1>7, <2>1, Zenon
  <2> HIDE DEF q
  <2>3. /\ a[q] \in Int /\ b[q] \in Int /\ b[q + 1] \in Int
        /\ b[q] <= a[q] /\ a[q] <= b[q + 1]
        /\ m <= Price(x) /\ m <= a[q] => m <= b[q]
        /\ m >= Price(x) /\ m >= a[q] => m >= b[q + 1]
    BY <1>4, <1>5
  <2>4. /\ a[q - 1] \in Int /\ a[q - 1] <= b[q]
        /\ \E y \in S : Price(y) = a[q - 1]
    BY <1>4, <1>5, Zenon
  <2>5. /\ a[q + 1] \in Int /\ b[q + 1] <= a[q + 1]
        /\ \E y \in S : Price(y) = a[q + 1]
    BY <1>5, <2>1
  <2>6. m = a[q] /\ Middle(T) \in Int /\ b[q] <= Middle(T) /\ Middle(T) <= b[q + 1]
    BY <2>2, <2>3
  <2> QED
    BY <1>3, <2>3, <2>4, <2>5, <2>6 DEF m, T
<1> QED
  BY <1>1, <1>8, <1>9

-----------------------------------------------------------------------------
(* The rows of the sheet.                                                  *)

SheetOK == sheet \in [Rows -> Nat]

\* What the worker takes a listing to resell for is what the sheet says.
Judged == estimate = [l \in Listings |-> Judge(l)]

PricingInv == SheetOK /\ Judged

LEMMA InEntries ==
  SheetOK => \A x : x \in Entries <=> \E r \in Rows : \E i \in Nat \ {0} :
                                       x = <<r, i>> /\ i <= sheet[r]
<1> SUFFICES ASSUME SheetOK, NEW x
             PROVE  x \in Entries <=> \E r \in Rows : \E i \in Nat \ {0} :
                                        x = <<r, i>> /\ i <= sheet[r]
  OBVIOUS
<1>1. \A r \in Rows : sheet[r] \in Nat
  BY DEF SheetOK
<1>2. x \in Entries <=> \E r \in Rows : \E i \in 1 .. sheet[r] : x = <<r, i>>
  BY DEF Entries
<1> QED
  BY <1>1, <1>2

LEMMA EntriesFinite == SheetOK => IsFiniteSet(Entries)
<1> SUFFICES ASSUME SheetOK
             PROVE  IsFiniteSet(Entries)
  OBVIOUS
<1> DEFINE E == {{r} \X (1 .. sheet[r]) : r \in Rows}
           f == [r \in Rows |-> {r} \X (1 .. sheet[r])]
<1>1. IsFiniteSet(Rows)
  BY PricingAssumption DEF PricingAssumption
<1>2. f \in Surjection(Rows, E)
  BY DEF Surjection
<1>3. IsFiniteSet(E)
  <2> HIDE DEF E, f
  <2> QED BY <1>1, <1>2, FS_Surjection
<1>4. ASSUME NEW r \in Rows
      PROVE  IsFiniteSet({r} \X (1 .. sheet[r]))
  <2>1. sheet[r] \in Int
    BY DEF SheetOK
  <2>2. IsFiniteSet(1 .. sheet[r])
    BY <2>1, FS_Interval
  <2>3. IsFiniteSet({r})
    BY FS_Singleton, Zenon
  <2> QED BY <2>2, <2>3, FS_Product
<1>5. \A e \in E : IsFiniteSet(e)
  BY <1>4
<1>6. IsFiniteSet(UNION E)
  <2> HIDE DEF E
  <2> QED BY <1>3, <1>5, FS_UNION
<1> QED
  BY <1>6 DEF Entries

\* What estimates are made of are sales.
LEMMA FromSheet ==
  SheetOK => \A model, l : Sales(SalesOf(model)) /\ Sales(Segment(model, l))
<1> SUFFICES ASSUME SheetOK, NEW model, NEW l
             PROVE  Sales(SalesOf(model)) /\ Sales(Segment(model, l))
  OBVIOUS
<1>1. \A x \in Entries : Price(x) \in Int
  BY InEntries, PricingAssumption DEF PricingAssumption, Price
<1>2. SalesOf(model) \in SUBSET Entries /\ Segment(model, l) \in SUBSET Entries
  BY DEF SalesOf, Segment
<1>3. IsFiniteSet(SalesOf(model)) /\ IsFiniteSet(Segment(model, l))
  BY <1>2, EntriesFinite, FS_Subset
<1> QED
  BY <1>1, <1>2, <1>3 DEF Sales

LEMMA SheetGrows ==
  ASSUME SheetOK, NEW r \in Rows, AddRow(r)
  PROVE  LET x == <<r, sheet[r] + 1>>
         IN  x \notin Entries /\ Entries' = Entries \cup {x}
<1>1. /\ sheet \in [Rows -> Nat] /\ sheet' \in [Rows -> Nat]
      /\ sheet' = [sheet EXCEPT ![r] = @ + 1]
  BY DEF SheetOK, AddRow
<1>2. \A y : y \in Entries <=> \E q \in Rows : \E i \in Nat \ {0} : y = <<q, i>> /\ i <= sheet[q]
  BY InEntries
<1>3. \A y : y \in Entries' <=> \E q \in Rows : \E i \in Nat \ {0} : y = <<q, i>> /\ i <= sheet'[q]
  <2>1. \A q \in Rows : sheet'[q] \in Nat
    BY <1>1
  <2>2. \A y : y \in Entries' <=> \E q \in Rows : \E i \in 1 .. sheet'[q] : y = <<q, i>>
    BY DEF Entries
  <2> QED BY <2>1, <2>2
<1> DEFINE x == <<r, sheet[r] + 1>>
<1>4. x \notin Entries
  BY <1>1, <1>2
<1>5. ASSUME NEW y
      PROVE  y \in Entries' <=> y \in Entries \/ y = x
  BY <1>1, <1>2, <1>3
<1>6. Entries' = Entries \cup {x}
  BY <1>5
<1> QED
  BY <1>4, <1>6

-----------------------------------------------------------------------------
(* The invariant.                                                          *)

LEMMA PricingInit == Init => PricingInv
  BY DEF Init, PricingInv, SheetOK, Judged

LEMMA PricingStep == PricingInv /\ [Next]_<<sheet, estimate>> => PricingInv'
<1> SUFFICES ASSUME PricingInv, [Next]_<<sheet, estimate>>
             PROVE  PricingInv'
  OBVIOUS
<1>1. ASSUME NEW r \in Rows, AddRow(r)
      PROVE  PricingInv'
  <2>1. sheet \in [Rows -> Nat] /\ sheet' = [sheet EXCEPT ![r] = @ + 1]
    BY <1>1 DEF AddRow, PricingInv, SheetOK
  <2>2. SheetOK'
    BY <2>1 DEF SheetOK
  <2>3. Judged'
    BY <1>1 DEF AddRow, Judged
  <2> QED
    BY <2>2, <2>3 DEF PricingInv
<1>2. CASE UNCHANGED <<sheet, estimate>>
  <2>1. SheetOK'
    BY <1>2 DEF PricingInv, SheetOK
  <2>2. \A l : Judge(l)' = Judge(l)
    BY <1>2 DEF Judge, Estimate, Segment, SalesOf, Entries
  <2>3. Judged'
    BY <1>2, <2>2 DEF PricingInv, Judged
  <2> QED
    BY <2>1, <2>3 DEF PricingInv
<1> QED
  BY <1>1, <1>2 DEF Next

LEMMA PricingInvariant == Spec => []PricingInv
  BY PricingInit, PricingStep, PTL DEF Spec

\* An estimate from history is one of its comparable sales, from as many of
\* them as it takes.
FromHistory ==
  \A l \in Informed :
    LET e     == estimate[l]
        sales == Comparables(l)
    IN /\ Sales(sales) /\ sales # {}
       /\ e = RobustEstimate(sales, e.method)
       /\ Cardinality(sales) >= IF e.method = "segment" THEN MinimumSegmentData
                                                        ELSE MinimumModelData

LEMMA HistoryJudged == PricingInv => FromHistory
<1> SUFFICES ASSUME PricingInv, NEW l \in Informed
             PROVE  LET e     == estimate[l]
                        sales == Comparables(l)
                    IN /\ Sales(sales) /\ sales # {}
                       /\ e = RobustEstimate(sales, e.method)
                       /\ Cardinality(sales) >= IF e.method = "segment" THEN MinimumSegmentData
                                                                        ELSE MinimumModelData
  BY DEF FromHistory
<1> DEFINE e == estimate[l]
           seg == Segment(Model(l), l)
           all == SalesOf(Model(l))
<1>1. l \in Listings /\ e = Judge(l) /\ e.method \in {"segment", "model"}
  BY DEF Informed, Historical, PricingInv, Judged
<1>2. e # NoEstimate
  BY <1>1 DEF NoEstimate
<1>3. e = Estimate(Model(l), l)
  BY <1>1, <1>2, Zenon DEF Judge
<1>4. Sales(seg) /\ Sales(all)
  BY FromSheet DEF PricingInv
<1>5. \A S, m : RobustEstimate(S, m).method = m
  BY DEF RobustEstimate
<1>6. CASE Cardinality(seg) >= MinimumSegmentData
  <2>1. e = RobustEstimate(seg, "segment")
    BY <1>3, <1>6, Zenon DEF Estimate
  <2>2. e.method = "segment"
    BY <1>5, <2>1
  <2>3. Comparables(l) = seg
    BY <2>2 DEF Comparables
  <2>4. seg # {}
    BY <1>6, FS_EmptySet DEF MinimumSegmentData
  <2> HIDE DEF e, seg
  <2> QED
    BY <1>4, <1>6, <2>1, <2>2, <2>3, <2>4 DEF e
<1>7. CASE ~(Cardinality(seg) >= MinimumSegmentData) /\ Cardinality(all) >= MinimumModelData
  <2>1. e = RobustEstimate(all, "model")
    BY <1>3, <1>7, Zenon DEF Estimate
  <2>2. e.method = "model"
    BY <1>5, <2>1
  <2>3. Comparables(l) = all
    BY <2>2 DEF Comparables
  <2>4. all # {}
    BY <1>7, FS_EmptySet DEF MinimumModelData
  <2> HIDE DEF e, all
  <2> QED
    BY <1>4, <1>7, <2>1, <2>2, <2>3, <2>4 DEF e
<1>8. CASE /\ ~(Cardinality(seg) >= MinimumSegmentData)
           /\ ~(Cardinality(all) >= MinimumModelData)
  <2>1. \/ e = [method |-> "fallback", expected |-> ResaleRules[Model(l)]]
        \/ e = NoEstimate
    BY <1>3, <1>8, Zenon DEF Estimate
  <2>2. e.method = "fallback" \/ e.method = "none"
    BY <2>1 DEF NoEstimate
  <2> QED
    BY <1>1, <2>2
<1> QED
  BY <1>6, <1>7, <1>8

-----------------------------------------------------------------------------
(* The theorems.                                                           *)

\* An estimate from history is the median of its comparable sales, from as
\* many of them as the worker asks, and its range leaves out at most a tenth
\* of them on either side (pricing.Estimator, robustEstimate).
THEOREM EstimateIsMedianThm == Spec => []EstimateIsMedian
<1>1. FromHistory => EstimateIsMedian
  <2> SUFFICES ASSUME FromHistory, NEW l \in Informed
               PROVE  LET e     == estimate[l]
                          sales == Comparables(l)
                      IN /\ e.expected = (LowerMedian(sales) + UpperMedian(sales)) \div 2
                         /\ e.samples = Cardinality(sales)
                         /\ e.samples >= IF e.method = "segment" THEN MinimumSegmentData
                                                                 ELSE MinimumModelData
                         /\ 10 * Below(sales, e.low) <= e.samples
                         /\ 10 * Above(sales, e.high) <= e.samples
    BY DEF EstimateIsMedian
  <2> DEFINE e == estimate[l]
             S == Comparables(l)
  <2>1. /\ Sales(S) /\ S # {} /\ e = RobustEstimate(S, e.method)
        /\ Cardinality(S) >= IF e.method = "segment" THEN MinimumSegmentData
                                                     ELSE MinimumModelData
    BY DEF FromHistory
  <2> HIDE DEF e, S
  <2>2. /\ e.expected = Middle(S) /\ e.samples = Cardinality(S)
        /\ e.low = Sorted(S)[Cardinality(S) \div 10]
        /\ e.high = Sorted(S)[Cardinality(S) - 1 - Cardinality(S) \div 10]
    BY <2>1, TrimmedMiddle
  <2>3. e.expected = (LowerMedian(S) + UpperMedian(S)) \div 2
    BY <2>1, <2>2, Medians
  <2>4. 10 * Below(S, e.low) <= e.samples /\ 10 * Above(S, e.high) <= e.samples
    BY <2>1, <2>2, TrimmedTenth
  <2> QED
    BY <2>1, <2>2, <2>3, <2>4 DEF e, S
<1> QED
  BY <1>1, HistoryJudged, PricingInvariant, PTL

\* Of the sales that make a listing qualify at least half fetched its price
\* and the minimum profit (evaluation.Evaluate on Estimator's estimate).
THEOREM QualifiedPaysOffThm == Spec => []QualifiedPaysOff
<1>1. FromHistory => QualifiedPaysOff
  <2> SUFFICES ASSUME FromHistory, NEW l \in Informed, Qualified(l)
               PROVE  LET sales == Comparables(l)
                          paid  == {x \in sales : Price(x) >= l.cents + MinimumProfit}
                      IN /\ Cardinality(sales) >= MinimumSegmentData
                         /\ 2 * Cardinality(paid) >= Cardinality(sales)
    BY DEF QualifiedPaysOff
  <2> DEFINE e == estimate[l]
             S == Comparables(l)
             c == l.cents + MinimumProfit
  <2>1. /\ Sales(S) /\ S # {} /\ e = RobustEstimate(S, e.method)
        /\ Cardinality(S) >= IF e.method = "segment" THEN MinimumSegmentData
                                                     ELSE MinimumModelData
    BY DEF FromHistory
  <2>2. Cardinality(S) >= MinimumSegmentData
    <3>1. Cardinality(S) \in Nat
      BY <2>1, Counts
    <3> QED BY <2>1, <3>1 DEF MinimumSegmentData, MinimumModelData
  <2>3. l.cents \in Int /\ MinimumProfit \in Int
    BY PricingAssumption DEF Informed, PricingAssumption
  <2>4. e.expected - l.cents >= MinimumProfit
    BY DEF Qualified, Evaluate
  <2>5. e.expected = Middle(S) /\ Middle(S) \in Int
    <3> HIDE DEF e, S
    <3> QED BY <2>1, TrimmedMiddle, MiddleBetween
  <2>6. c \in Int /\ c <= Middle(S)
    BY <2>3, <2>4, <2>5
  <2>7. 2 * Cardinality({x \in S : Price(x) >= c}) >= Cardinality(S)
    <3> HIDE DEF S, c
    <3> QED BY <2>1, <2>6, HalfPaid
  <2> QED
    BY <2>2, <2>7
<1> QED
  BY <1>1, HistoryJudged, PricingInvariant, PTL

\* What one row more makes of the sales of a model.
LEMMA ComparablesGrow ==
  ASSUME SheetOK, NEW r \in Rows, AddRow(r), NEW model, NEW l
  PROVE  LET x == <<r, sheet[r] + 1>>
         IN  /\ SalesOf(model)' \in {SalesOf(model), SalesOf(model) \cup {x}}
             /\ Segment(model, l)' \in {Segment(model, l), Segment(model, l) \cup {x}}
<1> DEFINE x == <<r, sheet[r] + 1>>
           fits(y) == ParseCSV(y[1]) /\ NormalizedModel(y[1]) = model
           alike(y) == /\ normalizeSize(y[1].size) = l.size
                       /\ normalizeCondition(y[1].condition) = l.condition
<1>1. Entries' = Entries \cup {x}
  BY SheetGrows
<1>2. SalesOf(model)' = {y \in Entries' : fits(y)} /\ SalesOf(model) = {y \in Entries : fits(y)}
  BY DEF SalesOf
<1>3. /\ Segment(model, l)' = {y \in SalesOf(model)' : alike(y)}
      /\ Segment(model, l) = {y \in SalesOf(model) : alike(y)}
  BY DEF Segment
<1> HIDE DEF x, fits, alike
<1>4. SalesOf(model)' = IF fits(x) THEN SalesOf(model) \cup {x} ELSE SalesOf(model)
  BY <1>1, <1>2
<1>5. Segment(model, l)' = IF fits(x) /\ alike(x) THEN Segment(model, l) \cup {x}
                                                  ELSE Segment(model, l)
  BY <1>3, <1>4
<1> QED
  BY <1>4, <1>5 DEF x

\* One more sale moves an estimate towards its price if at all, and not past
\* the sales that were there (robustEstimate, behind Estimator.Estimate).
THEOREM OneSaleNeverDecidesThm == Spec => OneSaleNeverDecides
<1> DEFINE Sound(r, l) ==
      LET e   == estimate[l]
          new == estimate'[l]
      IN new.method = e.method =>
           /\ r.cents >= e.expected => new.expected >= e.expected
           /\ r.cents <= e.expected => new.expected <= e.expected
           /\ \E x \in Comparables(l) : Price(x) <= new.expected
           /\ \E x \in Comparables(l) : Price(x) >= new.expected
           Quiet == \A r \in {q \in Rows : sheet'[q] > sheet[q]}, l \in Informed : Sound(r, l)
<1>1. PricingInv /\ PricingInv' /\ FromHistory /\ FromHistory' /\ [Next]_<<sheet, estimate>>
        => [Quiet]_<<sheet, estimate>>
  <2> SUFFICES ASSUME PricingInv, FromHistory, FromHistory', [Next]_<<sheet, estimate>>,
                      NEW r \in Rows, sheet'[r] > sheet[r], NEW l \in Informed,
                      estimate'[l].method = estimate[l].method
               PROVE  Sound(r, l)
    OBVIOUS
  <2>1. sheet \in [Rows -> Nat] /\ sheet[r] \in Nat
    BY DEF PricingInv, SheetOK
  <2>2. AddRow(r)
    <3>1. sheet' # sheet
      BY <2>1
    <3>2. PICK q \in Rows : AddRow(q)
      BY <3>1 DEF Next
    <3>3. sheet' = [sheet EXCEPT ![q] = @ + 1]
      BY <3>2 DEF AddRow
    <3>4. q = r
      BY <2>1, <3>3
    <3> QED BY <3>2, <3>4
  <2> DEFINE x == <<r, sheet[r] + 1>>
             e == estimate[l]
             new == estimate'[l]
             S == Comparables(l)
             T == IF e.method = "segment" THEN Segment(Model(l), l)' ELSE SalesOf(Model(l))'
  <2>3. /\ Sales(S) /\ S # {} /\ e = RobustEstimate(S, e.method)
        /\ Cardinality(S) >= IF e.method = "segment" THEN MinimumSegmentData
                                                     ELSE MinimumModelData
    BY DEF FromHistory
  <2>4. l \in Informed'
    BY DEF Informed
  <2>5. Comparables(l)' = T
    BY DEF Comparables
  <2>6. Sales(T) /\ T # {} /\ new = RobustEstimate(T, new.method)
    BY <2>4, <2>5 DEF FromHistory
  <2>7. x \notin S /\ T \in {S, S \cup {x}}
    <3>1. x \notin Entries
      BY <2>2, SheetGrows DEF PricingInv
    <3>2. /\ SalesOf(Model(l))' \in {SalesOf(Model(l)), SalesOf(Model(l)) \cup {x}}
          /\ Segment(Model(l), l)' \in {Segment(Model(l), l), Segment(Model(l), l) \cup {x}}
      BY <2>2, ComparablesGrow DEF PricingInv
    <3>3. S \subseteq Entries
      BY DEF Comparables, Segment, SalesOf
    <3>4. T \in {S, S \cup {x}}
      BY <3>2, Zenon DEF Comparables
    <3> QED BY <3>1, <3>3, <3>4
  <2>8. Price(x) = r.cents /\ r.cents \in Int
    BY PricingAssumption DEF PricingAssumption, Price
  <2> HIDE DEF x, e, S, T, new
  <2>9. e.expected = Middle(S) /\ new.expected = Middle(T)
    BY <2>3, <2>6, TrimmedMiddle
  <2>10. /\ r.cents >= Middle(S) => Middle(T) >= Middle(S)
         /\ r.cents <= Middle(S) => Middle(T) <= Middle(S)
         /\ \E y \in S : Price(y) <= Middle(T)
         /\ \E y \in S : Price(y) >= Middle(T)
    <3>1. CASE T = S
      <4> DEFINE j == (Cardinality(S) - 1) \div 2
                 k == Cardinality(S) \div 2
      <4>1. j \in 0 .. Cardinality(S) - 1 /\ k \in 0 .. Cardinality(S) - 1
        BY <2>3, MiddleRanks
      <4>2. Sorted(S)[j] <= Middle(S) /\ Middle(S) <= Sorted(S)[k] /\ Middle(S) \in Int
        BY <2>3, MiddleBetween
      <4>3. Sorted(S)[j] \in Cents(S) /\ Sorted(S)[k] \in Cents(S)
        <5> HIDE DEF j, k
        <5> QED BY <2>3, <4>1, SortedAt
      <4>4. Sorted(S)[k] \in Int
        <5> HIDE DEF j, k
        <5> QED BY <2>3, <4>1, SortedAt
      <4> QED
        BY <3>1, <4>2, <4>3, <4>4 DEF Cents
    <3>2. CASE T = S \cup {x}
      <4>1. Cardinality(S) > 1
        <5>1. Cardinality(S) \in Nat
          BY <2>3, Counts
        <5> QED BY <2>3, <5>1 DEF MinimumSegmentData, MinimumModelData
      <4> QED
        BY <2>3, <2>7, <2>8, <3>2, <4>1, OneSaleMoves
    <3> QED
      BY <2>7, <3>1, <3>2
  <2> QED
    BY <2>9, <2>10 DEF e, new, S
<1>2. PricingInv => FromHistory
  BY HistoryJudged
<1> QED
  BY <1>1, <1>2, PricingInvariant, PTL DEF Spec, OneSaleNeverDecides

=============================================================================
