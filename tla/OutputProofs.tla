---------------------------- MODULE OutputProofs ----------------------------
(***************************************************************************)
(* Proofs about the output for every device and any settings, songs and    *)
(* sizes: the equaliser applied fits what plays, a song that ends has been *)
(* heard out, and every usual rate is tried before a song fails.           *)
(*                                                                         *)
(* First finite sets in order, which the choice of rates needs, then the   *)
(* sequence of attempts (Ladder): a rate is tried right after its          *)
(* equaliser is built, and what play_file adds comes after the first call. *)
(* Then the invariant, action by action.                                   *)
(***************************************************************************)
EXTENDS Output, WellFoundedInduction, SequenceTheorems, FiniteSetTheorems, TLAPS

-----------------------------------------------------------------------------
(* Finite sets in a total order.                                           *)

\* R orders S: of any two the one comes before the other.
Ordered(S, R) ==
  /\ \A x \in S : <<x, x>> \in R
  /\ \A x, y \in S : <<x, y>> \in R \/ <<y, x>> \in R
  /\ \A x, y \in S : <<x, y>> \in R /\ <<y, x>> \in R => x = y
  /\ \A x, y, z \in S : <<x, y>> \in R /\ <<y, z>> \in R => <<x, z>> \in R

\* The elements up to x.
UpTo(S, R, x) == {y \in S : <<y, x>> \in R}

\* There are as many places as elements, so that every place has one.
LEMMA PlaceTaken ==
  ASSUME NEW S, IsFiniteSet(S), NEW R, Ordered(S, R)
  PROVE  /\ Cardinality(S) \in Nat
         /\ \A x \in S : Cardinality(UpTo(S, R, x)) \in 1..Cardinality(S)
         /\ \A n \in 1..Cardinality(S) : \E x \in S : Cardinality(UpTo(S, R, x)) = n
         /\ \A x, z \in S : Cardinality(UpTo(S, R, x)) = Cardinality(UpTo(S, R, z))
                             => x = z
<1> DEFINE upTo(x) == {y \in S : <<y, x>> \in R}
<1>1. Cardinality(S) \in Nat
  BY FS_CardinalityType
<1>2. ASSUME NEW x \in S
      PROVE  /\ IsFiniteSet(upTo(x)) /\ Cardinality(upTo(x)) \in 1..Cardinality(S)
  <2>1. upTo(x) \in SUBSET S /\ x \in upTo(x)
    BY DEF Ordered
  <2> HIDE DEF upTo
  <2>2. IsFiniteSet(upTo(x)) /\ Cardinality(upTo(x)) <= Cardinality(S)
    BY <2>1, FS_Subset
  <2>3. Cardinality(upTo(x)) \in Nat /\ Cardinality(upTo(x)) # 0
    BY <2>1, <2>2, FS_EmptySet, FS_CardinalityType
  <2> QED BY <1>1, <2>2, <2>3
<1>3. ASSUME NEW x \in S, NEW z \in S, <<x, z>> \in R, x # z
      PROVE  Cardinality(upTo(x)) # Cardinality(upTo(z))
  <2>1. upTo(x) \in SUBSET upTo(z) /\ z \in upTo(z) /\ z \notin upTo(x)
    BY <1>3 DEF Ordered
  <2>2. IsFiniteSet(upTo(z))
    BY <1>2
  <2> HIDE DEF upTo
  <2>3. Cardinality(upTo(x)) = Cardinality(upTo(z)) => upTo(x) = upTo(z)
    BY <2>1, <2>2, FS_Subset
  <2> QED BY <2>1, <2>3
<1>4. \A x, z \in S : x # z => <<x, z>> \in R \/ <<z, x>> \in R
  BY DEF Ordered
<1> DEFINE f == [x \in S |-> Cardinality(upTo(x))]  T == 1..Cardinality(S)
<1>5. \A x \in S : f[x] = Cardinality(upTo(x))
  OBVIOUS
<1>6. f \in [S -> T]
  BY <1>2
<1> HIDE DEF upTo
<1>7. \A x, z \in S : f[x] = f[z] => x = z
  BY <1>3, <1>4, <1>5
<1>8. IsFiniteSet(T) /\ Cardinality(T) = Cardinality(S)
  BY <1>1, FS_Interval
<1> HIDE DEF f, T
<1>9. f \in Surjection(S, T)
  BY <1>6, <1>7, <1>8, FS_Injection DEF Injection, IsInjective
<1>10. \A n \in T : \E x \in S : f[x] = n
  BY <1>9 DEF Surjection
<1>11. \A n \in 1..Cardinality(S) : \E x \in S : Cardinality(upTo(x)) = n
  BY <1>5, <1>10 DEF T
<1>12. \A x, z \in S : Cardinality(upTo(x)) = Cardinality(upTo(z)) => x = z
  BY <1>5, <1>7
<1> QED BY <1>1, <1>2, <1>11, <1>12 DEF upTo, UpTo

LEMMA FirstTaken ==
  ASSUME NEW S, IsFiniteSet(S), S # {}, NEW R, Ordered(S, R)
  PROVE  \E x \in S : \A y \in S : <<x, y>> \in R
<1>1. Cardinality(S) \in Nat /\ Cardinality(S) # 0
  BY FS_EmptySet, FS_CardinalityType
<1>2. 1 \in 1..Cardinality(S)
  BY <1>1
<1>3. PICK x \in S : Cardinality(UpTo(S, R, x)) = 1
  BY <1>2, PlaceTaken
<1> DEFINE upTo == UpTo(S, R, x)
<1>4. x \in upTo /\ upTo \in SUBSET S
  BY DEF Ordered, UpTo
<1> HIDE DEF upTo
<1>5. IsFiniteSet(upTo) /\ IsFiniteSet({x}) /\ Cardinality({x}) = 1
  BY <1>4, FS_Subset, FS_Singleton
<1>6. {x} = upTo
  <2>1. {x} \in SUBSET upTo /\ Cardinality(upTo) = Cardinality({x})
    BY <1>3, <1>4, <1>5 DEF upTo
  <2> QED BY <1>5, <2>1, FS_Subset
<1>7. \A y \in S : <<y, x>> \in R => y = x
  BY <1>6 DEF upTo, UpTo
<1> QED BY <1>7 DEF Ordered

\* A nonempty set of naturals has a least element.
LEMMA LeastNumber ==
  ASSUME NEW S \in SUBSET Nat, S # {}
  PROVE  \E m \in S : \A j \in S : m <= j
<1>1. IsWellFoundedOn(OpToRel(<, Nat), Nat)
  BY NatLessThanWellFounded
<1>2. PICK m \in S : \A j \in S : ~ (<<j, m>> \in OpToRel(<, Nat))
  BY <1>1, WFMin
<1>3. \A j \in S : ~ (j < m)
  BY <1>2 DEF OpToRel
<1> QED BY <1>3

-----------------------------------------------------------------------------
(* The rates that are tried.                                               *)

Ranges == Seq(Nat \X Nat)

LEMMA BoundsFacts ==
  ASSUME NEW d \in Ranges
  PROVE  Bounds(d) \in Seq(Nat) /\ Len(Bounds(d)) = 2 * Len(d)
<1> DEFINE n == Len(d)
<1>1. n \in Nat /\ \A i \in 1..n : d[i] \in Nat \X Nat
  BY DEF Ranges
<1>2. \A i \in 1..n : d[i][1] \in Nat /\ d[i][2] \in Nat
  BY <1>1
<1> HIDE DEF n
<1>3. ASSUME NEW i \in 1..(2 * n)
      PROVE  (i + 1) \div 2 \in 1..n /\ 2 - (i % 2) \in {1, 2}
  BY <1>1
<1>4. ASSUME NEW i \in 1..(2 * n)
      PROVE  d[(i + 1) \div 2][2 - (i % 2)] \in Nat
  <2> DEFINE h == (i + 1) \div 2  e == 2 - (i % 2)
  <2>1. h \in 1..n /\ e \in {1, 2}
    BY <1>3
  <2> HIDE DEF h, e
  <2>2. d[h][e] \in Nat
    BY <1>2, <2>1
  <2> QED BY <2>2 DEF h, e
<1>5. Bounds(d) = [i \in 1..(2 * n) |-> d[(i + 1) \div 2][2 - (i % 2)]]
  BY DEF Bounds, n
<1>6. Bounds(d) \in [1..(2 * n) -> Nat]
  BY <1>4, <1>5
<1>7. 2 * n \in Nat
  BY <1>1
<1> QED BY <1>6, <1>7 DEF n

LEMMA DistFacts ==
  ASSUME NEW a \in Nat, NEW b \in Nat
  PROVE  Dist(a, b) \in Nat
BY DEF Dist

LEMMA ClosestFacts ==
  ASSUME NEW d \in Ranges, d # <<>>, NEW r \in Nat
  PROVE  Closest(d, r) \in Nat
<1> DEFINE b == Bounds(d)
<1>1. b \in Seq(Nat) /\ Len(b) = 2 * Len(d) /\ Len(d) \in Nat /\ Len(d) # 0
  BY BoundsFacts DEF Ranges
<1> HIDE DEF b
<1>2. 1 \in DOMAIN b /\ DOMAIN b \in SUBSET Nat /\ \A i \in DOMAIN b : b[i] \in Nat
  BY <1>1
<1>3. \A i \in DOMAIN b : Dist(r, b[i]) \in Nat
  BY <1>2, DistFacts
<1> DEFINE far == {Dist(r, b[i]) : i \in DOMAIN b}
<1>4. far \in SUBSET Nat /\ far # {}
  BY <1>2, <1>3
<1>5. PICK m \in far : \A j \in far : m <= j
  BY <1>4, LeastNumber
<1> DEFINE at == {i \in DOMAIN b : Dist(r, b[i]) = m}
<1>6. at \in SUBSET Nat /\ at # {}
  BY <1>2
<1>7. PICK i \in at : \A j \in at : i <= j
  BY <1>6, LeastNumber
<1>8. ASSUME NEW j \in DOMAIN b
      PROVE  \/ Dist(r, b[i]) < Dist(r, b[j])
             \/ Dist(r, b[i]) = Dist(r, b[j]) /\ i <= j
  <2>1. Dist(r, b[i]) = m /\ m \in Nat /\ i \in DOMAIN b
    BY <1>3, <1>7
  <2>2. Dist(r, b[j]) \in far
    OBVIOUS
  <2>3. m <= Dist(r, b[j]) /\ Dist(r, b[j]) \in Nat
    BY <1>3, <1>5, <2>2
  <2>4. Dist(r, b[j]) = m => i <= j
    BY <1>7
  <2> HIDE DEF far, at
  <2> QED BY <2>1, <2>3, <2>4
<1>9. \E k \in DOMAIN b : \A j \in DOMAIN b :
         \/ Dist(r, b[k]) < Dist(r, b[j])
         \/ Dist(r, b[k]) = Dist(r, b[j]) /\ k <= j
  BY <1>7, <1>8
<1> QED BY <1>2, <1>9 DEF Closest, b

LEMMA FindRateFacts ==
  ASSUME NEW d \in Ranges, NEW r \in Nat
  PROVE  FindRate(d, r) \in Nat
<1> DEFINE b == Bounds(d)  multiples == {x \in Range(b) : x > r /\ x % r = 0}
<1>1. b \in Seq(Nat)
  BY BoundsFacts
<1>2. multiples \in SUBSET Nat
  BY <1>1 DEF Range
<1> HIDE DEF b, multiples
<1>3. multiples # {} => (CHOOSE m \in multiples : \A n \in multiples : m <= n) \in Nat
  BY <1>2, LeastNumber
<1>4. d # <<>> => Closest(d, r) \in Nat
  BY ClosestFacts
<1>5. FindRate(d, r) = CASE Claims(d, r) \/ d = <<>> -> NoRate
                         [] ~Claims(d, r) /\ multiples # {} -> CHOOSE m \in multiples : \A n \in multiples : m <= n
                         [] OTHER -> Closest(d, r)
  BY DEF FindRate, multiples, b
<1>6. CASE Claims(d, r) \/ d = <<>>
  BY <1>3, <1>5, <1>6 DEF NoRate
<1>7. CASE ~(Claims(d, r) \/ d = <<>>)
  <2>1. CASE multiples # {}
    BY <1>3, <1>5, <1>7, <2>1
  <2>2. CASE multiples = {}
    BY <1>4, <1>5, <1>7, <2>2
  <2> QED BY <2>1, <2>2
<1> QED BY <1>6, <1>7

LEMMA WantedFacts ==
  ASSUME NEW d \in Ranges, NEW r \in Nat
  PROVE  /\ Wanted(d, r) \in Seq(Nat)
         /\ \A q \in Range(Standard) : \E i \in DOMAIN Wanted(d, r) : Wanted(d, r)[i] = q
<1> DEFINE a == <<2 * r, 3 * r, 4 * r>>  b == Bounds(d)  w == (a \o b) \o Standard
<1>1. a \in Seq(Nat) /\ b \in Seq(Nat) /\ Standard \in Seq(Nat)
  BY BoundsFacts, OutputAssumption
<1> HIDE DEF a, b
<1>2. a \o b \in Seq(Nat)
  BY <1>1, ConcatProperties
<1>3. w \in Seq(Nat)
  BY <1>1, <1>2, ConcatProperties
<1>4. /\ Len(w) = Len(a \o b) + Len(Standard)
      /\ \A i \in 1..(Len(a \o b) + Len(Standard)) :
           w[i] = IF i <= Len(a \o b) THEN (a \o b)[i] ELSE Standard[i - Len(a \o b)]
  BY <1>1, <1>2, ConcatProperties
<1> DEFINE m == Len(a \o b)  n == Len(Standard)
<1>5. m \in Nat /\ n \in Nat /\ DOMAIN w = 1..(m + n) /\ DOMAIN Standard = 1..n
  BY <1>1, <1>2, <1>3, <1>4
<1> HIDE DEF m, n, w
<1>6. ASSUME NEW k \in 1..n
      PROVE  k + m \in 1..(m + n) /\ ~(k + m <= m) /\ (k + m) - m = k
  BY <1>5
<1>7. ASSUME NEW k \in 1..n
      PROVE  \E i \in DOMAIN w : w[i] = Standard[k]
  BY <1>4, <1>5, <1>6 DEF m, n
<1>8. \A q \in Range(Standard) : \E i \in DOMAIN w : w[i] = q
  BY <1>5, <1>7 DEF Range
<1> QED BY <1>3, <1>8 DEF Wanted, w, a, b

\* The order in which the rates are wanted is one.
LEMMA SoonerOrders ==
  ASSUME NEW d \in Ranges, NEW r \in Nat, NEW S \in SUBSET DOMAIN Wanted(d, r),
         NEW R, \A i, j \in S : <<i, j>> \in R <=> Sooner(d, r, i, j)
  PROVE  Ordered(S, R)
<1> DEFINE far(k) == IF k <= 3 THEN 0 ELSE Dist(r, Wanted(d, r)[k])
<1>1. Wanted(d, r) \in Seq(Nat)
  BY WantedFacts
<1>2. S \in SUBSET Nat /\ \A i \in S : Wanted(d, r)[i] \in Nat
  BY ONLY <1>1, S \in SUBSET DOMAIN Wanted(d, r)
<1>3. \A i \in S : far(i) \in Nat
  BY <1>2, DistFacts
<1>4. \A i \in S : Tier(d, i) \in Nat
  BY DEF Tier
<1>5. \A i, j \in S : <<i, j>> \in R <=>
         \/ Tier(d, i) < Tier(d, j)
         \/ Tier(d, i) = Tier(d, j) /\ far(i) < far(j)
         \/ Tier(d, i) = Tier(d, j) /\ far(i) = far(j) /\ i <= j
  BY DEF Sooner
<1> HIDE DEF far
<1>6. \A x \in S : <<x, x>> \in R
  BY <1>2, <1>3, <1>4, <1>5
<1>7. ASSUME NEW x \in S, NEW y \in S
      PROVE  <<x, y>> \in R \/ <<y, x>> \in R
  <2>1. x \in Nat /\ y \in Nat /\ far(x) \in Nat /\ far(y) \in Nat /\ Tier(d, x) \in Nat /\ Tier(d, y) \in Nat
    BY <1>2, <1>3, <1>4
  <2>2. CASE Tier(d, x) # Tier(d, y)
    BY <1>5, <2>1, <2>2
  <2>3. CASE Tier(d, x) = Tier(d, y) /\ far(x) # far(y)
    BY <1>5, <2>1, <2>3
  <2>4. CASE Tier(d, x) = Tier(d, y) /\ far(x) = far(y)
    BY <1>5, <2>1, <2>4
  <2> QED BY <2>2, <2>3, <2>4
<1>8. \A x, y \in S : <<x, y>> \in R /\ <<y, x>> \in R => x = y
  BY <1>2, <1>3, <1>4, <1>5
<1>9. \A x, y, z \in S : <<x, y>> \in R /\ <<y, z>> \in R => <<x, z>> \in R
  BY <1>2, <1>3, <1>4, <1>5
<1> QED BY <1>6, <1>7, <1>8, <1>9 DEF Ordered

LEMMA CandidatesFacts ==
  ASSUME NEW d \in Ranges, NEW r \in Nat
  PROVE  /\ Candidates(d, r) \in Seq(Nat)
         /\ \A q \in Range(Standard) : Claims(d, q) /\ q # r =>
              \E n \in DOMAIN Candidates(d, r) : Candidates(d, r)[n] = q
<1> DEFINE w == Wanted(d, r)  K == Kept(d, r)
           R == {p \in (DOMAIN w) \X (DOMAIN w) : Sooner(d, r, p[1], p[2])}
           upTo(i) == UpTo(K, R, i)
<1>1. w \in Seq(Nat)
  BY WantedFacts
<1>2. w \in Seq(Nat) /\ DOMAIN w \in SUBSET Nat /\ \A i \in DOMAIN w : w[i] \in Nat
  <2> HIDE DEF w
  <2> QED BY <1>1
<1>3. IsFiniteSet(DOMAIN w)
  <2>1. Len(w) \in Nat /\ DOMAIN w = 1..Len(w)
    BY <1>2
  <2>2. 1 \in Int /\ Len(w) \in Int
    BY <2>1
  <2>3. IsFiniteSet(1..Len(w))
    BY ONLY <2>2, FS_Interval
  <2> QED BY <2>1, <2>3
<1>4. \A i, j \in DOMAIN w : <<i, j>> \in R <=> Sooner(d, r, i, j)
  OBVIOUS
<1>5. K \in SUBSET DOMAIN w
  BY DEF Kept
<1> HIDE DEF R
<1>6. ASSUME NEW S \in SUBSET DOMAIN w
      PROVE  IsFiniteSet(S) /\ Ordered(S, R)
  <2>1. IsFiniteSet(S)
    BY <1>3, FS_Subset
  <2>2. S \in SUBSET DOMAIN Wanted(d, r) /\ \A i, j \in S : <<i, j>> \in R <=> Sooner(d, r, i, j)
    BY <1>4
  <2>3. Ordered(S, R)
    BY ONLY <2>2, SoonerOrders, d \in Ranges, r \in Nat
  <2> QED BY <2>1, <2>3
<1>7. IsFiniteSet(K) /\ Ordered(K, R)
  BY <1>5, <1>6
<1>8. \A i \in K : {j \in K : Sooner(d, r, j, i)} = upTo(i)
  BY <1>4, <1>5 DEF UpTo
<1>9. Candidates(d, r) = [n \in 1..Cardinality(K) |->
                            w[CHOOSE i \in K : Cardinality({j \in K : Sooner(d, r, j, i)}) = n]]
  BY DEF Candidates
<1> HIDE DEF w, K
<1>10. /\ Cardinality(K) \in Nat
       /\ \A i \in K : Cardinality(upTo(i)) \in 1..Cardinality(K)
       /\ \A n \in 1..Cardinality(K) : \E i \in K : Cardinality(upTo(i)) = n
       /\ \A i, k \in K : Cardinality(upTo(i)) = Cardinality(upTo(k)) => i = k
  BY <1>7, PlaceTaken
<1> HIDE DEF upTo
<1>11. ASSUME NEW n \in 1..Cardinality(K), NEW i \in K, Cardinality(upTo(i)) = n
       PROVE  Candidates(d, r)[n] = w[i]
  <2> DEFINE c == CHOOSE k \in K : Cardinality({j \in K : Sooner(d, r, j, k)}) = n
  <2>1. c \in K /\ Cardinality({j \in K : Sooner(d, r, j, c)}) = n
    BY <1>8, <1>11
  <2>2. Candidates(d, r)[n] = w[c]
    BY <1>9
  <2> HIDE DEF c
  <2>3. c = i
    BY <1>8, <1>10, <1>11, <2>1
  <2> QED BY <2>2, <2>3
<1>12. ASSUME NEW n \in 1..Cardinality(K)
       PROVE  Candidates(d, r)[n] \in Nat
  <2>1. PICK i \in K : Cardinality(upTo(i)) = n
    BY <1>10
  <2>2. Candidates(d, r)[n] = w[i]
    BY <1>11, <2>1
  <2> QED BY <1>2, <1>5, <2>2
<1>13. Candidates(d, r) \in Seq(Nat) /\ DOMAIN Candidates(d, r) = 1..Cardinality(K)
  <2>1. DOMAIN Candidates(d, r) = 1..Cardinality(K)
    BY <1>9
  <2>2. Candidates(d, r) \in [1..Cardinality(K) -> Nat]
    BY <1>9, <1>12
  <2> QED BY <1>10, <2>1, <2>2
<1>14. ASSUME NEW q \in Range(Standard), Claims(d, q), q # r
       PROVE  \E i \in K : w[i] = q
  <2> DEFINE S == {i \in DOMAIN w : w[i] = q}
  <2>1. \E i \in DOMAIN Wanted(d, r) : Wanted(d, r)[i] = q
    BY <1>14, WantedFacts
  <2>2. S # {} /\ S \in SUBSET DOMAIN w
    BY <2>1 DEF w
  <2>3. IsFiniteSet(S) /\ Ordered(S, R)
    BY <1>6, <2>2
  <2> HIDE DEF S
  <2>4. PICK i \in S : \A j \in S : <<i, j>> \in R
    BY <2>2, <2>3, FirstTaken
  <2>5. i \in DOMAIN w /\ w[i] = q
    BY <2>4 DEF S
  <2>6. \A j \in DOMAIN w : w[j] = w[i] => Sooner(d, r, i, j)
    BY <1>4, <2>4, <2>5 DEF S
  <2>7. i \in K
    BY <1>14, <2>5, <2>6 DEF K, Kept, w
  <2> QED BY <2>5, <2>7
<1>15. ASSUME NEW q \in Range(Standard), Claims(d, q), q # r
       PROVE  \E n \in DOMAIN Candidates(d, r) : Candidates(d, r)[n] = q
  BY <1>10, <1>11, <1>13, <1>14, <1>15
<1> QED BY <1>13, <1>15

-----------------------------------------------------------------------------
(* Sequences of k steps, one after the other.                              *)

LEMMA Quotient ==
  ASSUME NEW k \in Nat \ {0}, NEW x \in Nat
  PROVE  /\ x = k * (x \div k) + (x % k) /\ x \div k \in Nat
         /\ x % k \in Nat /\ x % k < k
OBVIOUS

LEMMA AtLeastOnce ==
  ASSUME NEW k \in Nat, NEW p \in Nat, NEW q \in Nat, p < q
  PROVE  k * p + k <= k * q
<1>1. q = (p + 1) + (q - (p + 1)) /\ q - (p + 1) \in Nat
  OBVIOUS
<1> DEFINE e == q - (p + 1)
<1>2. k * e \in Nat /\ e \in Nat
  BY <1>1
<1>3. q = p + 1 + e
  OBVIOUS
<1> HIDE DEF e
<1>4. k * q = k * p + k + k * e
  BY <1>2, <1>3
<1> QED BY <1>2, <1>4

LEMMA QuotientIs ==
  ASSUME NEW k \in Nat \ {0}, NEW q \in Nat, NEW r \in Nat, r < k
  PROVE  (k * q + r) \div k = q /\ (k * q + r) % k = r
<1> DEFINE x == k * q + r  p == x \div k  s == x % k
<1>1. x \in Nat /\ x = k * q + r /\ k * q \in Nat
  OBVIOUS
<1>2. x = k * p + s /\ p \in Nat /\ s \in Nat /\ s < k
  <2> HIDE DEF x
  <2> QED BY <1>1, Quotient
<1> HIDE DEF x, p, s
<1>3. k * p \in Nat
  BY <1>2
<1>4. ~ (p < q)
  <2>1. p < q => k * p + k <= k * q
    BY <1>2, AtLeastOnce
  <2> QED BY <1>1, <1>2, <1>3, <2>1
<1>5. ~ (q < p)
  <2>1. q < p => k * q + k <= k * p
    BY <1>2, AtLeastOnce
  <2> QED BY <1>1, <1>2, <1>3, <2>1
<1>6. p = q
  BY <1>2, <1>4, <1>5
<1>7. s = r
  BY <1>1, <1>2, <1>6
<1> QED BY <1>6, <1>7 DEF p, s, x

\* Where the j-th step of the i-th is.
Place(k, i, j) == k * (i - 1) + j

\* t has the steps of b, and these only.
InOrder(t, b, k) ==
  /\ \A i \in DOMAIN b, j \in 1..k :
       Place(k, i, j) \in DOMAIN t /\ t[Place(k, i, j)] = b[i][j]
  /\ \A n \in DOMAIN t : \E i \in DOMAIN b, j \in 1..k : n = Place(k, i, j)

LEMMA InTurnFacts ==
  ASSUME NEW T, NEW b \in Seq(Seq(T)), NEW k \in Nat \ {0}, \A i \in DOMAIN b : Len(b[i]) = k
  PROVE  /\ InTurn(b, k) \in Seq(T)
         /\ InOrder(InTurn(b, k), b, k)
<1> DEFINE m == Len(b)  t == InTurn(b, k)
<1>1. m \in Nat /\ DOMAIN b = 1..m /\ \A i \in 1..m : b[i] \in Seq(T) /\ DOMAIN b[i] = 1..k
  OBVIOUS
<1>2. \A i \in 1..m, j \in 1..k : b[i][j] \in T
  BY <1>1
<1> HIDE DEF m
<1>3. m * k \in Nat
  BY <1>1
<1>4. t = [n \in 1..(m * k) |-> b[((n - 1) \div k) + 1][((n - 1) % k) + 1]]
  BY DEF InTurn, m
<1> HIDE DEF t
<1>5. DOMAIN t = 1..(m * k) /\ \A n \in 1..(m * k) : t[n] = b[((n - 1) \div k) + 1][((n - 1) % k) + 1]
  BY <1>4
<1>6. ASSUME NEW n \in 1..(m * k)
      PROVE  /\ ((n - 1) \div k) + 1 \in 1..m /\ ((n - 1) % k) + 1 \in 1..k
             /\ n = k * ((((n - 1) \div k) + 1) - 1) + (((n - 1) % k) + 1)
  <2> DEFINE x == n - 1  q == x \div k  r == x % k
  <2>1. x \in Nat /\ x < m * k /\ n = x + 1
    BY <1>3
  <2>2. x = k * q + r /\ q \in Nat /\ r \in Nat /\ r < k
    <3> HIDE DEF x
    <3> QED BY <2>1, Quotient
  <2> HIDE DEF x, q, r
  <2>3. k * q \in Nat
    BY <2>2
  <2>4. q < m
    <3>1. m < q => k * m + k <= k * q
      BY <1>1, <2>2, AtLeastOnce
    <3>2. m = q => k * m = k * q
      OBVIOUS
    <3>3. k * m = m * k
      BY <1>1
    <3>4. m <= q => m * k <= k * q
      <4>1. CASE m < q
        BY <1>3, <2>3, <3>1, <3>3, <4>1
      <4>2. CASE m = q
        BY <1>3, <2>3, <3>2, <3>3, <4>2
      <4> QED BY <1>1, <2>2, <4>1, <4>2
    <3>5. k * q <= x
      BY <2>2, <2>3
    <3>6. x < m * k /\ x \in Nat
      BY <2>1
    <3>7. ~ (m * k <= k * q)
      BY <1>3, <2>3, <3>5, <3>6
    <3> QED BY <1>1, <2>2, <3>4, <3>7
  <2>5. q + 1 \in 1..m /\ r + 1 \in 1..k
    BY <1>1, <2>2, <2>4
  <2>6. (q + 1) - 1 = q
    BY <2>2
  <2>7. n = k * ((q + 1) - 1) + (r + 1)
    BY <2>1, <2>2, <2>3, <2>6
  <2> QED BY <2>5, <2>7 DEF q, r, x
<1>7. \A n \in 1..(m * k) : t[n] \in T
  BY <1>2, <1>5, <1>6
<1>8. t \in Seq(T)
  <2>1. t \in [1..(m * k) -> T]
    BY <1>4, <1>5, <1>7
  <2> QED BY <1>3, <2>1
<1>9. ASSUME NEW i \in 1..m, NEW j \in 1..k
      PROVE  k * (i - 1) + j \in 1..(m * k) /\ t[k * (i - 1) + j] = b[i][j]
  <2> DEFINE q == i - 1  r == j - 1  n == k * q + j
  <2>1. q \in Nat /\ r \in Nat /\ r < k /\ q < m /\ q + 1 = i /\ r + 1 = j
    BY <1>1
  <2> HIDE DEF q, r
  <2>2. k * q + k <= k * m /\ k * q \in Nat /\ k * m = m * k
    BY <1>1, <2>1, AtLeastOnce
  <2>3. n \in 1..(m * k) /\ n - 1 = k * q + r
    BY <1>3, <2>1, <2>2
  <2>4. (n - 1) \div k = q /\ (n - 1) % k = r
    BY <2>1, <2>3, QuotientIs
  <2> HIDE DEF n
  <2>5. t[n] = b[q + 1][r + 1]
    BY <1>5, <2>3, <2>4
  <2> QED BY <2>1, <2>3, <2>5 DEF n, q
<1>10. \A n \in 1..(m * k) : \E i \in 1..m, j \in 1..k : n = k * (i - 1) + j
  BY <1>6
<1> QED BY <1>1, <1>5, <1>8, <1>9, <1>10 DEF t, Place, InOrder

-----------------------------------------------------------------------------
(* The calls of AudioOutput::new.                                          *)

Songs == UNION {u.songs : u \in Setups}
Steps == [do : {"Build", "Open"}, rate : Nat, size : Nat, late : BOOLEAN]

\* A rate is tried right after another attempt at it, or after its equaliser is built.
Sound(q) == \A i \in DOMAIN q : q[i].do = "Open" => i - 1 \in DOMAIN q /\ q[i - 1].rate = q[i].rate

LEMMA SoundBoth ==
  ASSUME NEW p \in Seq(Steps), NEW q \in Seq(Steps), Sound(p), Sound(q)
  PROVE  Sound(p \o q)
<1> DEFINE m == Len(p)  n == Len(q)  t == p \o q
<1>1. t \in Seq(Steps)
  BY ConcatProperties
<1>2. /\ Len(t) = Len(p) + Len(q)
      /\ \A i \in 1..(Len(p) + Len(q)) : t[i] = IF i <= Len(p) THEN p[i] ELSE q[i - Len(p)]
  BY ConcatProperties
<1>3. m \in Nat /\ n \in Nat /\ DOMAIN p = 1..m /\ DOMAIN q = 1..n
  OBVIOUS
<1> HIDE DEF m, n, t
<1>4. DOMAIN t = 1..(m + n) /\ \A i \in 1..(m + n) : t[i] = IF i <= m THEN p[i] ELSE q[i - m]
  BY <1>1, <1>2, <1>3 DEF m, n
<1>5. ASSUME NEW i \in DOMAIN t, t[i].do = "Open"
      PROVE  i - 1 \in DOMAIN t /\ t[i - 1].rate = t[i].rate
  <2>1. CASE i <= m
    <3>1. i \in DOMAIN p /\ t[i] = p[i]
      BY <1>3, <1>4, <2>1
    <3>2. i - 1 \in DOMAIN p /\ p[i - 1].rate = p[i].rate
      BY <1>5, <3>1 DEF Sound
    <3>3. i - 1 \in 1..(m + n) /\ i - 1 <= m
      BY <1>3, <3>2
    <3>4. t[i - 1] = p[i - 1]
      BY <1>4, <3>3
    <3> QED BY <1>4, <3>1, <3>2, <3>3, <3>4
  <2>2. CASE ~ (i <= m)
    <3> DEFINE k == i - m
    <3>1. k \in DOMAIN q /\ t[i] = q[k]
      BY <1>3, <1>4, <2>2
    <3>2. k - 1 \in DOMAIN q /\ q[k - 1].rate = q[k].rate
      BY <1>5, <3>1 DEF Sound
    <3>3. i - 1 \in 1..(m + n) /\ ~ (i - 1 <= m) /\ (i - 1) - m = k - 1
      BY <1>3, <1>4, <3>2
    <3>4. t[i - 1] = q[k - 1]
      BY <1>4, <3>3
    <3> QED BY <1>4, <3>1, <3>2, <3>3, <3>4
  <2> QED BY <2>1, <2>2
<1>6. Sound(t)
  BY <1>5 DEF Sound
<1> QED BY <1>6 DEF t

LEMMA SoundInTurn ==
  ASSUME NEW b \in Seq(Seq(Steps)), NEW k \in Nat \ {0}, \A i \in DOMAIN b : Len(b[i]) = k,
         \A i \in DOMAIN b : Sound(b[i])
  PROVE  Sound(InTurn(b, k))
<1> DEFINE t == InTurn(b, k)  m == Len(b)
<1>1. InOrder(t, b, k)
  <2>1. \A i \in DOMAIN b : Len(b[i]) = k
    OBVIOUS
  <2>2. b \in Seq(Seq(Steps))
    OBVIOUS
  <2> QED BY <2>1, <2>2, InTurnFacts
<1>2. m \in Nat /\ DOMAIN b = 1..m /\ \A i \in 1..m : b[i] \in Seq(Steps) /\ DOMAIN b[i] = 1..k
  OBVIOUS
<1> HIDE DEF t, m
<1>3. ASSUME NEW n \in DOMAIN t, t[n].do = "Open"
      PROVE  n - 1 \in DOMAIN t /\ t[n - 1].rate = t[n].rate
  <2>1. PICK i \in DOMAIN b, j \in 1..k : n = Place(k, i, j)
    BY <1>1 DEF InOrder
  <2>2. t[n] = b[i][j]
    BY <1>1, <2>1 DEF InOrder
  <2>3. j - 1 \in 1..k /\ b[i][j - 1].rate = b[i][j].rate
    BY <1>2, <1>3, <2>2 DEF Sound
  <2>4. Place(k, i, j - 1) \in DOMAIN t /\ t[Place(k, i, j - 1)] = b[i][j - 1]
    BY <1>1, <2>3 DEF InOrder
  <2>5. k * (i - 1) \in Nat
    BY <1>2
  <2>6. n - 1 = Place(k, i, j - 1)
    BY <2>1, <2>5 DEF Place
  <2> QED BY <2>2, <2>3, <2>4, <2>6
<1>4. Sound(t)
  BY <1>3 DEF Sound
<1> QED BY <1>4 DEF t

LEMMA SizesFacts ==
  ASSUME NEW u \in Setups, NEW s \in Songs
  PROVE  /\ Sizes(u, s) \in Nat \ {0}
         /\ u.claims \in Ranges /\ u.fixed \in Nat /\ u.prefill \in Nat
         /\ s.rate \in Nat \ {0} /\ s.gain \in Nat
BY OutputAssumption DEF Sizes, Ranges, Songs

LEMMA BuildFacts ==
  ASSUME NEW r \in Nat
  PROVE  /\ Build(r) \in Seq(Steps) /\ Len(Build(r)) = 1
         /\ Build(r)[1] = [do |-> "Build", rate |-> r, size |-> 0, late |-> FALSE]
<1>1. Build(r) = <<[do |-> "Build", rate |-> r, size |-> 0, late |-> FALSE]>>
  BY DEF Build
<1>2. [do |-> "Build", rate |-> r, size |-> 0, late |-> FALSE] \in Steps
  BY DEF Steps
<1> HIDE DEF Steps
<1> QED BY <1>1, <1>2

LEMMA OpensFacts ==
  ASSUME NEW u \in Setups, NEW s \in Songs, NEW r \in Nat, NEW late \in BOOLEAN
  PROVE  /\ Opens(u, s, r, late) \in Seq(Steps) /\ Len(Opens(u, s, r, late)) = Sizes(u, s)
         /\ \A i \in 1..Sizes(u, s) :
              Opens(u, s, r, late)[i] = [do |-> "Open", rate |-> r, size |-> i, late |-> late]
<1> DEFINE n == Sizes(u, s)
<1>1. n \in Nat
  BY SizesFacts
<1>2. Opens(u, s, r, late) = [i \in 1..n |-> [do |-> "Open", rate |-> r, size |-> i, late |-> late]]
  BY DEF Opens
<1> HIDE DEF n
<1>3. \A i \in 1..n : [do |-> "Open", rate |-> r, size |-> i, late |-> late] \in Steps
  BY <1>1 DEF Steps
<1> HIDE DEF Steps
<1>4. Opens(u, s, r, late) \in [1..n -> Steps]
  BY <1>2, <1>3
<1> QED BY <1>1, <1>2, <1>4 DEF n

\* One rate with its equaliser.
Block(u, s, r, late) == Build(r) \o Opens(u, s, r, late)

LEMMA BlockFacts ==
  ASSUME NEW u \in Setups, NEW s \in Songs, NEW r \in Nat, NEW late \in BOOLEAN
  PROVE  /\ Block(u, s, r, late) \in Seq(Steps) /\ Len(Block(u, s, r, late)) = 1 + Sizes(u, s)
         /\ Sound(Block(u, s, r, late))
         /\ ~late => \A i \in DOMAIN Block(u, s, r, late) : ~Block(u, s, r, late)[i].late
         /\ \A z \in 1..Sizes(u, s) :
              Block(u, s, r, late)[1 + z].rate = r /\ Block(u, s, r, late)[1 + z].size = z
<1> DEFINE a == Build(r)  o == Opens(u, s, r, late)  n == Sizes(u, s)  q == a \o o
<1>1. a \in Seq(Steps) /\ Len(a) = 1 /\ a[1] = [do |-> "Build", rate |-> r, size |-> 0, late |-> FALSE]
  BY BuildFacts
<1>2. /\ o \in Seq(Steps) /\ Len(o) = n
      /\ \A i \in 1..n : o[i] = [do |-> "Open", rate |-> r, size |-> i, late |-> late]
  BY OpensFacts
<1>3. n \in Nat
  BY SizesFacts
<1> HIDE DEF a, o, n
<1>4. q \in Seq(Steps)
  BY <1>1, <1>2, ConcatProperties
<1>5. /\ Len(q) = Len(a) + Len(o)
      /\ \A i \in 1..(Len(a) + Len(o)) : q[i] = IF i <= Len(a) THEN a[i] ELSE o[i - Len(a)]
  BY <1>1, <1>2, ConcatProperties
<1> HIDE DEF q
<1>6. Len(q) = 1 + n /\ \A i \in 1..(1 + n) : q[i] = IF i <= 1 THEN a[i] ELSE o[i - 1]
  BY <1>1, <1>2, <1>5
<1>7. DOMAIN q = 1..(1 + n)
  BY <1>3, <1>4, <1>6
<1>8. q[1] = a[1] /\ \A z \in 1..n : q[1 + z] = o[z]
  BY <1>3, <1>6
<1>9. \A i \in 1..(1 + n) : i = 1 \/ \E z \in 1..n : i = 1 + z
  <2>1. \A i \in 1..(1 + n) : i = 1 \/ (i - 1 \in 1..n /\ i = 1 + (i - 1))
    BY <1>3
  <2> QED BY <2>1
<1>10. \A i \in DOMAIN q : q[i].rate = r
  BY <1>1, <1>2, <1>7, <1>8, <1>9
<1>11. \A i \in DOMAIN q : q[i].do = "Open" => i - 1 \in DOMAIN q
  <2>1. \A i \in DOMAIN q : q[i].do = "Open" => i # 1
    BY <1>1, <1>8
  <2> QED BY <1>3, <1>7, <2>1
<1>12. Sound(q)
  BY <1>10, <1>11 DEF Sound
<1>13. ~late => \A i \in DOMAIN q : ~q[i].late
  BY <1>1, <1>2, <1>7, <1>8, <1>9
<1>14. \A z \in 1..n : q[1 + z].rate = r /\ q[1 + z].size = z
  BY <1>2, <1>8
<1> QED BY <1>4, <1>6, <1>12, <1>13, <1>14 DEF q, a, o, n, Block

LEMMA FallbacksFacts ==
  ASSUME NEW u \in Setups, NEW s \in Songs, NEW late \in BOOLEAN
  PROVE  /\ Fallbacks(u, s, late) \in Seq(Steps) /\ Sound(Fallbacks(u, s, late))
         /\ ~late => \A i \in DOMAIN Fallbacks(u, s, late) : ~Fallbacks(u, s, late)[i].late
         /\ \A q \in Range(Standard), z \in 1..Sizes(u, s) :
              Claims(u.claims, q) /\ q # s.rate =>
                \E i \in DOMAIN Fallbacks(u, s, late) :
                   Fallbacks(u, s, late)[i].rate = q /\ Fallbacks(u, s, late)[i].size = z
<1> DEFINE c == Candidates(u.claims, s.rate)  k == 1 + Sizes(u, s)
           block(r) == Block(u, s, r, late)
           b == [i \in DOMAIN c |-> block(c[i])]  t == InTurn(b, k)
<1>1. u.claims \in Ranges /\ s.rate \in Nat /\ Sizes(u, s) \in Nat
  BY SizesFacts
<1>2. /\ c \in Seq(Nat)
      /\ \A q \in Range(Standard) : Claims(u.claims, q) /\ q # s.rate => \E n \in DOMAIN c : c[n] = q
  BY <1>1, CandidatesFacts
<1> HIDE DEF c
<1>3. \A i \in DOMAIN c : c[i] \in Nat
  BY <1>2
<1>4. ASSUME NEW r \in Nat
      PROVE  /\ block(r) \in Seq(Steps) /\ Len(block(r)) = k /\ Sound(block(r))
             /\ ~late => \A i \in DOMAIN block(r) : ~block(r)[i].late
             /\ \A z \in 1..Sizes(u, s) : block(r)[1 + z].rate = r /\ block(r)[1 + z].size = z
  BY BlockFacts
<1> HIDE DEF block
<1>5. k \in Nat \ {0} /\ \A z \in 1..Sizes(u, s) : 1 + z \in 1..k
  BY <1>1
<1> HIDE DEF k
<1>6. DOMAIN b = DOMAIN c /\ \A i \in DOMAIN c : b[i] = block(c[i])
  OBVIOUS
<1>7. b \in Seq(Seq(Steps))
  <2>1. DOMAIN c = 1..Len(c) /\ Len(c) \in Nat
    BY <1>2
  <2>2. b \in [1..Len(c) -> Seq(Steps)]
    BY <1>3, <1>4, <2>1
  <2> QED BY <2>1, <2>2
<1> HIDE DEF b
<1>8. \A i \in DOMAIN b : Len(b[i]) = k /\ Sound(b[i])
  BY <1>3, <1>4, <1>6
<1>9. t \in Seq(Steps) /\ InOrder(t, b, k)
  <2>1. \A i \in DOMAIN b : Len(b[i]) = k
    BY <1>8
  <2> QED BY <1>5, <1>7, <2>1, InTurnFacts
<1>10. Sound(t)
  BY <1>5, <1>7, <1>8, SoundInTurn
<1> HIDE DEF t
<1>11. ASSUME ~late, NEW n \in DOMAIN t
       PROVE  ~t[n].late
  <2>1. PICK i \in DOMAIN b, j \in 1..k : n = Place(k, i, j)
    BY <1>9 DEF InOrder
  <2>2. t[n] = block(c[i])[j] /\ c[i] \in Nat
    BY <1>3, <1>6, <1>9, <2>1 DEF InOrder
  <2>3. j \in DOMAIN block(c[i])
    BY <1>4, <2>2
  <2> QED BY <1>4, <1>11, <2>2, <2>3
<1>12. ASSUME NEW q \in Range(Standard), NEW z \in 1..Sizes(u, s), Claims(u.claims, q), q # s.rate
       PROVE  \E n \in DOMAIN t : t[n].rate = q /\ t[n].size = z
  <2>1. PICK i \in DOMAIN c : c[i] = q
    BY <1>2, <1>12
  <2>2. b[i] = block(q) /\ q \in Nat /\ i \in DOMAIN b
    BY <1>3, <1>6, <2>1
  <2>3. 1 + z \in 1..k
    BY <1>5
  <2>4. block(q)[1 + z].rate = q /\ block(q)[1 + z].size = z
    BY <1>4, <2>2
  <2>5. Place(k, i, 1 + z) \in DOMAIN t /\ t[Place(k, i, 1 + z)] = block(q)[1 + z]
    BY <1>9, <2>2, <2>3 DEF InOrder
  <2> QED BY <2>4, <2>5
<1>13. t = Fallbacks(u, s, late)
  BY DEF t, b, c, k, block, Block, Fallbacks
<1> QED BY <1>9, <1>10, <1>11, <1>12, <1>13

LEMMA Appended ==
  ASSUME NEW p \in Seq(Steps), NEW q \in Seq(Steps)
  PROVE  /\ p \o q \in Seq(Steps) /\ Len(p \o q) = Len(p) + Len(q)
         /\ \A i \in DOMAIN p : i \in DOMAIN (p \o q) /\ (p \o q)[i] = p[i]
         /\ \A j \in DOMAIN q : Len(p) + j \in DOMAIN (p \o q) /\ (p \o q)[Len(p) + j] = q[j]
         /\ \A n \in DOMAIN (p \o q) : \/ n \in DOMAIN p
                                       \/ \E j \in DOMAIN q : n = Len(p) + j
<1> DEFINE m == Len(p)  n == Len(q)  t == p \o q
<1>1. t \in Seq(Steps)
  BY ConcatProperties
<1>2. /\ Len(t) = Len(p) + Len(q)
      /\ \A i \in 1..(Len(p) + Len(q)) : t[i] = IF i <= Len(p) THEN p[i] ELSE q[i - Len(p)]
  BY ConcatProperties
<1>3. m \in Nat /\ n \in Nat /\ DOMAIN p = 1..m /\ DOMAIN q = 1..n
  OBVIOUS
<1> HIDE DEF m, n, t
<1>4. /\ Len(t) = m + n /\ DOMAIN t = 1..(m + n)
      /\ \A i \in 1..(m + n) : t[i] = IF i <= m THEN p[i] ELSE q[i - m]
  BY <1>1, <1>2, <1>3 DEF m, n
<1>5. \A i \in 1..m : i \in 1..(m + n) /\ t[i] = p[i]
  BY <1>3, <1>4
<1>6. ASSUME NEW j \in 1..n
      PROVE  m + j \in 1..(m + n) /\ t[m + j] = q[j]
  <2>1. m + j \in 1..(m + n) /\ ~ (m + j <= m) /\ (m + j) - m = j
    BY <1>3
  <2> QED BY <1>4, <2>1
<1>7. ASSUME NEW i \in 1..(m + n)
      PROVE  i \in 1..m \/ \E j \in 1..n : i = m + j
  <2>1. ~ (i \in 1..m) => i - m \in 1..n /\ i = m + (i - m)
    BY <1>3
  <2> QED BY <2>1
<1> QED BY <1>1, <1>3, <1>4, <1>5, <1>6, <1>7 DEF m, n, t

LEMMA ResampleFacts ==
  ASSUME NEW u \in Setups, NEW s \in Songs
  PROVE  Resample(u, s) \in Nat
<1>1. u.claims \in Ranges /\ u.fixed \in Nat /\ s.rate \in Nat
  BY SizesFacts
<1>2. FindRate(u.claims, s.rate) \in Nat
  BY <1>1, FindRateFacts
<1> QED BY <1>1, <1>2 DEF Resample, NoRate

\* q tries every usual rate that is claimed, in every size.
AllIn(q, u, s) ==
  \A r \in Range(Standard), z \in 1..Sizes(u, s) : Claims(u.claims, r) =>
    \E i \in DOMAIN q : q[i].rate = r /\ q[i].size = z

LEMMA NewFacts ==
  ASSUME NEW u \in Setups, NEW s \in Songs, NEW late \in BOOLEAN
  PROVE  /\ New(u, s, late) \in Seq(Steps)
         /\ ~IsDsd(s) => Sound(New(u, s, late))
         /\ ~late => \A i \in DOMAIN New(u, s, late) : ~New(u, s, late)[i].late
         /\ ~IsDsd(s) /\ Resample(u, s) = NoRate =>
              AllIn(New(u, s, late), u, s)
<1> DEFINE other == Resample(u, s)  rate == IF other = NoRate THEN s.rate ELSE other
           a == IF IsDsd(s) THEN <<>> ELSE Build(rate)
           o == Opens(u, s, rate, late)
           f == IF IsDsd(s) \/ other # NoRate THEN <<>> ELSE Fallbacks(u, s, late)
           new == New(u, s, late)
<1>1. rate \in Nat /\ s.rate \in Nat
  BY ResampleFacts, SizesFacts
<1>2. new = (a \o o) \o f
  BY DEF New
<1>3. CASE IsDsd(s)
  <2>1. /\ o \in Seq(Steps) /\ Len(o) = Sizes(u, s)
        /\ \A i \in 1..Sizes(u, s) : o[i] = [do |-> "Open", rate |-> rate, size |-> i, late |-> late]
    BY <1>1, OpensFacts
  <2>2. o \in Seq(Steps) /\ Len(o) = Sizes(u, s) /\ \A i \in 1..Sizes(u, s) : o[i].late = late
    <3> HIDE DEF o
    <3> QED BY <2>1
  <2>3. a = <<>> /\ f = <<>>
    BY <1>3
  <2>4. new = o
    <3> HIDE DEF o, a, f, new
    <3> QED BY <1>2, <2>2, <2>3, ConcatEmptySeq
  <2>5. DOMAIN o = 1..Sizes(u, s)
    <3> HIDE DEF o
    <3> QED BY <2>2
  <2> HIDE DEF o, new
  <2>6. new \in Seq(Steps) /\ \A i \in DOMAIN new : new[i].late = late
    BY <2>2, <2>4, <2>5
  <2> QED BY <1>3, <2>6 DEF new
<1>4. CASE ~IsDsd(s)
  <2> DEFINE b == Block(u, s, rate, late)
  <2>1. /\ b \in Seq(Steps) /\ Len(b) = 1 + Sizes(u, s) /\ Sound(b)
        /\ ~late => \A i \in DOMAIN b : ~b[i].late
        /\ \A z \in 1..Sizes(u, s) : b[1 + z].rate = rate /\ b[1 + z].size = z
    BY <1>1, BlockFacts
  <2>2. a \o o = b
    BY <1>4 DEF Block
  <2>3. Sizes(u, s) \in Nat
    BY SizesFacts
  <2>4. CASE other # NoRate
    <3>1. f = <<>>
      BY <2>4
    <3>2. new = b
      <4> HIDE DEF b, a, o, f, new
      <4> QED BY <1>2, <2>1, <2>2, <3>1, ConcatEmptySeq
    <3> HIDE DEF b, new
    <3> QED BY <2>1, <2>4, <3>2 DEF new, other
  <2>5. CASE other = NoRate
    <3> DEFINE g == Fallbacks(u, s, late)
    <3>1. f = g /\ rate = s.rate
      BY <1>4, <2>5
    <3>2. /\ g \in Seq(Steps) /\ Sound(g)
          /\ ~late => \A i \in DOMAIN g : ~g[i].late
          /\ \A q \in Range(Standard), z \in 1..Sizes(u, s) :
               Claims(u.claims, q) /\ q # s.rate => \E i \in DOMAIN g : g[i].rate = q /\ g[i].size = z
      BY FallbacksFacts
    <3>3. new = b \o g
      <4> HIDE DEF b, a, o, f, g, new
      <4> QED BY <1>2, <2>2, <3>1
    <3> HIDE DEF b, g, new, rate
    <3>4. Sound(b \o g)
      BY <2>1, <3>2, SoundBoth
    <3>5. /\ new \in Seq(Steps)
          /\ \A i \in DOMAIN b : i \in DOMAIN new /\ new[i] = b[i]
          /\ \A j \in DOMAIN g : Len(b) + j \in DOMAIN new /\ new[Len(b) + j] = g[j]
          /\ \A n \in DOMAIN new : n \in DOMAIN b \/ \E j \in DOMAIN g : n = Len(b) + j
      <4>1. /\ b \o g \in Seq(Steps)
            /\ \A i \in DOMAIN b : i \in DOMAIN (b \o g) /\ (b \o g)[i] = b[i]
            /\ \A j \in DOMAIN g : Len(b) + j \in DOMAIN (b \o g) /\ (b \o g)[Len(b) + j] = g[j]
            /\ \A n \in DOMAIN (b \o g) : n \in DOMAIN b \/ \E j \in DOMAIN g : n = Len(b) + j
        BY <2>1, <3>2, Appended
      <4> QED BY ONLY <3>3, <4>1
    <3>6. ~late => \A i \in DOMAIN new : ~new[i].late
      BY <2>1, <3>2, <3>5
    <3>7. ASSUME NEW q \in Range(Standard), NEW z \in 1..Sizes(u, s), Claims(u.claims, q)
          PROVE  \E i \in DOMAIN new : new[i].rate = q /\ new[i].size = z
      <4>1. CASE q = s.rate
        <5>1. 1 + z \in DOMAIN b
          BY <2>1, <2>3
        <5>2. new[1 + z].rate = q /\ new[1 + z].size = z /\ 1 + z \in DOMAIN new
          BY <2>1, <3>1, <3>5, <4>1, <5>1
        <5> QED BY <5>2
      <4>2. CASE q # s.rate
        <5>1. PICK j \in DOMAIN g : g[j].rate = q /\ g[j].size = z
          BY <3>2, <3>7, <4>2
        <5>2. Len(b) + j \in DOMAIN new /\ new[Len(b) + j] = g[j]
          BY <3>5
        <5> QED BY <5>1, <5>2
      <4> QED BY <4>1, <4>2
    <3> QED BY <3>3, <3>4, <3>5, <3>6, <3>7 DEF new, AllIn
  <2> QED BY <2>4, <2>5
<1> QED BY <1>3, <1>4

\* What Ladder appends are the calls after the first.
LEMMA LadderFacts ==
  ASSUME NEW u \in Setups, NEW s \in Songs
  PROVE  /\ Ladder[u][s] \in Seq(Steps)
         /\ ~IsDsd(s) => Sound(Ladder[u][s])
         /\ Len(New(u, s, FALSE)) \in Nat /\ Len(New(u, s, FALSE)) <= Len(Ladder[u][s])
         /\ \A i \in 1..Len(New(u, s, FALSE)) :
              i \in DOMAIN Ladder[u][s] /\ Ladder[u][s][i] = New(u, s, FALSE)[i]
<1> DEFINE again == FindRate(u.claims, s.rate) = NoRate /\ s.kind # "Session"
           c == IF again THEN Candidates(u.claims, s.rate) ELSE <<>>
           new == New(u, s, FALSE)  more == New(u, s, TRUE)  k == 1 + Len(more)
           block(r) == Build(r) \o more
           b == [i \in DOMAIN c |-> block(c[i])]  t == InTurn(b, k)  all == new \o t
<1>1. new \in Seq(Steps) /\ (~IsDsd(s) => Sound(new))
  BY NewFacts
<1>2. more \in Seq(Steps) /\ (~IsDsd(s) => Sound(more))
  BY NewFacts
<1>3. c \in Seq(Nat)
  <2>1. u.claims \in Ranges /\ s.rate \in Nat
    BY SizesFacts
  <2>2. Candidates(u.claims, s.rate) \in Seq(Nat)
    BY <2>1, CandidatesFacts
  <2>3. <<>> \in Seq(Nat)
    OBVIOUS
  <2> HIDE DEF again
  <2> QED BY <2>2, <2>3
<1>4. Ladder[u][s] = all
  <2>1. s \in UNION {v.songs : v \in Setups}
    BY DEF Songs
  <2> QED BY <2>1 DEF Ladder
<1> HIDE DEF new, more, c
<1>5. ASSUME NEW r \in Nat
      PROVE  block(r) \in Seq(Steps) /\ Len(block(r)) = k /\ (~IsDsd(s) => Sound(block(r)))
  <2> DEFINE h == Build(r)
  <2>1. h \in Seq(Steps) /\ Len(h) = 1 /\ h[1] = [do |-> "Build", rate |-> r, size |-> 0, late |-> FALSE]
    BY BuildFacts
  <2>2. h \in Seq(Steps) /\ Len(h) = 1 /\ h[1].do = "Build"
    <3> HIDE DEF h
    <3> QED BY <2>1
  <2> HIDE DEF h
  <2>3. Sound(h)
    BY <2>2 DEF Sound
  <2>4. h \o more \in Seq(Steps) /\ Len(h \o more) = Len(h) + Len(more)
    BY <1>2, <2>2, Appended
  <2>5. ~IsDsd(s) => Sound(h \o more)
    BY <1>2, <2>2, <2>3, SoundBoth
  <2> QED BY <2>2, <2>4, <2>5 DEF h
<1>6. k \in Nat \ {0}
  BY <1>2
<1> HIDE DEF block, k
<1>7. DOMAIN b = DOMAIN c /\ (\A i \in DOMAIN c : b[i] = block(c[i])) /\ \A i \in DOMAIN c : c[i] \in Nat
  BY <1>3
<1>8. b \in Seq(Seq(Steps))
  <2>1. DOMAIN c = 1..Len(c) /\ Len(c) \in Nat
    BY <1>3
  <2>2. b \in [1..Len(c) -> Seq(Steps)]
    BY <1>5, <1>7, <2>1
  <2> QED BY <2>1, <2>2
<1> HIDE DEF b
<1>9. (\A i \in DOMAIN b : Len(b[i]) = k) /\ (~IsDsd(s) => \A i \in DOMAIN b : Sound(b[i]))
  BY <1>5, <1>7
<1>10. t \in Seq(Steps)
  BY <1>6, <1>8, <1>9, InTurnFacts
<1>11. ~IsDsd(s) => Sound(t)
  BY <1>6, <1>8, <1>9, SoundInTurn
<1> HIDE DEF t
<1>12. /\ all \in Seq(Steps) /\ Len(all) = Len(new) + Len(t)
       /\ \A i \in DOMAIN new : i \in DOMAIN all /\ all[i] = new[i]
  BY <1>1, <1>10, Appended
<1>13. ~IsDsd(s) => Sound(all)
  BY <1>1, <1>10, <1>11, SoundBoth
<1>14. Len(new) \in Nat /\ Len(t) \in Nat /\ DOMAIN new = 1..Len(new)
  BY <1>1, <1>10
<1> HIDE DEF all
<1>15. /\ all \in Seq(Steps) /\ (~IsDsd(s) => Sound(all))
       /\ Len(new) \in Nat /\ Len(new) <= Len(all)
       /\ \A i \in 1..Len(new) : i \in DOMAIN all /\ all[i] = new[i]
  BY <1>12, <1>13, <1>14
<1> QED BY <1>4, <1>15 DEF new

-----------------------------------------------------------------------------
(* The invariant.                                                          *)

Eqs     == [set : Filters, gain : Nat, rate : Nat]
Results == {"None", "Stopped", "Failed", "Lost", "Finished"}
Threads == [at : {"Idle", "Loop", "Open", "Build", "Built", "Prefill", "Push", "Drain", "End"},
            song : Songs \cup {NoSong}, try : Nat, packets : 0..Packets, left : Nat, eq : Eqs,
            retries : Nat, result : Results, cut : BOOLEAN]

Typed ==
  /\ setup \in Setups /\ thread \in Threads
  /\ thread.at # "Idle" => thread.song \in setup.songs
  /\ out \in [open : BOOLEAN, rate : Nat, eq : Eqs]
  /\ ring \in 0..Room /\ errors \in 0..Threshold /\ stop \in BOOLEAN
  /\ due \in Nat /\ heard \in Nat
  /\ pending \in Eqs /\ flag \in BOOLEAN /\ held \in BOOLEAN /\ filters \in Filters /\ gain \in Nat
  /\ update \in [at : {"Idle", "Build", "Slot", "Flag"}, eq : Eqs]
  /\ known \in Nat /\ infos \in Seq(Nat)
  /\ spoiled \in [skipped : BOOLEAN, raced : BOOLEAN, misfit : BOOLEAN]

\* An output is open while its song plays, and the settings are locked while the thread
\* builds an equaliser: for the rate it tries next.
Opened == /\ out.open => thread.at \in {"Loop", "Prefill", "Push", "Drain"}
          /\ thread.at \in {"Prefill", "Push", "Drain"} => out.open
          /\ ~out.open => out = Closed
Locked == /\ held <=> (thread.at \in {"Build", "Built"})
          /\ held => /\ thread.try \in DOMAIN Tries /\ Tries[thread.try].rate = thread.eq.rate
                     /\ thread.eq.set = filters /\ thread.eq.gain = gain
Tried  == /\ thread.at = "Open" => thread.try > 0
          /\ thread.at = "Open" /\ thread.try > 1 /\ ~IsDsd(thread.song) =>
               thread.try - 1 \in DOMAIN Tries /\ Tries[thread.try - 1].rate = thread.eq.rate
Rated  == out.open /\ ~IsDsd(thread.song) => out.rate = thread.eq.rate
Gained == thread.at \notin {"Idle", "End"} /\ thread.song.kind # "Session" => gain = thread.song.gain
Phases == Opened /\ Locked /\ Tried /\ Rated /\ Gained

\* The equaliser that plays or is about to, once one is built for the output.
Latest == IF pending # None THEN pending ELSE out.eq
Fresh  == /\ ~IsDsd(thread.song)
          /\ \/ thread.at = "Built" \/ out.open
             \/ thread.at = "Open" /\ thread.try > 1

\* It fits, or the update under way will put that right.
FitLocks ==
  /\ update.at = "Slot" => update.eq.set = filters /\ update.eq.rate # NoRate
  /\ held /\ ~spoiled.raced => update.at = "Idle"
  /\ thread.at = "Built" /\ ~spoiled.raced => pending = thread.eq
FitRate == Fresh => spoiled.misfit \/ Latest.rate = thread.eq.rate
FitSet  == Fresh => \/ spoiled.skipped \/ update.at \in {"Build", "Slot"}
                    \/ update.at = "Flag" /\ update.eq = None
                    \/ Latest.set = filters
FitFlag == Fresh => \/ thread.at = "Built" \/ spoiled.skipped \/ spoiled.raced
                    \/ /\ update.at = "Idle" => flag \/ ~Active(Latest)
                       /\ update.at = "Flag" => update.eq \in {None, Latest}
FitGain == Fresh => \/ spoiled.raced \/ thread.song.kind = "Session"
                    \/ Latest.gain = gain /\ (update.at = "Slot" => update.eq.gain = gain)
Fits == FitLocks /\ FitRate /\ FitSet /\ FitFlag /\ FitGain

\* Every sample written is heard, in the ring, or in the thread's hands.
Counted ==
  /\ out.open /\ ~thread.cut => due = heard + ring + thread.left
  /\ ~out.open /\ ~thread.cut /\ thread.at \in {"Loop", "Open", "Build", "Built"} => due = 0
  /\ thread.at \in {"Loop", "Drain"} => thread.left = 0
  /\ HeardOut

\* A song has failed only after all of the first call.
Exhausted ==
  thread.at = "End" /\ thread.result = "Failed" /\ ~IsDsd(thread.song) /\ thread.try > 1 =>
    thread.try > Len(New(setup, thread.song, FALSE))

OutInv == Typed /\ Phases /\ Fits /\ Counted /\ Exhausted

LEMMA Constants ==
  /\ None \in Eqs /\ Closed \in [open : BOOLEAN, rate : Nat, eq : Eqs]
  /\ NoUpdate \in [at : {"Idle", "Build", "Slot", "Flag"}, eq : Eqs]
  /\ Unspoiled \in [skipped : BOOLEAN, raced : BOOLEAN, misfit : BOOLEAN]
BY OutputAssumption DEF None, Eqs, NoRate, Closed, NoUpdate, Unspoiled

LEMMA Numbers ==
  {Packets, Chunk, Period, Room, Threshold} \subseteq Nat \ {0}
BY OutputAssumption

LEMMA ThreadFacts ==
  ASSUME OutInv
  PROVE  /\ thread.at \in {"Idle", "Loop", "Open", "Build", "Built", "Prefill", "Push", "Drain", "End"}
         /\ thread.song \in Songs \cup {NoSong} /\ thread.try \in Nat /\ thread.packets \in 0..Packets
         /\ thread.left \in Nat /\ thread.eq \in Eqs /\ thread.retries \in Nat
         /\ thread.result \in Results /\ thread.cut \in BOOLEAN
BY DEF OutInv, Typed, Threads

LEMMA ThreadFields ==
  ASSUME OutInv
  PROVE  DOMAIN thread = {"at", "song", "try", "packets", "left", "eq", "retries", "result", "cut"}
BY DEF OutInv, Typed, Threads

\* What is tried: in any order, but each rate after its equaliser, and the calls after the
\* first come last.
LEMMA TriesFacts ==
  ASSUME OutInv, thread.at # "Idle"
  PROVE  /\ Len(Tries) \in Nat /\ DOMAIN Tries = 1..Len(Tries)
         /\ \A i \in 1..Len(Tries) : /\ Tries[i].do \in {"Build", "Open"} /\ Tries[i].rate \in Nat
                                     /\ Tries[i].late \in BOOLEAN
         /\ ~IsDsd(thread.song) => Sound(Tries)
         /\ Len(New(setup, thread.song, FALSE)) \in Nat
         /\ Len(New(setup, thread.song, FALSE)) <= Len(Tries)
         /\ \A i \in 1..Len(New(setup, thread.song, FALSE)) :
              ~Tries[i].late /\ Tries[i] = New(setup, thread.song, FALSE)[i]
<1> DEFINE s == thread.song  new == New(setup, s, FALSE)
<1>1. setup \in Setups /\ s \in Songs
  BY DEF OutInv, Typed, Songs
<1> HIDE DEF s
<1>2. Tries = Ladder[setup][s]
  BY DEF Tries, s
<1>3. /\ Ladder[setup][s] \in Seq(Steps)
      /\ ~IsDsd(s) => Sound(Ladder[setup][s])
      /\ Len(New(setup, s, FALSE)) \in Nat /\ Len(New(setup, s, FALSE)) <= Len(Ladder[setup][s])
      /\ \A i \in 1..Len(New(setup, s, FALSE)) :
              i \in DOMAIN Ladder[setup][s] /\ Ladder[setup][s][i] = New(setup, s, FALSE)[i]
  BY <1>1, LadderFacts
<1>4. new \in Seq(Steps) /\ \A i \in DOMAIN new : ~new[i].late
  BY <1>1, NewFacts
<1> HIDE DEF new
<1>5. Tries \in Seq(Steps)
  BY <1>2, <1>3
<1>6. Len(Tries) \in Nat /\ DOMAIN Tries = 1..Len(Tries) /\ \A i \in 1..Len(Tries) : Tries[i] \in Steps
  BY <1>5
<1>7. \A i \in 1..Len(Tries) : /\ Tries[i].do \in {"Build", "Open"} /\ Tries[i].rate \in Nat
                               /\ Tries[i].late \in BOOLEAN
  BY <1>6 DEF Steps
<1>8. Len(new) \in Nat /\ Len(new) <= Len(Tries)
  BY <1>2, <1>3 DEF new
<1>9. \A i \in 1..Len(new) : Tries[i] = new[i]
  BY <1>2, <1>3 DEF new
<1>10. \A i \in 1..Len(new) : ~Tries[i].late
  BY <1>4, <1>9
<1>11. ~IsDsd(s) => Sound(Tries)
  BY <1>2, <1>3
<1> QED BY <1>6, <1>7, <1>8, <1>9, <1>10, <1>11 DEF new, s

-----------------------------------------------------------------------------
(* Every step keeps it.                                                    *)

LEMMA StoppedKeeps ==
  ASSUME OutInv, Stopped
  PROVE  OutInv'
<1>1. /\ thread.at \in {"Idle", "Loop", "Open", "Build", "Built", "Prefill", "Push", "Drain", "End"}
      /\ thread.song \in Songs \cup {NoSong} /\ thread.try \in Nat /\ thread.packets \in 0..Packets
      /\ thread.left \in Nat /\ thread.eq \in Eqs /\ thread.retries \in Nat
      /\ thread.result \in Results /\ thread.cut \in BOOLEAN
  BY ThreadFacts
<1>2. /\ thread'.at = "End"
      /\ thread'.song = thread.song
      /\ thread'.try = thread.try
      /\ thread'.packets = thread.packets
      /\ thread'.left = thread.left
      /\ thread'.eq = thread.eq
      /\ thread'.retries = thread.retries
      /\ thread'.result = "Stopped"
      /\ thread'.cut = (thread.cut \/ "Stopped" # "Finished")
  BY DEF OutInv, Typed, Threads, Stopped, EndWith, Closes
<1>3. setup' = setup /\ Tries' = Tries
  BY <1>2 DEF Tries, dsp, ghosts, Stopped, EndWith, Closes
<1>4. Typed'
  <2>1. thread' = [at |-> thread'.at,
                song |-> thread'.song,
                try |-> thread'.try,
                packets |-> thread'.packets,
                left |-> thread'.left,
                eq |-> thread'.eq,
                retries |-> thread'.retries,
                result |-> thread'.result,
                cut |-> thread'.cut]
    BY DEF OutInv, Typed, Threads, Stopped, EndWith, Closes
  <2>2. /\ thread'.at \in {"Idle", "Loop", "Open", "Build", "Built", "Prefill", "Push", "Drain", "End"}
        /\ thread'.song \in Songs \cup {NoSong} /\ thread'.try \in Nat
    BY <1>1, <1>2
  <2>3. thread'.packets \in 0..Packets
    BY <1>1, <1>2, Numbers DEF Stopped, EndWith, Closes
  <2>4. thread'.left \in Nat
    BY <1>1, <1>2, Numbers DEF OutInv, Typed, Stopped, EndWith, Closes
  <2>5. thread'.eq \in Eqs /\ thread'.retries \in Nat
    BY <1>1, <1>2 DEF OutInv, Typed, Eqs, Stopped, EndWith, Closes
  <2>6. thread'.result \in Results /\ thread'.cut \in BOOLEAN
    BY <1>1, <1>2 DEF Results
  <2>7. thread' \in Threads
    BY <2>1, <2>2, <2>3, <2>4, <2>5, <2>6 DEF Threads
  <2>8. out' \in [open : BOOLEAN, rate : Nat, eq : Eqs] /\ pending' \in Eqs
    BY Constants DEF OutInv, Typed, Threads, Eqs, dsp, ghosts, Stopped, EndWith, Closes
  <2>9. ring' \in 0..Room /\ errors' \in 0..Threshold /\ due' \in Nat /\ heard' \in Nat
    BY <1>1, Numbers DEF OutInv, Typed, dsp, ghosts, Stopped, EndWith, Closes
  <2>10. /\ update' \in [at : {"Idle", "Build", "Slot", "Flag"}, eq : Eqs] /\ known' \in Nat
         /\ infos' \in Seq(Nat)
    BY Constants DEF OutInv, Typed, Eqs, dsp, ghosts, Stopped, EndWith, Closes
  <2>11. /\ thread'.at # "Idle" => thread'.song \in setup'.songs
         /\ setup' \in Setups /\ stop' \in BOOLEAN /\ filters' \in Filters /\ gain' \in Nat
    BY <1>2, <1>3 DEF OutInv, Typed, dsp, ghosts, Stopped, EndWith, Closes
  <2>12. flag' \in BOOLEAN /\ held' \in BOOLEAN
    BY DEF OutInv, Typed, Active, dsp, ghosts, Stopped, EndWith, Closes
  <2>13. spoiled' \in [skipped : BOOLEAN, raced : BOOLEAN, misfit : BOOLEAN]
    BY Constants DEF OutInv, Typed, dsp, ghosts, Stopped, EndWith, Closes
  <2> QED BY <2>7, <2>8, <2>9, <2>10, <2>11, <2>12, <2>13 DEF Typed
<1>5. Phases'
  BY <1>1, <1>2, <1>3 DEF OutInv, Typed, Phases, Opened, Locked, Tried, Rated, Gained, Eqs, IsDsd,
     Closed, dsp, ghosts, Stopped, EndWith, Closes
<1>6. Fits'
  BY <1>1, <1>2, <1>3 DEF OutInv, Typed, Phases, Opened, Locked, Tried, Rated, Gained, Fits,
     FitLocks, FitRate, FitSet, FitFlag, FitGain, Fresh, Latest, Eqs, IsDsd, Closed, Active,
     Unspoiled, NoUpdate, dsp, ghosts, Stopped, EndWith, Closes
<1>7. Counted'
  BY <1>1, <1>2 DEF OutInv, Typed, Phases, Opened, Locked, Tried, Rated, Gained, Counted,
     HeardOut, Closed, dsp, ghosts, Stopped, EndWith, Closes
<1>8. Exhausted'
  BY <1>1, <1>2, <1>3 DEF OutInv, Exhausted, IsDsd, dsp, ghosts, Stopped, EndWith, Closes
<1> QED BY <1>4, <1>5, <1>6, <1>7, <1>8 DEF OutInv

LEMMA DecodeKeeps ==
  ASSUME OutInv, Decode
  PROVE  OutInv'
<1>1. /\ thread.at \in {"Idle", "Loop", "Open", "Build", "Built", "Prefill", "Push", "Drain", "End"}
      /\ thread.song \in Songs \cup {NoSong} /\ thread.try \in Nat /\ thread.packets \in 0..Packets
      /\ thread.left \in Nat /\ thread.eq \in Eqs /\ thread.retries \in Nat
      /\ thread.result \in Results /\ thread.cut \in BOOLEAN
  BY ThreadFacts
<1>2. /\ thread'.at = "Open"
      /\ thread'.song = thread.song
      /\ thread'.try = 1
      /\ thread'.packets = thread.packets - 1
      /\ thread'.left = thread.left
      /\ thread'.eq = thread.eq
      /\ thread'.retries = thread.retries
      /\ thread'.result = thread.result
      /\ thread'.cut = thread.cut
  BY DEF OutInv, Typed, Threads, Decode
<1>3. setup' = setup /\ Tries' = Tries
  BY <1>2 DEF Tries, dsp, ghosts, Decode
<1>4. Typed'
  <2>1. thread' = [at |-> thread'.at,
                song |-> thread'.song,
                try |-> thread'.try,
                packets |-> thread'.packets,
                left |-> thread'.left,
                eq |-> thread'.eq,
                retries |-> thread'.retries,
                result |-> thread'.result,
                cut |-> thread'.cut]
    BY DEF OutInv, Typed, Threads, Decode
  <2>2. /\ thread'.at \in {"Idle", "Loop", "Open", "Build", "Built", "Prefill", "Push", "Drain", "End"}
        /\ thread'.song \in Songs \cup {NoSong} /\ thread'.try \in Nat
    BY <1>1, <1>2
  <2>3. thread'.packets \in 0..Packets
    BY <1>1, <1>2, Numbers DEF Decode
  <2>4. thread'.left \in Nat
    BY <1>1, <1>2, Numbers DEF OutInv, Typed, Decode
  <2>5. thread'.eq \in Eqs /\ thread'.retries \in Nat
    BY <1>1, <1>2 DEF OutInv, Typed, Eqs, Decode
  <2>6. thread'.result \in Results /\ thread'.cut \in BOOLEAN
    BY <1>1, <1>2 DEF Results
  <2>7. thread' \in Threads
    BY <2>1, <2>2, <2>3, <2>4, <2>5, <2>6 DEF Threads
  <2>8. out' \in [open : BOOLEAN, rate : Nat, eq : Eqs] /\ pending' \in Eqs
    BY Constants DEF OutInv, Typed, Threads, Eqs, dsp, ghosts, Decode
  <2>9. ring' \in 0..Room /\ errors' \in 0..Threshold /\ due' \in Nat /\ heard' \in Nat
    BY <1>1, Numbers DEF OutInv, Typed, dsp, ghosts, Decode
  <2>10. /\ update' \in [at : {"Idle", "Build", "Slot", "Flag"}, eq : Eqs] /\ known' \in Nat
         /\ infos' \in Seq(Nat)
    BY Constants DEF OutInv, Typed, Eqs, dsp, ghosts, Decode
  <2>11. /\ thread'.at # "Idle" => thread'.song \in setup'.songs
         /\ setup' \in Setups /\ stop' \in BOOLEAN /\ filters' \in Filters /\ gain' \in Nat
    BY <1>2, <1>3 DEF OutInv, Typed, dsp, ghosts, Decode
  <2>12. flag' \in BOOLEAN /\ held' \in BOOLEAN
    BY DEF OutInv, Typed, Active, dsp, ghosts, Decode
  <2>13. spoiled' \in [skipped : BOOLEAN, raced : BOOLEAN, misfit : BOOLEAN]
    BY Constants DEF OutInv, Typed, dsp, ghosts, Decode
  <2> QED BY <2>7, <2>8, <2>9, <2>10, <2>11, <2>12, <2>13 DEF Typed
<1>5. Phases'
  <2>1. Opened'
    BY <1>1, <1>2, <1>3 DEF OutInv, Phases, Opened, Locked, Closed, dsp, ghosts, Decode
  <2>2. Locked'
    BY <1>1, <1>2, <1>3 DEF OutInv, Typed, Eqs, Phases, Opened, Locked, Closed, dsp, ghosts, Decode
  <2>3. Tried'
    BY <1>1, <1>2, <1>3 DEF OutInv, Phases, Opened, Locked, Closed, dsp, ghosts, Decode, Tried,
       IsDsd
  <2>4. Rated'
    BY <1>1, <1>2, <1>3 DEF OutInv, Phases, Opened, Locked, Closed, dsp, ghosts, Decode, Rated,
       IsDsd
  <2>5. Gained'
    BY <1>1, <1>2, <1>3 DEF OutInv, Phases, Opened, Locked, Closed, dsp, ghosts, Decode, Gained
  <2> QED BY <2>1, <2>2, <2>3, <2>4, <2>5 DEF Phases
<1>6. Fits'
  <2>1. FitLocks'
    BY <1>1, <1>2, <1>3 DEF OutInv, Phases, Opened, Locked, Closed, dsp, ghosts, Decode, Fits,
       FitLocks
  <2>2. FitRate'
    BY <1>1, <1>2, <1>3 DEF OutInv, Phases, Opened, Locked, Closed, dsp, ghosts, Decode, Fits,
       FitRate, FitLocks, Fresh, Latest, IsDsd
  <2>3. FitSet'
    BY <1>1, <1>2, <1>3 DEF OutInv, Phases, Opened, Locked, Closed, dsp, ghosts, Decode, Fits,
       FitSet, FitLocks, Fresh, Latest, IsDsd
  <2>4. FitFlag'
    BY <1>1, <1>2, <1>3 DEF OutInv, Phases, Opened, Locked, Closed, dsp, ghosts, Decode, Fits,
       FitFlag, FitLocks, Fresh, Latest, IsDsd, Active
  <2>5. FitGain'
    BY <1>1, <1>2, <1>3 DEF OutInv, Phases, Opened, Locked, Closed, dsp, ghosts, Decode, Fits,
       FitGain, FitLocks, Fresh, Latest, IsDsd
  <2> QED BY <2>1, <2>2, <2>3, <2>4, <2>5 DEF Fits
<1>7. Counted'
  BY <1>1, <1>2 DEF OutInv, Typed, Phases, Counted, HeardOut, Closed, dsp, ghosts, Decode
<1>8. Exhausted'
  BY <1>1, <1>2, <1>3 DEF OutInv, Exhausted, IsDsd, dsp, ghosts, Decode
<1> QED BY <1>4, <1>5, <1>6, <1>7, <1>8 DEF OutInv

LEMMA WriteBrokenKeeps ==
  ASSUME OutInv, WriteBroken
  PROVE  OutInv'
<1>1. /\ thread.at \in {"Idle", "Loop", "Open", "Build", "Built", "Prefill", "Push", "Drain", "End"}
      /\ thread.song \in Songs \cup {NoSong} /\ thread.try \in Nat /\ thread.packets \in 0..Packets
      /\ thread.left \in Nat /\ thread.eq \in Eqs /\ thread.retries \in Nat
      /\ thread.result \in Results /\ thread.cut \in BOOLEAN
  BY ThreadFacts
<1>2. /\ thread'.at = (IF thread.song.kind = "Session" THEN "End" ELSE "Loop")
      /\ thread'.song = thread.song
      /\ thread'.try = thread.try
      /\ thread'.packets = (IF thread.song.kind = "Session" THEN thread.packets ELSE (IF thread.at = "Loop" THEN thread.packets - 1 ELSE thread.packets))
      /\ thread'.left = 0
      /\ thread'.eq = thread.eq
      /\ thread'.retries = thread.retries
      /\ thread'.result = (IF thread.song.kind = "Session" THEN "Lost" ELSE thread.result)
      /\ thread'.cut = TRUE
  BY DEF OutInv, Typed, Threads, WriteBroken, AtWrite, Drops, Closes, Unread
<1>3. held = FALSE /\ held' = FALSE /\ ~ (thread'.at \in {"Build", "Built"})
  <2>1. thread.at \in {"Loop", "Prefill"}
    BY DEF WriteBroken, AtWrite
  <2>2. held = FALSE
    BY <2>1 DEF OutInv, Phases, Locked
  <2>3. held' = held
    BY DEF dsp, WriteBroken
  <2> QED BY <1>2, <2>1, <2>2, <2>3
<1>4. setup' = setup /\ Tries' = Tries
  BY <1>2 DEF Tries, dsp, ghosts, WriteBroken, AtWrite, Drops, Closes, Unread
<1>5. Typed'
  <2>1. thread' = [at |-> thread'.at,
                song |-> thread'.song,
                try |-> thread'.try,
                packets |-> thread'.packets,
                left |-> thread'.left,
                eq |-> thread'.eq,
                retries |-> thread'.retries,
                result |-> thread'.result,
                cut |-> thread'.cut]
    BY DEF OutInv, Typed, Threads, WriteBroken, AtWrite, Drops, Closes, Unread
  <2>2. /\ thread'.at \in {"Idle", "Loop", "Open", "Build", "Built", "Prefill", "Push", "Drain", "End"}
        /\ thread'.song \in Songs \cup {NoSong} /\ thread'.try \in Nat
    BY <1>1, <1>2
  <2>3. thread'.packets \in 0..Packets
    BY <1>1, <1>2, Numbers DEF WriteBroken, AtWrite, Drops, Closes, Unread
  <2>4. thread'.left \in Nat
    BY <1>1, <1>2, Numbers DEF OutInv, Typed, WriteBroken, AtWrite, Drops, Closes, Unread
  <2>5. thread'.eq \in Eqs /\ thread'.retries \in Nat
    BY <1>1, <1>2 DEF OutInv, Typed, Eqs, WriteBroken, AtWrite, Drops, Closes, Unread
  <2>6. thread'.result \in Results /\ thread'.cut \in BOOLEAN
    BY <1>1, <1>2 DEF Results
  <2>7. thread' \in Threads
    BY <2>1, <2>2, <2>3, <2>4, <2>5, <2>6 DEF Threads
  <2>8. out' \in [open : BOOLEAN, rate : Nat, eq : Eqs] /\ pending' \in Eqs
    BY Constants DEF OutInv, Typed, Threads, Eqs, dsp, ghosts, WriteBroken, AtWrite, Drops,
       Closes, Unread
  <2>9. ring' \in 0..Room /\ errors' \in 0..Threshold /\ due' \in Nat /\ heard' \in Nat
    BY <1>1, Numbers DEF OutInv, Typed, dsp, ghosts, WriteBroken, AtWrite, Drops, Closes, Unread
  <2>10. /\ update' \in [at : {"Idle", "Build", "Slot", "Flag"}, eq : Eqs] /\ known' \in Nat
         /\ infos' \in Seq(Nat)
    BY Constants DEF OutInv, Typed, Eqs, dsp, ghosts, WriteBroken, AtWrite, Drops, Closes, Unread
  <2>11. /\ thread'.at # "Idle" => thread'.song \in setup'.songs
         /\ setup' \in Setups /\ stop' \in BOOLEAN /\ filters' \in Filters /\ gain' \in Nat
    BY <1>2, <1>4 DEF OutInv, Typed, dsp, ghosts, WriteBroken, AtWrite, Drops, Closes, Unread
  <2>12. flag' \in BOOLEAN /\ held' \in BOOLEAN
    BY DEF OutInv, Typed, Active, dsp, ghosts, WriteBroken, AtWrite, Drops, Closes, Unread
  <2>13. spoiled' \in [skipped : BOOLEAN, raced : BOOLEAN, misfit : BOOLEAN]
    BY Constants DEF OutInv, Typed, dsp, ghosts, WriteBroken, AtWrite, Drops, Closes, Unread
  <2> QED BY <2>7, <2>8, <2>9, <2>10, <2>11, <2>12, <2>13 DEF Typed
<1>6. Phases'
  <2>1. Opened'
    BY <1>1, <1>2, <1>4 DEF OutInv, Phases, Opened, Locked, Closed, dsp, ghosts, WriteBroken,
       AtWrite, Drops, Closes, Unread
  <2>2. Locked'
    BY <1>3 DEF Locked
  <2>3. Tried'
    BY <1>1, <1>2, <1>4 DEF OutInv, Phases, Opened, Locked, Closed, dsp, ghosts, WriteBroken,
       AtWrite, Drops, Closes, Unread, Tried, IsDsd
  <2>4. Rated'
    BY <1>1, <1>2, <1>4 DEF OutInv, Phases, Opened, Locked, Closed, dsp, ghosts, WriteBroken,
       AtWrite, Drops, Closes, Unread, Rated, IsDsd
  <2>5. Gained'
    BY <1>1, <1>2, <1>4 DEF OutInv, Phases, Opened, Locked, Closed, dsp, ghosts, WriteBroken,
       AtWrite, Drops, Closes, Unread, Gained
  <2> QED BY <2>1, <2>2, <2>3, <2>4, <2>5 DEF Phases
<1>7. Fits'
  <2>1. FitLocks'
    BY <1>1, <1>2, <1>4 DEF OutInv, Phases, Opened, Locked, Closed, dsp, ghosts, WriteBroken,
       AtWrite, Drops, Closes, Unread, Fits, FitLocks
  <2>2. FitRate'
    BY <1>1, <1>2, <1>4 DEF OutInv, Phases, Opened, Locked, Closed, dsp, ghosts, WriteBroken,
       AtWrite, Drops, Closes, Unread, Fits, FitRate, FitLocks, Fresh, Latest, IsDsd
  <2>3. FitSet'
    BY <1>1, <1>2, <1>4 DEF OutInv, Phases, Opened, Locked, Closed, dsp, ghosts, WriteBroken,
       AtWrite, Drops, Closes, Unread, Fits, FitSet, FitLocks, Fresh, Latest, IsDsd
  <2>4. FitFlag'
    BY <1>1, <1>2, <1>4 DEF OutInv, Phases, Opened, Locked, Closed, dsp, ghosts, WriteBroken,
       AtWrite, Drops, Closes, Unread, Fits, FitFlag, FitLocks, Fresh, Latest, IsDsd, Active
  <2>5. FitGain'
    BY <1>1, <1>2, <1>4 DEF OutInv, Phases, Opened, Locked, Closed, dsp, ghosts, WriteBroken,
       AtWrite, Drops, Closes, Unread, Fits, FitGain, FitLocks, Fresh, Latest, IsDsd
  <2> QED BY <2>1, <2>2, <2>3, <2>4, <2>5 DEF Fits
<1>8. Counted'
  BY <1>1, <1>2 DEF OutInv, Typed, Phases, Counted, HeardOut, Closed, dsp, ghosts, WriteBroken,
     AtWrite, Drops, Closes, Unread
<1>9. Exhausted'
  BY <1>1, <1>2, <1>4 DEF OutInv, Exhausted, IsDsd, dsp, ghosts, WriteBroken, AtWrite, Drops,
     Closes, Unread
<1> QED BY <1>5, <1>6, <1>7, <1>8, <1>9 DEF OutInv

LEMMA PushPartKeeps ==
  ASSUME OutInv, PushPart
  PROVE  OutInv'
<1>1. /\ thread.at \in {"Idle", "Loop", "Open", "Build", "Built", "Prefill", "Push", "Drain", "End"}
      /\ thread.song \in Songs \cup {NoSong} /\ thread.try \in Nat /\ thread.packets \in 0..Packets
      /\ thread.left \in Nat /\ thread.eq \in Eqs /\ thread.retries \in Nat
      /\ thread.result \in Results /\ thread.cut \in BOOLEAN
  BY ThreadFacts
<1>2. LET n == Least(thread.left, Room - ring)
      IN  n \in Nat /\ n <= thread.left /\ n <= Room - ring
  <2>1. Room - ring \in Nat /\ thread.left \in Nat
    BY <1>1, Numbers DEF OutInv, Typed
  <2> QED BY <2>1 DEF Least
<1>3. /\ thread'.at = (IF thread.at = "Push" /\ Least(thread.left, Room - ring) = thread.left THEN "Loop" ELSE thread.at)
      /\ thread'.song = thread.song
      /\ thread'.try = thread.try
      /\ thread'.packets = thread.packets
      /\ thread'.left = thread.left - Least(thread.left, Room - ring)
      /\ thread'.eq = thread.eq
      /\ thread'.retries = thread.retries
      /\ thread'.result = thread.result
      /\ thread'.cut = thread.cut
  BY DEF OutInv, Typed, Threads, PushPart, Pushing
<1>4. held = FALSE /\ held' = FALSE /\ ~ (thread'.at \in {"Build", "Built"})
  <2>1. thread.at \in {"Prefill", "Push"}
    BY DEF PushPart, Pushing
  <2>2. held = FALSE
    BY <2>1 DEF OutInv, Phases, Locked
  <2>3. held' = held
    BY DEF dsp, PushPart
  <2> QED BY <1>3, <2>1, <2>2, <2>3
<1>5. setup' = setup /\ Tries' = Tries
  BY <1>3 DEF Tries, dsp, ghosts, PushPart, Pushing
<1>6. Typed'
  <2>1. thread' = [at |-> thread'.at,
                song |-> thread'.song,
                try |-> thread'.try,
                packets |-> thread'.packets,
                left |-> thread'.left,
                eq |-> thread'.eq,
                retries |-> thread'.retries,
                result |-> thread'.result,
                cut |-> thread'.cut]
    BY DEF OutInv, Typed, Threads, PushPart, Pushing
  <2>2. /\ thread'.at \in {"Idle", "Loop", "Open", "Build", "Built", "Prefill", "Push", "Drain", "End"}
        /\ thread'.song \in Songs \cup {NoSong} /\ thread'.try \in Nat
    BY <1>1, <1>3
  <2>3. thread'.packets \in 0..Packets
    BY <1>1, <1>3, Numbers DEF PushPart, Pushing
  <2>4. thread'.left \in Nat
    BY <1>1, <1>3, <1>2
  <2>5. thread'.eq \in Eqs /\ thread'.retries \in Nat
    BY <1>1, <1>3 DEF OutInv, Typed, Eqs, PushPart, Pushing
  <2>6. thread'.result \in Results /\ thread'.cut \in BOOLEAN
    BY <1>1, <1>3 DEF Results
  <2>7. thread' \in Threads
    BY <2>1, <2>2, <2>3, <2>4, <2>5, <2>6 DEF Threads
  <2>8. out' \in [open : BOOLEAN, rate : Nat, eq : Eqs] /\ pending' \in Eqs
    BY Constants DEF OutInv, Typed, Threads, Eqs, dsp, ghosts, PushPart, Pushing
  <2>9. ring' \in 0..Room /\ errors' \in 0..Threshold /\ due' \in Nat /\ heard' \in Nat
    <3> DEFINE n == Least(thread.left, Room - ring)
    <3>1. ring' = ring + n /\ UNCHANGED <<errors, due, heard>>
      BY DEF PushPart, ghosts
    <3>2. n \in Nat /\ n <= Room - ring /\ ring \in 0..Room /\ Room \in Nat
      BY <1>2, Numbers DEF OutInv, Typed
    <3> HIDE DEF n
    <3>3. ring' \in 0..Room
      BY <3>1, <3>2
    <3> QED BY <3>1, <3>3 DEF OutInv, Typed
  <2>10. /\ update' \in [at : {"Idle", "Build", "Slot", "Flag"}, eq : Eqs] /\ known' \in Nat
         /\ infos' \in Seq(Nat)
    BY Constants DEF OutInv, Typed, Eqs, dsp, ghosts, PushPart, Pushing
  <2>11. /\ thread'.at # "Idle" => thread'.song \in setup'.songs
         /\ setup' \in Setups /\ stop' \in BOOLEAN /\ filters' \in Filters /\ gain' \in Nat
    BY <1>3, <1>5 DEF OutInv, Typed, dsp, ghosts, PushPart, Pushing
  <2>12. flag' \in BOOLEAN /\ held' \in BOOLEAN
    BY DEF OutInv, Typed, Active, dsp, ghosts, PushPart, Pushing
  <2>13. spoiled' \in [skipped : BOOLEAN, raced : BOOLEAN, misfit : BOOLEAN]
    BY Constants DEF OutInv, Typed, dsp, ghosts, PushPart, Pushing
  <2> QED BY <2>7, <2>8, <2>9, <2>10, <2>11, <2>12, <2>13 DEF Typed
<1>7. Phases'
  <2>1. Opened'
    BY <1>1, <1>3, <1>5, <1>2 DEF OutInv, Phases, Opened, Locked, Closed, dsp, ghosts, PushPart,
       Pushing
  <2>2. Locked'
    BY <1>4 DEF Locked
  <2>3. Tried'
    BY <1>1, <1>3, <1>5, <1>2 DEF OutInv, Phases, Opened, Locked, Closed, dsp, ghosts, PushPart,
       Pushing, Tried, IsDsd
  <2>4. Rated'
    BY <1>1, <1>3, <1>5, <1>2 DEF OutInv, Phases, Opened, Locked, Closed, dsp, ghosts, PushPart,
       Pushing, Rated, IsDsd
  <2>5. Gained'
    BY <1>1, <1>3, <1>5, <1>2 DEF OutInv, Phases, Opened, Locked, Closed, dsp, ghosts, PushPart,
       Pushing, Gained
  <2> QED BY <2>1, <2>2, <2>3, <2>4, <2>5 DEF Phases
<1>8. Fits'
  <2>1. FitLocks'
    BY <1>1, <1>3, <1>5, <1>2 DEF OutInv, Phases, Opened, Locked, Closed, dsp, ghosts, PushPart,
       Pushing, Fits, FitLocks
  <2>2. FitRate'
    BY <1>1, <1>3, <1>5, <1>2 DEF OutInv, Phases, Opened, Locked, Closed, dsp, ghosts, PushPart,
       Pushing, Fits, FitRate, FitLocks, Fresh, Latest, IsDsd
  <2>3. FitSet'
    BY <1>1, <1>3, <1>5, <1>2 DEF OutInv, Phases, Opened, Locked, Closed, dsp, ghosts, PushPart,
       Pushing, Fits, FitSet, FitLocks, Fresh, Latest, IsDsd
  <2>4. FitFlag'
    BY <1>1, <1>3, <1>5, <1>2 DEF OutInv, Phases, Opened, Locked, Closed, dsp, ghosts, PushPart,
       Pushing, Fits, FitFlag, FitLocks, Fresh, Latest, IsDsd, Active
  <2>5. FitGain'
    BY <1>1, <1>3, <1>5, <1>2 DEF OutInv, Phases, Opened, Locked, Closed, dsp, ghosts, PushPart,
       Pushing, Fits, FitGain, FitLocks, Fresh, Latest, IsDsd
  <2> QED BY <2>1, <2>2, <2>3, <2>4, <2>5 DEF Fits
<1>9. Counted'
  <2> DEFINE n == Least(thread.left, Room - ring)
  <2>1. n \in Nat /\ n <= thread.left /\ n <= Room - ring
    BY <1>2
  <2>2. ring' = ring + n /\ thread'.left = thread.left - n /\ out' = out /\ due' = due /\ heard' = heard
    BY <1>3 DEF PushPart, ghosts
  <2>3. thread'.at = (IF thread.at = "Push" /\ n = thread.left THEN "Loop" ELSE thread.at)
        /\ thread'.cut = thread.cut
    BY <1>3
  <2>4. thread.at \in {"Prefill", "Push"} /\ out.open
    BY DEF PushPart, Pushing, OutInv, Phases, Opened
  <2> HIDE DEF n
  <2>5. ring \in Nat /\ due \in Nat /\ heard \in Nat /\ thread.left \in Nat
    BY <1>1, Numbers DEF OutInv, Typed
  <2>6. ~thread.cut => due' = heard' + ring' + thread'.left
    BY <2>1, <2>2, <2>4, <2>5 DEF OutInv, Counted
  <2>7. thread'.at \in {"Loop", "Drain"} => thread'.left = 0
    BY <2>1, <2>2, <2>3, <2>4, <2>5
  <2>8. thread'.at # "End"
    BY <2>3, <2>4
  <2> QED BY <2>2, <2>3, <2>4, <2>6, <2>7, <2>8 DEF Counted, HeardOut
<1>10. Exhausted'
  BY <1>1, <1>3, <1>5, <1>2 DEF OutInv, Exhausted, IsDsd, dsp, ghosts, PushPart, Pushing
<1> QED BY <1>6, <1>7, <1>8, <1>9, <1>10 DEF OutInv

LEMMA PushFailsKeeps ==
  ASSUME OutInv, PushFails
  PROVE  OutInv'
<1>1. /\ thread.at \in {"Idle", "Loop", "Open", "Build", "Built", "Prefill", "Push", "Drain", "End"}
      /\ thread.song \in Songs \cup {NoSong} /\ thread.try \in Nat /\ thread.packets \in 0..Packets
      /\ thread.left \in Nat /\ thread.eq \in Eqs /\ thread.retries \in Nat
      /\ thread.result \in Results /\ thread.cut \in BOOLEAN
  BY ThreadFacts
<1>2. /\ thread'.at = (IF thread.at = "Push" THEN (IF thread.song.kind = "Session" THEN "End" ELSE "Loop") ELSE thread.at)
      /\ thread'.song = thread.song
      /\ thread'.try = thread.try
      /\ thread'.packets = (IF thread.at = "Push" THEN (IF thread.song.kind = "Session" THEN thread.packets ELSE (IF thread.at = "Loop" THEN thread.packets - 1 ELSE thread.packets)) ELSE thread.packets)
      /\ thread'.left = 0
      /\ thread'.eq = thread.eq
      /\ thread'.retries = thread.retries
      /\ thread'.result = (IF thread.at = "Push" THEN (IF thread.song.kind = "Session" THEN "Lost" ELSE thread.result) ELSE thread.result)
      /\ thread'.cut = TRUE
  <2>1. CASE thread.at = "Push"
    <3>1. CASE thread.song.kind = "Session"
      <4>1. thread' = [thread EXCEPT !.at = "End", !.result = "Lost", !.cut = TRUE, !.left = 0]
        BY <2>1, <3>1 DEF PushFails, Drops
      <4> QED BY <2>1, <3>1, <4>1, ThreadFields
    <3>2. CASE thread.song.kind # "Session"
      <4>1. thread' = [thread EXCEPT !.at = "Loop", !.packets = Unread, !.cut = TRUE, !.left = 0]
        BY <2>1, <3>2 DEF PushFails, Drops
      <4>2. Unread = thread.packets
        BY <2>1 DEF Unread
      <4> QED BY <2>1, <3>2, <4>1, <4>2, ThreadFields
    <3> QED BY <3>1, <3>2
  <2>2. CASE thread.at = "Prefill"
    <3>1. thread' = [thread EXCEPT !.left = 0, !.cut = TRUE]
      BY <2>2 DEF PushFails
    <3> QED BY <2>2, <3>1, ThreadFields
  <2> QED BY <2>1, <2>2 DEF PushFails, Pushing
<1>3. setup' = setup /\ Tries' = Tries
  BY <1>2 DEF Tries, dsp, ghosts, PushFails, Pushing, Drops, Closes, Unread
<1>4. Typed'
  <2>1. thread' = [at |-> thread'.at,
                song |-> thread'.song,
                try |-> thread'.try,
                packets |-> thread'.packets,
                left |-> thread'.left,
                eq |-> thread'.eq,
                retries |-> thread'.retries,
                result |-> thread'.result,
                cut |-> thread'.cut]
    BY DEF OutInv, Typed, Threads, PushFails, Pushing, Drops, Closes, Unread
  <2>2. /\ thread'.at \in {"Idle", "Loop", "Open", "Build", "Built", "Prefill", "Push", "Drain", "End"}
        /\ thread'.song \in Songs \cup {NoSong} /\ thread'.try \in Nat
    BY <1>1, <1>2
  <2>3. thread'.packets \in 0..Packets
    BY <1>1, <1>2, Numbers DEF PushFails, Pushing, Drops, Closes, Unread
  <2>4. thread'.left \in Nat
    BY <1>1, <1>2, Numbers DEF OutInv, Typed, PushFails, Pushing, Drops, Closes, Unread
  <2>5. thread'.eq \in Eqs /\ thread'.retries \in Nat
    BY <1>1, <1>2 DEF OutInv, Typed, Eqs, PushFails, Pushing, Drops, Closes, Unread
  <2>6. thread'.result \in Results /\ thread'.cut \in BOOLEAN
    BY <1>1, <1>2 DEF Results
  <2>7. thread' \in Threads
    BY <2>1, <2>2, <2>3, <2>4, <2>5, <2>6 DEF Threads
  <2>8. out' \in [open : BOOLEAN, rate : Nat, eq : Eqs] /\ pending' \in Eqs
    BY Constants DEF OutInv, Typed, Threads, Eqs, dsp, ghosts, PushFails, Pushing, Drops, Closes,
       Unread
  <2>9. ring' \in 0..Room /\ errors' \in 0..Threshold /\ due' \in Nat /\ heard' \in Nat
    <3>1. /\ ring \in 0..Room /\ errors \in 0..Threshold /\ due \in Nat /\ heard \in Nat
          /\ 0 \in 0..Room /\ 0 \in 0..Threshold
      BY Numbers DEF OutInv, Typed
    <3>2. /\ ring' \in {0, ring} /\ errors' \in {0, errors} /\ due' = due /\ heard' = heard
      BY DEF PushFails, Drops, Closes, ghosts
    <3> QED BY <3>1, <3>2
  <2>10. /\ update' \in [at : {"Idle", "Build", "Slot", "Flag"}, eq : Eqs] /\ known' \in Nat
         /\ infos' \in Seq(Nat)
    BY Constants DEF OutInv, Typed, Eqs, dsp, ghosts, PushFails, Pushing, Drops, Closes, Unread
  <2>11. /\ thread'.at # "Idle" => thread'.song \in setup'.songs
         /\ setup' \in Setups /\ stop' \in BOOLEAN /\ filters' \in Filters /\ gain' \in Nat
    BY <1>2, <1>3 DEF OutInv, Typed, dsp, ghosts, PushFails, Pushing, Drops, Closes, Unread
  <2>12. flag' \in BOOLEAN /\ held' \in BOOLEAN
    BY DEF OutInv, Typed, Active, dsp, ghosts, PushFails, Pushing, Drops, Closes, Unread
  <2>13. spoiled' \in [skipped : BOOLEAN, raced : BOOLEAN, misfit : BOOLEAN]
    BY Constants DEF OutInv, Typed, dsp, ghosts, PushFails, Pushing, Drops, Closes, Unread
  <2> QED BY <2>7, <2>8, <2>9, <2>10, <2>11, <2>12, <2>13 DEF Typed
<1>5. Phases'
  <2>1. Opened'
    BY <1>1, <1>2, <1>3 DEF OutInv, Phases, Opened, Locked, Closed, dsp, ghosts, PushFails,
       Pushing, Drops, Closes, Unread
  <2>2. Locked'
    BY <1>1, <1>2, <1>3 DEF OutInv, Typed, Eqs, Phases, Opened, Locked, Closed, dsp, ghosts,
       PushFails, Pushing, Drops, Closes, Unread
  <2>3. Tried'
    BY <1>1, <1>2, <1>3 DEF OutInv, Phases, Opened, Locked, Closed, dsp, ghosts, PushFails,
       Pushing, Drops, Closes, Unread, Tried, IsDsd
  <2>4. Rated'
    BY <1>1, <1>2, <1>3 DEF OutInv, Phases, Opened, Locked, Closed, dsp, ghosts, PushFails,
       Pushing, Drops, Closes, Unread, Rated, IsDsd
  <2>5. Gained'
    BY <1>1, <1>2, <1>3 DEF OutInv, Phases, Opened, Locked, Closed, dsp, ghosts, PushFails,
       Pushing, Drops, Closes, Unread, Gained
  <2> QED BY <2>1, <2>2, <2>3, <2>4, <2>5 DEF Phases
<1>6. Fits'
  <2>1. FitLocks'
    BY <1>1, <1>2, <1>3 DEF OutInv, Phases, Opened, Locked, Closed, dsp, ghosts, PushFails,
       Pushing, Drops, Closes, Unread, Fits, FitLocks
  <2>2. FitRate'
    BY <1>1, <1>2, <1>3 DEF OutInv, Phases, Opened, Locked, Closed, dsp, ghosts, PushFails,
       Pushing, Drops, Closes, Unread, Fits, FitRate, FitLocks, Fresh, Latest, IsDsd
  <2>3. FitSet'
    BY <1>1, <1>2, <1>3 DEF OutInv, Phases, Opened, Locked, Closed, dsp, ghosts, PushFails,
       Pushing, Drops, Closes, Unread, Fits, FitSet, FitLocks, Fresh, Latest, IsDsd
  <2>4. FitFlag'
    BY <1>1, <1>2, <1>3 DEF OutInv, Phases, Opened, Locked, Closed, dsp, ghosts, PushFails,
       Pushing, Drops, Closes, Unread, Fits, FitFlag, FitLocks, Fresh, Latest, IsDsd, Active
  <2>5. FitGain'
    BY <1>1, <1>2, <1>3 DEF OutInv, Phases, Opened, Locked, Closed, dsp, ghosts, PushFails,
       Pushing, Drops, Closes, Unread, Fits, FitGain, FitLocks, Fresh, Latest, IsDsd
  <2> QED BY <2>1, <2>2, <2>3, <2>4, <2>5 DEF Fits
<1>7. Counted'
  BY <1>1, <1>2 DEF OutInv, Typed, Phases, Counted, HeardOut, Closed, dsp, ghosts, PushFails,
     Pushing, Drops, Closes, Unread
<1>8. Exhausted'
  BY <1>1, <1>2, <1>3 DEF OutInv, Exhausted, IsDsd, dsp, ghosts, PushFails, Pushing, Drops,
     Closes, Unread
<1> QED BY <1>4, <1>5, <1>6, <1>7, <1>8 DEF OutInv

LEMMA LastPacketKeeps ==
  ASSUME OutInv, LastPacket
  PROVE  OutInv'
<1>1. /\ thread.at \in {"Idle", "Loop", "Open", "Build", "Built", "Prefill", "Push", "Drain", "End"}
      /\ thread.song \in Songs \cup {NoSong} /\ thread.try \in Nat /\ thread.packets \in 0..Packets
      /\ thread.left \in Nat /\ thread.eq \in Eqs /\ thread.retries \in Nat
      /\ thread.result \in Results /\ thread.cut \in BOOLEAN
  BY ThreadFacts
<1>2. /\ thread'.at = (IF out.open THEN "Drain" ELSE "End")
      /\ thread'.song = thread.song
      /\ thread'.try = thread.try
      /\ thread'.packets = thread.packets
      /\ thread'.left = thread.left
      /\ thread'.eq = thread.eq
      /\ thread'.retries = thread.retries
      /\ thread'.result = (IF out.open THEN thread.result ELSE "Finished")
      /\ thread'.cut = thread.cut
  <2>1. CASE out.open
    <3>1. thread' = [thread EXCEPT !.at = "Drain"]
      BY <2>1 DEF LastPacket
    <3> QED BY <2>1, <3>1, ThreadFields
  <2>2. CASE ~out.open
    <3>1. thread' = [thread EXCEPT !.at = "End", !.result = "Finished", !.cut = @ \/ FALSE]
      BY <2>2 DEF LastPacket, EndWith
    <3>2. thread'.cut = (thread.cut \/ FALSE)
      BY <3>1, ThreadFields
    <3>3. thread'.cut = thread.cut
      BY <1>1, <3>2
    <3> QED BY <2>2, <3>1, <3>3, ThreadFields
  <2> QED BY <2>1, <2>2
<1>3. setup' = setup /\ Tries' = Tries
  BY <1>2 DEF Tries, dsp, ghosts, LastPacket, EndWith
<1>4. Typed'
  <2>1. thread' = [at |-> thread'.at,
                song |-> thread'.song,
                try |-> thread'.try,
                packets |-> thread'.packets,
                left |-> thread'.left,
                eq |-> thread'.eq,
                retries |-> thread'.retries,
                result |-> thread'.result,
                cut |-> thread'.cut]
    BY DEF OutInv, Typed, Threads, LastPacket, EndWith
  <2>2. /\ thread'.at \in {"Idle", "Loop", "Open", "Build", "Built", "Prefill", "Push", "Drain", "End"}
        /\ thread'.song \in Songs \cup {NoSong} /\ thread'.try \in Nat
    BY <1>1, <1>2
  <2>3. thread'.packets \in 0..Packets
    BY <1>1, <1>2, Numbers DEF LastPacket, EndWith
  <2>4. thread'.left \in Nat
    BY <1>1, <1>2, Numbers DEF OutInv, Typed, LastPacket, EndWith
  <2>5. thread'.eq \in Eqs /\ thread'.retries \in Nat
    BY <1>1, <1>2 DEF OutInv, Typed, Eqs, LastPacket, EndWith
  <2>6. thread'.result \in Results /\ thread'.cut \in BOOLEAN
    BY <1>1, <1>2 DEF Results
  <2>7. thread' \in Threads
    BY <2>1, <2>2, <2>3, <2>4, <2>5, <2>6 DEF Threads
  <2>8. out' \in [open : BOOLEAN, rate : Nat, eq : Eqs] /\ pending' \in Eqs
    BY Constants DEF OutInv, Typed, Threads, Eqs, dsp, ghosts, LastPacket, EndWith
  <2>9. ring' \in 0..Room /\ errors' \in 0..Threshold /\ due' \in Nat /\ heard' \in Nat
    BY <1>1, Numbers DEF OutInv, Typed, dsp, ghosts, LastPacket, EndWith
  <2>10. /\ update' \in [at : {"Idle", "Build", "Slot", "Flag"}, eq : Eqs] /\ known' \in Nat
         /\ infos' \in Seq(Nat)
    BY Constants DEF OutInv, Typed, Eqs, dsp, ghosts, LastPacket, EndWith
  <2>11. /\ thread'.at # "Idle" => thread'.song \in setup'.songs
         /\ setup' \in Setups /\ stop' \in BOOLEAN /\ filters' \in Filters /\ gain' \in Nat
    BY <1>2, <1>3 DEF OutInv, Typed, dsp, ghosts, LastPacket, EndWith
  <2>12. flag' \in BOOLEAN /\ held' \in BOOLEAN
    BY DEF OutInv, Typed, Active, dsp, ghosts, LastPacket, EndWith
  <2>13. spoiled' \in [skipped : BOOLEAN, raced : BOOLEAN, misfit : BOOLEAN]
    BY Constants DEF OutInv, Typed, dsp, ghosts, LastPacket, EndWith
  <2> QED BY <2>7, <2>8, <2>9, <2>10, <2>11, <2>12, <2>13 DEF Typed
<1>5. Phases'
  <2>1. Opened'
    BY <1>1, <1>2, <1>3 DEF OutInv, Phases, Opened, Locked, Closed, dsp, ghosts, LastPacket, EndWith
  <2>2. Locked'
    BY <1>1, <1>2, <1>3 DEF OutInv, Typed, Eqs, Phases, Opened, Locked, Closed, dsp, ghosts,
       LastPacket, EndWith
  <2>3. Tried'
    BY <1>1, <1>2, <1>3 DEF OutInv, Phases, Opened, Locked, Closed, dsp, ghosts, LastPacket,
       EndWith, Tried, IsDsd
  <2>4. Rated'
    BY <1>1, <1>2, <1>3 DEF OutInv, Phases, Opened, Locked, Closed, dsp, ghosts, LastPacket,
       EndWith, Rated, IsDsd
  <2>5. Gained'
    BY <1>1, <1>2, <1>3 DEF OutInv, Phases, Opened, Locked, Closed, dsp, ghosts, LastPacket,
       EndWith, Gained
  <2> QED BY <2>1, <2>2, <2>3, <2>4, <2>5 DEF Phases
<1>6. Fits'
  <2>1. FitLocks'
    BY <1>1, <1>2, <1>3 DEF OutInv, Phases, Opened, Locked, Closed, dsp, ghosts, LastPacket,
       EndWith, Fits, FitLocks
  <2>2. FitRate'
    BY <1>1, <1>2, <1>3 DEF OutInv, Phases, Opened, Locked, Closed, dsp, ghosts, LastPacket,
       EndWith, Fits, FitRate, FitLocks, Fresh, Latest, IsDsd
  <2>3. FitSet'
    BY <1>1, <1>2, <1>3 DEF OutInv, Phases, Opened, Locked, Closed, dsp, ghosts, LastPacket,
       EndWith, Fits, FitSet, FitLocks, Fresh, Latest, IsDsd
  <2>4. FitFlag'
    BY <1>1, <1>2, <1>3 DEF OutInv, Phases, Opened, Locked, Closed, dsp, ghosts, LastPacket,
       EndWith, Fits, FitFlag, FitLocks, Fresh, Latest, IsDsd, Active
  <2>5. FitGain'
    BY <1>1, <1>2, <1>3 DEF OutInv, Phases, Opened, Locked, Closed, dsp, ghosts, LastPacket,
       EndWith, Fits, FitGain, FitLocks, Fresh, Latest, IsDsd
  <2> QED BY <2>1, <2>2, <2>3, <2>4, <2>5 DEF Fits
<1>7. Counted'
  BY <1>1, <1>2 DEF OutInv, Typed, Phases, Counted, HeardOut, Closed, dsp, ghosts, LastPacket,
     EndWith
<1>8. Exhausted'
  BY <1>1, <1>2, <1>3 DEF OutInv, Exhausted, IsDsd, dsp, ghosts, LastPacket, EndWith
<1> QED BY <1>4, <1>5, <1>6, <1>7, <1>8 DEF OutInv

LEMMA DrainedKeeps ==
  ASSUME OutInv, Drained
  PROVE  OutInv'
<1>1. /\ thread.at \in {"Idle", "Loop", "Open", "Build", "Built", "Prefill", "Push", "Drain", "End"}
      /\ thread.song \in Songs \cup {NoSong} /\ thread.try \in Nat /\ thread.packets \in 0..Packets
      /\ thread.left \in Nat /\ thread.eq \in Eqs /\ thread.retries \in Nat
      /\ thread.result \in Results /\ thread.cut \in BOOLEAN
  BY ThreadFacts
<1>2. /\ thread'.at = "End"
      /\ thread'.song = thread.song
      /\ thread'.try = thread.try
      /\ thread'.packets = thread.packets
      /\ thread'.left = thread.left
      /\ thread'.eq = thread.eq
      /\ thread'.retries = thread.retries
      /\ thread'.result = "Finished"
      /\ thread'.cut = thread.cut
  BY DEF OutInv, Typed, Threads, Drained, EndWith, Closes
<1>3. setup' = setup /\ Tries' = Tries
  BY <1>2 DEF Tries, dsp, ghosts, Drained, EndWith, Closes
<1>4. Typed'
  <2>1. thread' = [at |-> thread'.at,
                song |-> thread'.song,
                try |-> thread'.try,
                packets |-> thread'.packets,
                left |-> thread'.left,
                eq |-> thread'.eq,
                retries |-> thread'.retries,
                result |-> thread'.result,
                cut |-> thread'.cut]
    BY DEF OutInv, Typed, Threads, Drained, EndWith, Closes
  <2>2. /\ thread'.at \in {"Idle", "Loop", "Open", "Build", "Built", "Prefill", "Push", "Drain", "End"}
        /\ thread'.song \in Songs \cup {NoSong} /\ thread'.try \in Nat
    BY <1>1, <1>2
  <2>3. thread'.packets \in 0..Packets
    BY <1>1, <1>2, Numbers DEF Drained, EndWith, Closes
  <2>4. thread'.left \in Nat
    BY <1>1, <1>2, Numbers DEF OutInv, Typed, Drained, EndWith, Closes
  <2>5. thread'.eq \in Eqs /\ thread'.retries \in Nat
    BY <1>1, <1>2 DEF OutInv, Typed, Eqs, Drained, EndWith, Closes
  <2>6. thread'.result \in Results /\ thread'.cut \in BOOLEAN
    BY <1>1, <1>2 DEF Results
  <2>7. thread' \in Threads
    BY <2>1, <2>2, <2>3, <2>4, <2>5, <2>6 DEF Threads
  <2>8. out' \in [open : BOOLEAN, rate : Nat, eq : Eqs] /\ pending' \in Eqs
    BY Constants DEF OutInv, Typed, Threads, Eqs, dsp, ghosts, Drained, EndWith, Closes
  <2>9. ring' \in 0..Room /\ errors' \in 0..Threshold /\ due' \in Nat /\ heard' \in Nat
    BY <1>1, Numbers DEF OutInv, Typed, dsp, ghosts, Drained, EndWith, Closes
  <2>10. /\ update' \in [at : {"Idle", "Build", "Slot", "Flag"}, eq : Eqs] /\ known' \in Nat
         /\ infos' \in Seq(Nat)
    BY Constants DEF OutInv, Typed, Eqs, dsp, ghosts, Drained, EndWith, Closes
  <2>11. /\ thread'.at # "Idle" => thread'.song \in setup'.songs
         /\ setup' \in Setups /\ stop' \in BOOLEAN /\ filters' \in Filters /\ gain' \in Nat
    BY <1>2, <1>3 DEF OutInv, Typed, dsp, ghosts, Drained, EndWith, Closes
  <2>12. flag' \in BOOLEAN /\ held' \in BOOLEAN
    BY DEF OutInv, Typed, Active, dsp, ghosts, Drained, EndWith, Closes
  <2>13. spoiled' \in [skipped : BOOLEAN, raced : BOOLEAN, misfit : BOOLEAN]
    BY Constants DEF OutInv, Typed, dsp, ghosts, Drained, EndWith, Closes
  <2> QED BY <2>7, <2>8, <2>9, <2>10, <2>11, <2>12, <2>13 DEF Typed
<1>5. Phases'
  BY <1>1, <1>2, <1>3 DEF OutInv, Typed, Phases, Opened, Locked, Tried, Rated, Gained, Eqs, IsDsd,
     Closed, dsp, ghosts, Drained, EndWith, Closes
<1>6. Fits'
  BY <1>1, <1>2, <1>3 DEF OutInv, Typed, Phases, Opened, Locked, Tried, Rated, Gained, Fits,
     FitLocks, FitRate, FitSet, FitFlag, FitGain, Fresh, Latest, Eqs, IsDsd, Closed, Active,
     Unspoiled, NoUpdate, dsp, ghosts, Drained, EndWith, Closes
<1>7. Counted'
  BY <1>1, <1>2 DEF OutInv, Typed, Phases, Opened, Locked, Tried, Rated, Gained, Counted,
     HeardOut, Closed, dsp, ghosts, Drained, EndWith, Closes
<1>8. Exhausted'
  BY <1>1, <1>2, <1>3 DEF OutInv, Exhausted, IsDsd, dsp, ghosts, Drained, EndWith, Closes
<1> QED BY <1>4, <1>5, <1>6, <1>7, <1>8 DEF OutInv

LEMMA DrainCutKeeps ==
  ASSUME OutInv, DrainCut
  PROVE  OutInv'
<1>1. /\ thread.at \in {"Idle", "Loop", "Open", "Build", "Built", "Prefill", "Push", "Drain", "End"}
      /\ thread.song \in Songs \cup {NoSong} /\ thread.try \in Nat /\ thread.packets \in 0..Packets
      /\ thread.left \in Nat /\ thread.eq \in Eqs /\ thread.retries \in Nat
      /\ thread.result \in Results /\ thread.cut \in BOOLEAN
  BY ThreadFacts
<1>2. /\ thread'.at = "End"
      /\ thread'.song = thread.song
      /\ thread'.try = thread.try
      /\ thread'.packets = thread.packets
      /\ thread'.left = thread.left
      /\ thread'.eq = thread.eq
      /\ thread'.retries = thread.retries
      /\ thread'.result = "Finished"
      /\ thread'.cut = TRUE
  BY DEF OutInv, Typed, Threads, DrainCut, EndWith, Closes
<1>3. setup' = setup /\ Tries' = Tries
  BY <1>2 DEF Tries, dsp, ghosts, DrainCut, EndWith, Closes
<1>4. Typed'
  <2>1. thread' = [at |-> thread'.at,
                song |-> thread'.song,
                try |-> thread'.try,
                packets |-> thread'.packets,
                left |-> thread'.left,
                eq |-> thread'.eq,
                retries |-> thread'.retries,
                result |-> thread'.result,
                cut |-> thread'.cut]
    BY DEF OutInv, Typed, Threads, DrainCut, EndWith, Closes
  <2>2. /\ thread'.at \in {"Idle", "Loop", "Open", "Build", "Built", "Prefill", "Push", "Drain", "End"}
        /\ thread'.song \in Songs \cup {NoSong} /\ thread'.try \in Nat
    BY <1>1, <1>2
  <2>3. thread'.packets \in 0..Packets
    BY <1>1, <1>2, Numbers DEF DrainCut, EndWith, Closes
  <2>4. thread'.left \in Nat
    BY <1>1, <1>2, Numbers DEF OutInv, Typed, DrainCut, EndWith, Closes
  <2>5. thread'.eq \in Eqs /\ thread'.retries \in Nat
    BY <1>1, <1>2 DEF OutInv, Typed, Eqs, DrainCut, EndWith, Closes
  <2>6. thread'.result \in Results /\ thread'.cut \in BOOLEAN
    BY <1>1, <1>2 DEF Results
  <2>7. thread' \in Threads
    BY <2>1, <2>2, <2>3, <2>4, <2>5, <2>6 DEF Threads
  <2>8. out' \in [open : BOOLEAN, rate : Nat, eq : Eqs] /\ pending' \in Eqs
    BY Constants DEF OutInv, Typed, Threads, Eqs, dsp, ghosts, DrainCut, EndWith, Closes
  <2>9. ring' \in 0..Room /\ errors' \in 0..Threshold /\ due' \in Nat /\ heard' \in Nat
    BY <1>1, Numbers DEF OutInv, Typed, dsp, ghosts, DrainCut, EndWith, Closes
  <2>10. /\ update' \in [at : {"Idle", "Build", "Slot", "Flag"}, eq : Eqs] /\ known' \in Nat
         /\ infos' \in Seq(Nat)
    BY Constants DEF OutInv, Typed, Eqs, dsp, ghosts, DrainCut, EndWith, Closes
  <2>11. /\ thread'.at # "Idle" => thread'.song \in setup'.songs
         /\ setup' \in Setups /\ stop' \in BOOLEAN /\ filters' \in Filters /\ gain' \in Nat
    BY <1>2, <1>3 DEF OutInv, Typed, dsp, ghosts, DrainCut, EndWith, Closes
  <2>12. flag' \in BOOLEAN /\ held' \in BOOLEAN
    BY DEF OutInv, Typed, Active, dsp, ghosts, DrainCut, EndWith, Closes
  <2>13. spoiled' \in [skipped : BOOLEAN, raced : BOOLEAN, misfit : BOOLEAN]
    BY Constants DEF OutInv, Typed, dsp, ghosts, DrainCut, EndWith, Closes
  <2> QED BY <2>7, <2>8, <2>9, <2>10, <2>11, <2>12, <2>13 DEF Typed
<1>5. Phases'
  BY <1>1, <1>2, <1>3 DEF OutInv, Typed, Phases, Opened, Locked, Tried, Rated, Gained, Eqs, IsDsd,
     Closed, dsp, ghosts, DrainCut, EndWith, Closes
<1>6. Fits'
  BY <1>1, <1>2, <1>3 DEF OutInv, Typed, Phases, Opened, Locked, Tried, Rated, Gained, Fits,
     FitLocks, FitRate, FitSet, FitFlag, FitGain, Fresh, Latest, Eqs, IsDsd, Closed, Active,
     Unspoiled, NoUpdate, dsp, ghosts, DrainCut, EndWith, Closes
<1>7. Counted'
  BY <1>1, <1>2 DEF OutInv, Typed, Phases, Opened, Locked, Tried, Rated, Gained, Counted,
     HeardOut, Closed, dsp, ghosts, DrainCut, EndWith, Closes
<1>8. Exhausted'
  BY <1>1, <1>2, <1>3 DEF OutInv, Exhausted, IsDsd, dsp, ghosts, DrainCut, EndWith, Closes
<1> QED BY <1>4, <1>5, <1>6, <1>7, <1>8 DEF OutInv

LEMMA RebuildKeeps ==
  ASSUME OutInv, Rebuild
  PROVE  OutInv'
<1>1. /\ thread.at \in {"Idle", "Loop", "Open", "Build", "Built", "Prefill", "Push", "Drain", "End"}
      /\ thread.song \in Songs \cup {NoSong} /\ thread.try \in Nat /\ thread.packets \in 0..Packets
      /\ thread.left \in Nat /\ thread.eq \in Eqs /\ thread.retries \in Nat
      /\ thread.result \in Results /\ thread.cut \in BOOLEAN
  BY ThreadFacts
<1>2. /\ Len(Tries) \in Nat /\ DOMAIN Tries = 1..Len(Tries)
      /\ \A i \in 1..Len(Tries) : Tries[i].do \in {"Build", "Open"} /\ Tries[i].rate \in Nat
      /\ ~IsDsd(thread.song) => Sound(Tries)
      /\ Len(New(setup, thread.song, FALSE)) \in Nat
      /\ Len(New(setup, thread.song, FALSE)) <= Len(Tries)
  BY TriesFacts DEF Trying, Rebuild, Refused, GiveUp
<1>3. /\ thread'.at = "Build"
      /\ thread'.song = thread.song
      /\ thread'.try = thread.try
      /\ thread'.packets = thread.packets
      /\ thread'.left = thread.left
      /\ thread'.eq = Equaliser(Tries[thread.try].rate)
      /\ thread'.retries = thread.retries
      /\ thread'.result = thread.result
      /\ thread'.cut = thread.cut
  BY DEF OutInv, Typed, Threads, Rebuild, Trying, Equaliser
<1>4. /\ spoiled'.raced = (update.at # "Idle") /\ held' = TRUE
      /\ thread'.eq.rate = Tries[thread.try].rate /\ thread'.eq.set = filters /\ thread'.eq.gain = gain
      /\ thread.try \in DOMAIN Tries /\ Tries[thread.try].rate \in Nat
  BY <1>1, <1>3, <1>2 DEF Rebuild, Trying, Equaliser, Unspoiled, OutInv, Phases, Tried
<1>5. setup' = setup /\ Tries' = Tries
  BY <1>3 DEF Tries, dsp, ghosts, Rebuild, Trying, Equaliser
<1>6. Typed'
  <2>1. thread' = [at |-> thread'.at,
                song |-> thread'.song,
                try |-> thread'.try,
                packets |-> thread'.packets,
                left |-> thread'.left,
                eq |-> thread'.eq,
                retries |-> thread'.retries,
                result |-> thread'.result,
                cut |-> thread'.cut]
    BY DEF OutInv, Typed, Threads, Rebuild, Trying, Equaliser
  <2>2. /\ thread'.at \in {"Idle", "Loop", "Open", "Build", "Built", "Prefill", "Push", "Drain", "End"}
        /\ thread'.song \in Songs \cup {NoSong} /\ thread'.try \in Nat
    BY <1>1, <1>3
  <2>3. thread'.packets \in 0..Packets
    BY <1>1, <1>3, Numbers DEF Rebuild, Trying, Equaliser
  <2>4. thread'.left \in Nat
    BY <1>1, <1>3, Numbers DEF OutInv, Typed, Rebuild, Trying, Equaliser
  <2>5. thread'.eq \in Eqs /\ thread'.retries \in Nat
    BY <1>1, <1>3, <1>4 DEF OutInv, Typed, Eqs, Rebuild, Trying, Equaliser
  <2>6. thread'.result \in Results /\ thread'.cut \in BOOLEAN
    BY <1>1, <1>3 DEF Results
  <2>7. thread' \in Threads
    BY <2>1, <2>2, <2>3, <2>4, <2>5, <2>6 DEF Threads
  <2>8. out' \in [open : BOOLEAN, rate : Nat, eq : Eqs] /\ pending' \in Eqs
    BY Constants DEF OutInv, Typed, Threads, Eqs, dsp, ghosts, Rebuild, Trying, Equaliser
  <2>9. ring' \in 0..Room /\ errors' \in 0..Threshold /\ due' \in Nat /\ heard' \in Nat
    BY <1>1, <1>2, Numbers DEF OutInv, Typed, dsp, ghosts, Rebuild, Trying, Equaliser
  <2>10. /\ update' \in [at : {"Idle", "Build", "Slot", "Flag"}, eq : Eqs] /\ known' \in Nat
         /\ infos' \in Seq(Nat)
    BY Constants DEF OutInv, Typed, Eqs, dsp, ghosts, Rebuild, Trying, Equaliser
  <2>11. /\ thread'.at # "Idle" => thread'.song \in setup'.songs
         /\ setup' \in Setups /\ stop' \in BOOLEAN /\ filters' \in Filters /\ gain' \in Nat
    BY <1>3, <1>5 DEF OutInv, Typed, dsp, ghosts, Rebuild, Trying, Equaliser
  <2>12. flag' \in BOOLEAN /\ held' \in BOOLEAN
    BY DEF OutInv, Typed, Active, dsp, ghosts, Rebuild, Trying, Equaliser
  <2>13. spoiled' \in [skipped : BOOLEAN, raced : BOOLEAN, misfit : BOOLEAN]
    BY Constants DEF OutInv, Typed, dsp, ghosts, Rebuild, Trying, Equaliser
  <2> QED BY <2>7, <2>8, <2>9, <2>10, <2>11, <2>12, <2>13 DEF Typed
<1>7. Phases'
  <2>1. Opened'
    BY <1>1, <1>3, <1>5, <1>2 DEF OutInv, Phases, Opened, Locked, Closed, dsp, ghosts, Rebuild,
       Trying, Equaliser
  <2>2. Locked'
    BY <1>1, <1>3, <1>5, <1>2, <1>4 DEF OutInv, Typed, Eqs, Phases, Opened, Locked, Closed, dsp,
       ghosts, Rebuild, Trying, Equaliser
  <2>3. Tried'
    BY <1>1, <1>3, <1>5, <1>2 DEF OutInv, Phases, Opened, Locked, Closed, dsp, ghosts, Rebuild,
       Trying, Equaliser, Tried, IsDsd
  <2>4. Rated'
    BY <1>1, <1>3, <1>5, <1>2 DEF OutInv, Phases, Opened, Locked, Closed, dsp, ghosts, Rebuild,
       Trying, Equaliser, Rated, IsDsd
  <2>5. Gained'
    BY <1>1, <1>3, <1>5, <1>2 DEF OutInv, Phases, Opened, Locked, Closed, dsp, ghosts, Rebuild,
       Trying, Equaliser, Gained
  <2> QED BY <2>1, <2>2, <2>3, <2>4, <2>5 DEF Phases
<1>8. Fits'
  <2>1. FitLocks'
    BY <1>1, <1>3, <1>5, <1>2, <1>4 DEF OutInv, Phases, Opened, Locked, Closed, dsp, ghosts,
       Rebuild, Trying, Equaliser, Fits, FitLocks
  <2>2. FitRate'
    BY <1>1, <1>3, <1>5, <1>2 DEF OutInv, Phases, Opened, Locked, Closed, dsp, ghosts, Rebuild,
       Trying, Equaliser, Fits, FitRate, FitLocks, Fresh, Latest, IsDsd
  <2>3. FitSet'
    BY <1>1, <1>3, <1>5, <1>2 DEF OutInv, Phases, Opened, Locked, Closed, dsp, ghosts, Rebuild,
       Trying, Equaliser, Fits, FitSet, FitLocks, Fresh, Latest, IsDsd
  <2>4. FitFlag'
    BY <1>1, <1>3, <1>5, <1>2 DEF OutInv, Phases, Opened, Locked, Closed, dsp, ghosts, Rebuild,
       Trying, Equaliser, Fits, FitFlag, FitLocks, Fresh, Latest, IsDsd, Active
  <2>5. FitGain'
    BY <1>1, <1>3, <1>5, <1>2 DEF OutInv, Phases, Opened, Locked, Closed, dsp, ghosts, Rebuild,
       Trying, Equaliser, Fits, FitGain, FitLocks, Fresh, Latest, IsDsd
  <2> QED BY <2>1, <2>2, <2>3, <2>4, <2>5 DEF Fits
<1>9. Counted'
  BY <1>1, <1>3, <1>2 DEF OutInv, Typed, Phases, Counted, HeardOut, Closed, dsp, ghosts, Rebuild,
     Trying, Equaliser
<1>10. Exhausted'
  BY <1>1, <1>3, <1>5, <1>2 DEF OutInv, Exhausted, IsDsd, dsp, ghosts, Rebuild, Trying, Equaliser
<1> QED BY <1>6, <1>7, <1>8, <1>9, <1>10 DEF OutInv

LEMMA PutSlotKeeps ==
  ASSUME OutInv, PutSlot
  PROVE  OutInv'
<1>1. /\ thread.at \in {"Idle", "Loop", "Open", "Build", "Built", "Prefill", "Push", "Drain", "End"}
      /\ thread.song \in Songs \cup {NoSong} /\ thread.try \in Nat /\ thread.packets \in 0..Packets
      /\ thread.left \in Nat /\ thread.eq \in Eqs /\ thread.retries \in Nat
      /\ thread.result \in Results /\ thread.cut \in BOOLEAN
  BY ThreadFacts
<1>2. /\ thread'.at = "Built"
      /\ thread'.song = thread.song
      /\ thread'.try = thread.try
      /\ thread'.packets = thread.packets
      /\ thread'.left = thread.left
      /\ thread'.eq = thread.eq
      /\ thread'.retries = thread.retries
      /\ thread'.result = thread.result
      /\ thread'.cut = thread.cut
  BY DEF OutInv, Typed, Threads, PutSlot
<1>3. /\ spoiled'.raced = spoiled.raced /\ spoiled'.skipped = spoiled.skipped
      /\ spoiled'.misfit = FALSE
  BY DEF OutInv, Typed, PutSlot
<1>4. Latest' = thread.eq
  BY DEF PutSlot, OutInv, Phases, Opened, Latest, Closed
<1>5. setup' = setup /\ Tries' = Tries
  BY <1>2 DEF Tries, dsp, ghosts, PutSlot
<1>6. Typed'
  <2>1. thread' = [at |-> thread'.at,
                song |-> thread'.song,
                try |-> thread'.try,
                packets |-> thread'.packets,
                left |-> thread'.left,
                eq |-> thread'.eq,
                retries |-> thread'.retries,
                result |-> thread'.result,
                cut |-> thread'.cut]
    BY DEF OutInv, Typed, Threads, PutSlot
  <2>2. /\ thread'.at \in {"Idle", "Loop", "Open", "Build", "Built", "Prefill", "Push", "Drain", "End"}
        /\ thread'.song \in Songs \cup {NoSong} /\ thread'.try \in Nat
    BY <1>1, <1>2
  <2>3. thread'.packets \in 0..Packets
    BY <1>1, <1>2, Numbers DEF PutSlot
  <2>4. thread'.left \in Nat
    BY <1>1, <1>2, Numbers DEF OutInv, Typed, PutSlot
  <2>5. thread'.eq \in Eqs /\ thread'.retries \in Nat
    BY <1>1, <1>2 DEF OutInv, Typed, Eqs, PutSlot
  <2>6. thread'.result \in Results /\ thread'.cut \in BOOLEAN
    BY <1>1, <1>2 DEF Results
  <2>7. thread' \in Threads
    BY <2>1, <2>2, <2>3, <2>4, <2>5, <2>6 DEF Threads
  <2>8. out' \in [open : BOOLEAN, rate : Nat, eq : Eqs] /\ pending' \in Eqs
    BY Constants DEF OutInv, Typed, Threads, Eqs, dsp, ghosts, PutSlot
  <2>9. ring' \in 0..Room /\ errors' \in 0..Threshold /\ due' \in Nat /\ heard' \in Nat
    BY <1>1, Numbers DEF OutInv, Typed, dsp, ghosts, PutSlot
  <2>10. /\ update' \in [at : {"Idle", "Build", "Slot", "Flag"}, eq : Eqs] /\ known' \in Nat
         /\ infos' \in Seq(Nat)
    BY Constants DEF OutInv, Typed, Eqs, dsp, ghosts, PutSlot
  <2>11. /\ thread'.at # "Idle" => thread'.song \in setup'.songs
         /\ setup' \in Setups /\ stop' \in BOOLEAN /\ filters' \in Filters /\ gain' \in Nat
    BY <1>2, <1>5 DEF OutInv, Typed, dsp, ghosts, PutSlot
  <2>12. flag' \in BOOLEAN /\ held' \in BOOLEAN
    BY DEF OutInv, Typed, Active, dsp, ghosts, PutSlot
  <2>13. spoiled' \in [skipped : BOOLEAN, raced : BOOLEAN, misfit : BOOLEAN]
    BY Constants DEF OutInv, Typed, dsp, ghosts, PutSlot
  <2> QED BY <2>7, <2>8, <2>9, <2>10, <2>11, <2>12, <2>13 DEF Typed
<1>7. Phases'
  <2>1. Opened'
    BY <1>1, <1>2, <1>5 DEF OutInv, Phases, Opened, Locked, Closed, dsp, ghosts, PutSlot
  <2>2. Locked'
    BY <1>1, <1>2, <1>5 DEF OutInv, Typed, Eqs, Phases, Opened, Locked, Closed, dsp, ghosts, PutSlot
  <2>3. Tried'
    BY <1>1, <1>2, <1>5 DEF OutInv, Phases, Opened, Locked, Closed, dsp, ghosts, PutSlot, Tried,
       IsDsd
  <2>4. Rated'
    BY <1>1, <1>2, <1>5 DEF OutInv, Phases, Opened, Locked, Closed, dsp, ghosts, PutSlot, Rated,
       IsDsd
  <2>5. Gained'
    BY <1>1, <1>2, <1>5 DEF OutInv, Phases, Opened, Locked, Closed, dsp, ghosts, PutSlot, Gained
  <2> QED BY <2>1, <2>2, <2>3, <2>4, <2>5 DEF Phases
<1>8. Fits'
  <2>1. FitLocks'
    BY <1>1, <1>2, <1>5, <1>3 DEF OutInv, Phases, Opened, Locked, Closed, dsp, ghosts, PutSlot,
       Fits, FitLocks
  <2>2. FitRate'
    BY <1>1, <1>2, <1>5, <1>3 DEF OutInv, Phases, Opened, Locked, Closed, dsp, ghosts, PutSlot,
       Fits, FitRate, FitLocks, Fresh, Latest, IsDsd
  <2>3. FitSet'
    BY <1>1, <1>2, <1>5, <1>3, <1>4 DEF OutInv, Phases, Opened, Locked, Closed, dsp, ghosts,
       PutSlot, Fits, FitSet, FitLocks, Fresh, IsDsd
  <2>4. FitFlag'
    BY <1>1, <1>2, <1>5, <1>3 DEF OutInv, Phases, Opened, Locked, Closed, dsp, ghosts, PutSlot,
       Fits, FitFlag, FitLocks, Fresh, Latest, IsDsd, Active
  <2>5. FitGain'
    BY <1>1, <1>2, <1>5, <1>3, <1>4 DEF OutInv, Phases, Opened, Locked, Closed, dsp, ghosts,
       PutSlot, Fits, FitGain, FitLocks, Fresh, IsDsd
  <2> QED BY <2>1, <2>2, <2>3, <2>4, <2>5 DEF Fits
<1>9. Counted'
  BY <1>1, <1>2 DEF OutInv, Typed, Phases, Counted, HeardOut, Closed, dsp, ghosts, PutSlot
<1>10. Exhausted'
  BY <1>1, <1>2, <1>5 DEF OutInv, Exhausted, IsDsd, dsp, ghosts, PutSlot
<1> QED BY <1>6, <1>7, <1>8, <1>9, <1>10 DEF OutInv

LEMMA RaiseFlagKeeps ==
  ASSUME OutInv, RaiseFlag
  PROVE  OutInv'
<1>1. /\ thread.at \in {"Idle", "Loop", "Open", "Build", "Built", "Prefill", "Push", "Drain", "End"}
      /\ thread.song \in Songs \cup {NoSong} /\ thread.try \in Nat /\ thread.packets \in 0..Packets
      /\ thread.left \in Nat /\ thread.eq \in Eqs /\ thread.retries \in Nat
      /\ thread.result \in Results /\ thread.cut \in BOOLEAN
  BY ThreadFacts
<1>2. /\ Len(Tries) \in Nat /\ DOMAIN Tries = 1..Len(Tries)
      /\ \A i \in 1..Len(Tries) : Tries[i].do \in {"Build", "Open"} /\ Tries[i].rate \in Nat
      /\ ~IsDsd(thread.song) => Sound(Tries)
      /\ Len(New(setup, thread.song, FALSE)) \in Nat
      /\ Len(New(setup, thread.song, FALSE)) <= Len(Tries)
  BY TriesFacts DEF Trying, Rebuild, Refused, GiveUp, RaiseFlag
<1>3. /\ thread'.at = "Open"
      /\ thread'.song = thread.song
      /\ thread'.try = thread.try + 1
      /\ thread'.packets = thread.packets
      /\ thread'.left = thread.left
      /\ thread'.eq = thread.eq
      /\ thread'.retries = thread.retries
      /\ thread'.result = thread.result
      /\ thread'.cut = thread.cut
  BY DEF OutInv, Typed, Threads, RaiseFlag
<1>4. ~held' /\ held /\ ~ (thread'.at \in {"Build", "Built"}) /\ held' = FALSE
  BY <1>3 DEF RaiseFlag, OutInv, Phases, Locked
<1>5. setup' = setup /\ Tries' = Tries
  BY <1>3 DEF Tries, dsp, ghosts, RaiseFlag
<1>6. Typed'
  <2>1. thread' = [at |-> thread'.at,
                song |-> thread'.song,
                try |-> thread'.try,
                packets |-> thread'.packets,
                left |-> thread'.left,
                eq |-> thread'.eq,
                retries |-> thread'.retries,
                result |-> thread'.result,
                cut |-> thread'.cut]
    BY DEF OutInv, Typed, Threads, RaiseFlag
  <2>2. /\ thread'.at \in {"Idle", "Loop", "Open", "Build", "Built", "Prefill", "Push", "Drain", "End"}
        /\ thread'.song \in Songs \cup {NoSong} /\ thread'.try \in Nat
    BY <1>1, <1>3
  <2>3. thread'.packets \in 0..Packets
    BY <1>1, <1>3, Numbers DEF RaiseFlag
  <2>4. thread'.left \in Nat
    BY <1>1, <1>3, Numbers DEF OutInv, Typed, RaiseFlag
  <2>5. thread'.eq \in Eqs /\ thread'.retries \in Nat
    BY <1>1, <1>3 DEF OutInv, Typed, Eqs, RaiseFlag
  <2>6. thread'.result \in Results /\ thread'.cut \in BOOLEAN
    BY <1>1, <1>3 DEF Results
  <2>7. thread' \in Threads
    BY <2>1, <2>2, <2>3, <2>4, <2>5, <2>6 DEF Threads
  <2>8. out' \in [open : BOOLEAN, rate : Nat, eq : Eqs] /\ pending' \in Eqs
    BY Constants DEF OutInv, Typed, Threads, Eqs, dsp, ghosts, RaiseFlag
  <2>9. ring' \in 0..Room /\ errors' \in 0..Threshold /\ due' \in Nat /\ heard' \in Nat
    BY <1>1, <1>2, Numbers DEF OutInv, Typed, dsp, ghosts, RaiseFlag
  <2>10. /\ update' \in [at : {"Idle", "Build", "Slot", "Flag"}, eq : Eqs] /\ known' \in Nat
         /\ infos' \in Seq(Nat)
    BY Constants DEF OutInv, Typed, Eqs, dsp, ghosts, RaiseFlag
  <2>11. /\ thread'.at # "Idle" => thread'.song \in setup'.songs
         /\ setup' \in Setups /\ stop' \in BOOLEAN /\ filters' \in Filters /\ gain' \in Nat
    BY <1>3, <1>5 DEF OutInv, Typed, dsp, ghosts, RaiseFlag
  <2>12. flag' \in BOOLEAN /\ held' \in BOOLEAN
    BY DEF OutInv, Typed, Active, dsp, ghosts, RaiseFlag
  <2>13. spoiled' \in [skipped : BOOLEAN, raced : BOOLEAN, misfit : BOOLEAN]
    BY Constants DEF OutInv, Typed, dsp, ghosts, RaiseFlag
  <2> QED BY <2>7, <2>8, <2>9, <2>10, <2>11, <2>12, <2>13 DEF Typed
<1>7. Phases'
  <2>1. Opened'
    BY <1>1, <1>3, <1>5, <1>2 DEF OutInv, Phases, Opened, Locked, Closed, dsp, ghosts, RaiseFlag
  <2>2. Locked'
    BY <1>4 DEF Locked
  <2>3. Tried'
    BY <1>1, <1>3, <1>5, <1>2, <1>4 DEF OutInv, Phases, Opened, Locked, Closed, dsp, ghosts,
       RaiseFlag, Tried, IsDsd
  <2>4. Rated'
    BY <1>1, <1>3, <1>5, <1>2 DEF OutInv, Phases, Opened, Locked, Closed, dsp, ghosts, RaiseFlag,
       Rated, IsDsd
  <2>5. Gained'
    BY <1>1, <1>3, <1>5, <1>2 DEF OutInv, Phases, Opened, Locked, Closed, dsp, ghosts, RaiseFlag,
       Gained
  <2> QED BY <2>1, <2>2, <2>3, <2>4, <2>5 DEF Phases
<1>8. Fits'
  <2>1. FitLocks'
    BY <1>1, <1>3, <1>5, <1>2 DEF OutInv, Phases, Opened, Locked, Closed, dsp, ghosts, RaiseFlag,
       Fits, FitLocks
  <2>2. FitRate'
    BY <1>1, <1>3, <1>5, <1>2 DEF OutInv, Phases, Opened, Locked, Closed, dsp, ghosts, RaiseFlag,
       Fits, FitRate, FitLocks, Fresh, Latest, IsDsd
  <2>3. FitSet'
    BY <1>1, <1>3, <1>5, <1>2 DEF OutInv, Phases, Opened, Locked, Closed, dsp, ghosts, RaiseFlag,
       Fits, FitSet, FitLocks, Fresh, Latest, IsDsd
  <2>4. FitFlag'
    <3>1. flag' = Active(thread.eq) /\ pending' = pending /\ out' = out /\ update' = update /\ spoiled' = spoiled
      BY DEF RaiseFlag, ghosts
    <3>2. ~spoiled.raced => pending = thread.eq /\ update.at = "Idle"
      BY <1>4 DEF RaiseFlag, OutInv, Fits, FitLocks
    <3>3. out.eq = None
      BY DEF RaiseFlag, OutInv, Phases, Opened, Closed
    <3>4. ~spoiled.raced => Latest = thread.eq
      BY <3>2, <3>3 DEF Latest
    <3>5. Latest' = Latest
      BY <3>1 DEF Latest
    <3>6. ~spoiled.raced => flag' \/ ~Active(Latest')
      BY <3>1, <3>4, <3>5 DEF Active
    <3> QED BY <3>1, <3>2, <3>6 DEF FitFlag
  <2>5. FitGain'
    BY <1>1, <1>3, <1>5, <1>2 DEF OutInv, Phases, Opened, Locked, Closed, dsp, ghosts, RaiseFlag,
       Fits, FitGain, FitLocks, Fresh, Latest, IsDsd
  <2> QED BY <2>1, <2>2, <2>3, <2>4, <2>5 DEF Fits
<1>9. Counted'
  BY <1>1, <1>3, <1>2 DEF OutInv, Typed, Phases, Counted, HeardOut, Closed, dsp, ghosts, RaiseFlag
<1>10. Exhausted'
  BY <1>1, <1>3, <1>5, <1>2 DEF OutInv, Exhausted, IsDsd, dsp, ghosts, RaiseFlag
<1> QED BY <1>6, <1>7, <1>8, <1>9, <1>10 DEF OutInv

LEMMA RefusedKeeps ==
  ASSUME OutInv, Refused
  PROVE  OutInv'
<1>1. /\ thread.at \in {"Idle", "Loop", "Open", "Build", "Built", "Prefill", "Push", "Drain", "End"}
      /\ thread.song \in Songs \cup {NoSong} /\ thread.try \in Nat /\ thread.packets \in 0..Packets
      /\ thread.left \in Nat /\ thread.eq \in Eqs /\ thread.retries \in Nat
      /\ thread.result \in Results /\ thread.cut \in BOOLEAN
  BY ThreadFacts
<1>2. /\ Len(Tries) \in Nat /\ DOMAIN Tries = 1..Len(Tries)
      /\ \A i \in 1..Len(Tries) : Tries[i].do \in {"Build", "Open"} /\ Tries[i].rate \in Nat
      /\ ~IsDsd(thread.song) => Sound(Tries)
      /\ Len(New(setup, thread.song, FALSE)) \in Nat
      /\ Len(New(setup, thread.song, FALSE)) <= Len(Tries)
  BY TriesFacts DEF Trying, Rebuild, Refused, GiveUp
<1>3. ~IsDsd(thread.song) => thread.try - 1 \in DOMAIN Tries /\ Tries[thread.try - 1].rate = Tries[thread.try].rate
  <2>1. thread.try \in 1..Len(Tries) /\ Tries[thread.try].do = "Open"
    <3>1. thread.try > 0
      BY DEF Refused, Trying, OutInv, Phases, Tried
    <3>2. thread.try <= Len(Tries) /\ Tries[thread.try].do = "Open"
      BY DEF Refused, Trying
    <3> QED BY <1>1, <1>2, <3>1, <3>2
  <2> QED BY <1>2, <2>1 DEF Sound
<1>4. /\ thread'.at = thread.at
      /\ thread'.song = thread.song
      /\ thread'.try = thread.try + 1
      /\ thread'.packets = thread.packets
      /\ thread'.left = thread.left
      /\ thread'.eq = thread.eq
      /\ thread'.retries = thread.retries
      /\ thread'.result = thread.result
      /\ thread'.cut = thread.cut
  BY DEF OutInv, Typed, Threads, Refused, Trying
<1>5. setup' = setup /\ Tries' = Tries
  BY <1>4 DEF Tries, dsp, ghosts, Refused, Trying
<1>6. Typed'
  <2>1. thread' = [at |-> thread'.at,
                song |-> thread'.song,
                try |-> thread'.try,
                packets |-> thread'.packets,
                left |-> thread'.left,
                eq |-> thread'.eq,
                retries |-> thread'.retries,
                result |-> thread'.result,
                cut |-> thread'.cut]
    BY DEF OutInv, Typed, Threads, Refused, Trying
  <2>2. /\ thread'.at \in {"Idle", "Loop", "Open", "Build", "Built", "Prefill", "Push", "Drain", "End"}
        /\ thread'.song \in Songs \cup {NoSong} /\ thread'.try \in Nat
    BY <1>1, <1>4
  <2>3. thread'.packets \in 0..Packets
    BY <1>1, <1>4, Numbers DEF Refused, Trying
  <2>4. thread'.left \in Nat
    BY <1>1, <1>4, Numbers DEF OutInv, Typed, Refused, Trying
  <2>5. thread'.eq \in Eqs /\ thread'.retries \in Nat
    BY <1>1, <1>4 DEF OutInv, Typed, Eqs, Refused, Trying
  <2>6. thread'.result \in Results /\ thread'.cut \in BOOLEAN
    BY <1>1, <1>4 DEF Results
  <2>7. thread' \in Threads
    BY <2>1, <2>2, <2>3, <2>4, <2>5, <2>6 DEF Threads
  <2>8. out' \in [open : BOOLEAN, rate : Nat, eq : Eqs] /\ pending' \in Eqs
    BY Constants DEF OutInv, Typed, Threads, Eqs, dsp, ghosts, Refused, Trying
  <2>9. ring' \in 0..Room /\ errors' \in 0..Threshold /\ due' \in Nat /\ heard' \in Nat
    BY <1>1, <1>2, <1>3, Numbers DEF OutInv, Typed, dsp, ghosts, Refused, Trying
  <2>10. /\ update' \in [at : {"Idle", "Build", "Slot", "Flag"}, eq : Eqs] /\ known' \in Nat
         /\ infos' \in Seq(Nat)
    BY Constants DEF OutInv, Typed, Eqs, dsp, ghosts, Refused, Trying
  <2>11. /\ thread'.at # "Idle" => thread'.song \in setup'.songs
         /\ setup' \in Setups /\ stop' \in BOOLEAN /\ filters' \in Filters /\ gain' \in Nat
    BY <1>4, <1>5 DEF OutInv, Typed, dsp, ghosts, Refused, Trying
  <2>12. flag' \in BOOLEAN /\ held' \in BOOLEAN
    BY DEF OutInv, Typed, Active, dsp, ghosts, Refused, Trying
  <2>13. spoiled' \in [skipped : BOOLEAN, raced : BOOLEAN, misfit : BOOLEAN]
    BY Constants DEF OutInv, Typed, dsp, ghosts, Refused, Trying
  <2> QED BY <2>7, <2>8, <2>9, <2>10, <2>11, <2>12, <2>13 DEF Typed
<1>7. Phases'
  <2>1. Opened'
    BY <1>1, <1>4, <1>5, <1>2, <1>3 DEF OutInv, Phases, Opened, Locked, Closed, dsp, ghosts,
       Refused, Trying
  <2>2. Locked'
    BY <1>1, <1>4, <1>5, <1>2, <1>3 DEF OutInv, Typed, Eqs, Phases, Opened, Locked, Closed, dsp,
       ghosts, Refused, Trying
  <2>3. Tried'
    BY <1>1, <1>4, <1>5, <1>2, <1>3 DEF OutInv, Phases, Opened, Locked, Closed, dsp, ghosts,
       Refused, Trying, Tried, IsDsd
  <2>4. Rated'
    BY <1>1, <1>4, <1>5, <1>2, <1>3 DEF OutInv, Phases, Opened, Locked, Closed, dsp, ghosts,
       Refused, Trying, Rated, IsDsd
  <2>5. Gained'
    BY <1>1, <1>4, <1>5, <1>2, <1>3 DEF OutInv, Phases, Opened, Locked, Closed, dsp, ghosts,
       Refused, Trying, Gained
  <2> QED BY <2>1, <2>2, <2>3, <2>4, <2>5 DEF Phases
<1>8. Fits'
  <2>1. FitLocks'
    BY <1>1, <1>4, <1>5, <1>2, <1>3 DEF OutInv, Phases, Opened, Locked, Closed, dsp, ghosts,
       Refused, Trying, Fits, FitLocks
  <2>2. FitRate'
    BY <1>1, <1>4, <1>5, <1>2, <1>3 DEF OutInv, Phases, Opened, Locked, Closed, dsp, ghosts,
       Refused, Trying, Fits, FitRate, FitLocks, Fresh, Latest, IsDsd
  <2>3. FitSet'
    BY <1>1, <1>4, <1>5, <1>2, <1>3 DEF OutInv, Phases, Opened, Locked, Closed, dsp, ghosts,
       Refused, Trying, Fits, FitSet, FitLocks, Fresh, Latest, IsDsd
  <2>4. FitFlag'
    BY <1>1, <1>4, <1>5, <1>2, <1>3 DEF OutInv, Phases, Opened, Locked, Closed, dsp, ghosts,
       Refused, Trying, Fits, FitFlag, FitLocks, Fresh, Latest, IsDsd, Active
  <2>5. FitGain'
    BY <1>1, <1>4, <1>5, <1>2, <1>3 DEF OutInv, Phases, Opened, Locked, Closed, dsp, ghosts,
       Refused, Trying, Fits, FitGain, FitLocks, Fresh, Latest, IsDsd
  <2> QED BY <2>1, <2>2, <2>3, <2>4, <2>5 DEF Fits
<1>9. Counted'
  BY <1>1, <1>4, <1>2, <1>3 DEF OutInv, Typed, Phases, Counted, HeardOut, Closed, dsp, ghosts,
     Refused, Trying
<1>10. Exhausted'
  BY <1>1, <1>4, <1>5, <1>2, <1>3 DEF OutInv, Exhausted, IsDsd, dsp, ghosts, Refused, Trying
<1> QED BY <1>6, <1>7, <1>8, <1>9, <1>10 DEF OutInv

LEMMA NotFoundKeeps ==
  ASSUME OutInv, NotFound
  PROVE  OutInv'
<1>1. /\ thread.at \in {"Idle", "Loop", "Open", "Build", "Built", "Prefill", "Push", "Drain", "End"}
      /\ thread.song \in Songs \cup {NoSong} /\ thread.try \in Nat /\ thread.packets \in 0..Packets
      /\ thread.left \in Nat /\ thread.eq \in Eqs /\ thread.retries \in Nat
      /\ thread.result \in Results /\ thread.cut \in BOOLEAN
  BY ThreadFacts
<1>2. /\ thread'.at = "End"
      /\ thread'.song = thread.song
      /\ thread'.try = thread.try
      /\ thread'.packets = thread.packets
      /\ thread'.left = thread.left
      /\ thread'.eq = thread.eq
      /\ thread'.retries = thread.retries
      /\ thread'.result = (IF thread.song.kind = "Session" THEN "Lost" ELSE "Failed")
      /\ thread'.cut = TRUE
  BY DEF OutInv, Typed, Threads, NotFound, EndWith, Failure
<1>3. setup' = setup /\ Tries' = Tries
  BY <1>2 DEF Tries, dsp, ghosts, NotFound, EndWith, Failure
<1>4. Typed'
  <2>1. thread' = [at |-> thread'.at,
                song |-> thread'.song,
                try |-> thread'.try,
                packets |-> thread'.packets,
                left |-> thread'.left,
                eq |-> thread'.eq,
                retries |-> thread'.retries,
                result |-> thread'.result,
                cut |-> thread'.cut]
    BY DEF OutInv, Typed, Threads, NotFound, EndWith, Failure
  <2>2. /\ thread'.at \in {"Idle", "Loop", "Open", "Build", "Built", "Prefill", "Push", "Drain", "End"}
        /\ thread'.song \in Songs \cup {NoSong} /\ thread'.try \in Nat
    BY <1>1, <1>2
  <2>3. thread'.packets \in 0..Packets
    BY <1>1, <1>2, Numbers DEF NotFound, EndWith, Failure
  <2>4. thread'.left \in Nat
    BY <1>1, <1>2, Numbers DEF OutInv, Typed, NotFound, EndWith, Failure
  <2>5. thread'.eq \in Eqs /\ thread'.retries \in Nat
    BY <1>1, <1>2 DEF OutInv, Typed, Eqs, NotFound, EndWith, Failure
  <2>6. thread'.result \in Results /\ thread'.cut \in BOOLEAN
    BY <1>1, <1>2 DEF Results
  <2>7. thread' \in Threads
    BY <2>1, <2>2, <2>3, <2>4, <2>5, <2>6 DEF Threads
  <2>8. out' \in [open : BOOLEAN, rate : Nat, eq : Eqs] /\ pending' \in Eqs
    BY Constants DEF OutInv, Typed, Threads, Eqs, dsp, ghosts, NotFound, EndWith, Failure
  <2>9. ring' \in 0..Room /\ errors' \in 0..Threshold /\ due' \in Nat /\ heard' \in Nat
    BY <1>1, Numbers DEF OutInv, Typed, dsp, ghosts, NotFound, EndWith, Failure
  <2>10. /\ update' \in [at : {"Idle", "Build", "Slot", "Flag"}, eq : Eqs] /\ known' \in Nat
         /\ infos' \in Seq(Nat)
    BY Constants DEF OutInv, Typed, Eqs, dsp, ghosts, NotFound, EndWith, Failure
  <2>11. /\ thread'.at # "Idle" => thread'.song \in setup'.songs
         /\ setup' \in Setups /\ stop' \in BOOLEAN /\ filters' \in Filters /\ gain' \in Nat
    BY <1>2, <1>3 DEF OutInv, Typed, dsp, ghosts, NotFound, EndWith, Failure
  <2>12. flag' \in BOOLEAN /\ held' \in BOOLEAN
    BY DEF OutInv, Typed, Active, dsp, ghosts, NotFound, EndWith, Failure
  <2>13. spoiled' \in [skipped : BOOLEAN, raced : BOOLEAN, misfit : BOOLEAN]
    BY Constants DEF OutInv, Typed, dsp, ghosts, NotFound, EndWith, Failure
  <2> QED BY <2>7, <2>8, <2>9, <2>10, <2>11, <2>12, <2>13 DEF Typed
<1>5. Phases'
  BY <1>1, <1>2, <1>3 DEF OutInv, Typed, Phases, Opened, Locked, Tried, Rated, Gained, Eqs, IsDsd,
     Closed, dsp, ghosts, NotFound, EndWith, Failure
<1>6. Fits'
  BY <1>1, <1>2, <1>3 DEF OutInv, Typed, Phases, Opened, Locked, Tried, Rated, Gained, Fits,
     FitLocks, FitRate, FitSet, FitFlag, FitGain, Fresh, Latest, Eqs, IsDsd, Closed, Active,
     Unspoiled, NoUpdate, dsp, ghosts, NotFound, EndWith, Failure
<1>7. Counted'
  BY <1>1, <1>2 DEF OutInv, Typed, Phases, Opened, Locked, Tried, Rated, Gained, Counted,
     HeardOut, Closed, dsp, ghosts, NotFound, EndWith, Failure
<1>8. Exhausted'
  BY <1>1, <1>2, <1>3 DEF OutInv, Exhausted, IsDsd, dsp, ghosts, NotFound, EndWith, Failure
<1> QED BY <1>4, <1>5, <1>6, <1>7, <1>8 DEF OutInv

LEMMA GiveUpKeeps ==
  ASSUME OutInv, GiveUp
  PROVE  OutInv'
<1>1. /\ thread.at \in {"Idle", "Loop", "Open", "Build", "Built", "Prefill", "Push", "Drain", "End"}
      /\ thread.song \in Songs \cup {NoSong} /\ thread.try \in Nat /\ thread.packets \in 0..Packets
      /\ thread.left \in Nat /\ thread.eq \in Eqs /\ thread.retries \in Nat
      /\ thread.result \in Results /\ thread.cut \in BOOLEAN
  BY ThreadFacts
<1>2. /\ Len(Tries) \in Nat /\ DOMAIN Tries = 1..Len(Tries)
      /\ \A i \in 1..Len(Tries) : Tries[i].do \in {"Build", "Open"} /\ Tries[i].rate \in Nat
      /\ ~IsDsd(thread.song) => Sound(Tries)
      /\ Len(New(setup, thread.song, FALSE)) \in Nat
      /\ Len(New(setup, thread.song, FALSE)) <= Len(Tries)
  BY TriesFacts DEF Trying, Rebuild, Refused, GiveUp
<1>3. /\ thread'.at = "End"
      /\ thread'.song = thread.song
      /\ thread'.try = thread.try
      /\ thread'.packets = thread.packets
      /\ thread'.left = thread.left
      /\ thread'.eq = thread.eq
      /\ thread'.retries = thread.retries
      /\ thread'.result = (IF thread.song.kind = "Session" THEN "Lost" ELSE "Failed")
      /\ thread'.cut = TRUE
  BY DEF OutInv, Typed, Threads, GiveUp, EndWith, Failure
<1>4. setup' = setup /\ Tries' = Tries
  BY <1>3 DEF Tries, dsp, ghosts, GiveUp, EndWith, Failure
<1>5. Typed'
  <2>1. thread' = [at |-> thread'.at,
                song |-> thread'.song,
                try |-> thread'.try,
                packets |-> thread'.packets,
                left |-> thread'.left,
                eq |-> thread'.eq,
                retries |-> thread'.retries,
                result |-> thread'.result,
                cut |-> thread'.cut]
    BY DEF OutInv, Typed, Threads, GiveUp, EndWith, Failure
  <2>2. /\ thread'.at \in {"Idle", "Loop", "Open", "Build", "Built", "Prefill", "Push", "Drain", "End"}
        /\ thread'.song \in Songs \cup {NoSong} /\ thread'.try \in Nat
    BY <1>1, <1>3
  <2>3. thread'.packets \in 0..Packets
    BY <1>1, <1>3, Numbers DEF GiveUp, EndWith, Failure
  <2>4. thread'.left \in Nat
    BY <1>1, <1>3, Numbers DEF OutInv, Typed, GiveUp, EndWith, Failure
  <2>5. thread'.eq \in Eqs /\ thread'.retries \in Nat
    BY <1>1, <1>3 DEF OutInv, Typed, Eqs, GiveUp, EndWith, Failure
  <2>6. thread'.result \in Results /\ thread'.cut \in BOOLEAN
    BY <1>1, <1>3 DEF Results
  <2>7. thread' \in Threads
    BY <2>1, <2>2, <2>3, <2>4, <2>5, <2>6 DEF Threads
  <2>8. out' \in [open : BOOLEAN, rate : Nat, eq : Eqs] /\ pending' \in Eqs
    BY Constants DEF OutInv, Typed, Threads, Eqs, dsp, ghosts, GiveUp, EndWith, Failure
  <2>9. ring' \in 0..Room /\ errors' \in 0..Threshold /\ due' \in Nat /\ heard' \in Nat
    BY <1>1, <1>2, Numbers DEF OutInv, Typed, dsp, ghosts, GiveUp, EndWith, Failure
  <2>10. /\ update' \in [at : {"Idle", "Build", "Slot", "Flag"}, eq : Eqs] /\ known' \in Nat
         /\ infos' \in Seq(Nat)
    BY Constants DEF OutInv, Typed, Eqs, dsp, ghosts, GiveUp, EndWith, Failure
  <2>11. /\ thread'.at # "Idle" => thread'.song \in setup'.songs
         /\ setup' \in Setups /\ stop' \in BOOLEAN /\ filters' \in Filters /\ gain' \in Nat
    BY <1>3, <1>4 DEF OutInv, Typed, dsp, ghosts, GiveUp, EndWith, Failure
  <2>12. flag' \in BOOLEAN /\ held' \in BOOLEAN
    BY DEF OutInv, Typed, Active, dsp, ghosts, GiveUp, EndWith, Failure
  <2>13. spoiled' \in [skipped : BOOLEAN, raced : BOOLEAN, misfit : BOOLEAN]
    BY Constants DEF OutInv, Typed, dsp, ghosts, GiveUp, EndWith, Failure
  <2> QED BY <2>7, <2>8, <2>9, <2>10, <2>11, <2>12, <2>13 DEF Typed
<1>6. Phases'
  <2>1. Opened'
    BY <1>1, <1>3, <1>4, <1>2 DEF OutInv, Phases, Opened, Locked, Closed, dsp, ghosts, GiveUp,
       EndWith, Failure
  <2>2. Locked'
    BY <1>1, <1>3, <1>4, <1>2 DEF OutInv, Typed, Eqs, Phases, Opened, Locked, Closed, dsp, ghosts,
       GiveUp, EndWith, Failure
  <2>3. Tried'
    BY <1>1, <1>3, <1>4, <1>2 DEF OutInv, Phases, Opened, Locked, Closed, dsp, ghosts, GiveUp,
       EndWith, Failure, Tried, IsDsd
  <2>4. Rated'
    BY <1>1, <1>3, <1>4, <1>2 DEF OutInv, Phases, Opened, Locked, Closed, dsp, ghosts, GiveUp,
       EndWith, Failure, Rated, IsDsd
  <2>5. Gained'
    BY <1>1, <1>3, <1>4, <1>2 DEF OutInv, Phases, Opened, Locked, Closed, dsp, ghosts, GiveUp,
       EndWith, Failure, Gained
  <2> QED BY <2>1, <2>2, <2>3, <2>4, <2>5 DEF Phases
<1>7. Fits'
  <2>1. FitLocks'
    BY <1>1, <1>3, <1>4, <1>2 DEF OutInv, Phases, Opened, Locked, Closed, dsp, ghosts, GiveUp,
       EndWith, Failure, Fits, FitLocks
  <2>2. FitRate'
    BY <1>1, <1>3, <1>4, <1>2 DEF OutInv, Phases, Opened, Locked, Closed, dsp, ghosts, GiveUp,
       EndWith, Failure, Fits, FitRate, FitLocks, Fresh, Latest, IsDsd
  <2>3. FitSet'
    BY <1>1, <1>3, <1>4, <1>2 DEF OutInv, Phases, Opened, Locked, Closed, dsp, ghosts, GiveUp,
       EndWith, Failure, Fits, FitSet, FitLocks, Fresh, Latest, IsDsd
  <2>4. FitFlag'
    BY <1>1, <1>3, <1>4, <1>2 DEF OutInv, Phases, Opened, Locked, Closed, dsp, ghosts, GiveUp,
       EndWith, Failure, Fits, FitFlag, FitLocks, Fresh, Latest, IsDsd, Active
  <2>5. FitGain'
    BY <1>1, <1>3, <1>4, <1>2 DEF OutInv, Phases, Opened, Locked, Closed, dsp, ghosts, GiveUp,
       EndWith, Failure, Fits, FitGain, FitLocks, Fresh, Latest, IsDsd
  <2> QED BY <2>1, <2>2, <2>3, <2>4, <2>5 DEF Fits
<1>8. Counted'
  BY <1>1, <1>3, <1>2 DEF OutInv, Typed, Phases, Counted, HeardOut, Closed, dsp, ghosts, GiveUp,
     EndWith, Failure
<1>9. Exhausted'
  <2>1. thread.try > Len(Tries) /\ thread.at = "Open"
    BY DEF GiveUp
  <2> DEFINE new == Len(New(setup, thread.song, FALSE))  all == Len(Tries)
  <2>2. new \in Nat /\ all \in Nat /\ new <= all
    BY <1>2
  <2>3. thread.try > all /\ thread'.try = thread.try /\ thread.try \in Nat
    BY <1>1, <1>3, <2>1
  <2> HIDE DEF new, all
  <2>4. thread'.try > new
    BY <2>2, <2>3
  <2>5. thread'.try > Len(New(setup, thread.song, FALSE))
    BY <2>4 DEF new
  <2> QED BY <1>3, <1>4, <2>5 DEF Exhausted
<1> QED BY <1>5, <1>6, <1>7, <1>8, <1>9 DEF OutInv

LEMMA PlayKeeps ==
  ASSUME OutInv, Play
  PROVE  OutInv'
<1>1. /\ thread.at \in {"Idle", "Loop", "Open", "Build", "Built", "Prefill", "Push", "Drain", "End"}
      /\ thread.song \in Songs \cup {NoSong} /\ thread.try \in Nat /\ thread.packets \in 0..Packets
      /\ thread.left \in Nat /\ thread.eq \in Eqs /\ thread.retries \in Nat
      /\ thread.result \in Results /\ thread.cut \in BOOLEAN
  BY ThreadFacts
<1>2. LET n == Least(Period, ring)
      IN  n \in Nat /\ n <= Period /\ n <= ring
  <2>1. Period \in Nat /\ ring \in Nat
    BY Numbers DEF OutInv, Typed
  <2> QED BY <2>1 DEF Least
<1>3. thread' = thread
  BY DEF Play
<1>4. setup' = setup /\ Tries' = Tries
  BY <1>3 DEF Tries, dsp, ghosts, Play
<1>5. Typed'
  <2>1. thread' \in Threads
    BY <1>3 DEF OutInv, Typed
  <2>2. out' \in [open : BOOLEAN, rate : Nat, eq : Eqs] /\ pending' \in Eqs
    BY Constants DEF OutInv, Typed, Threads, Eqs, dsp, ghosts, Play
  <2>3. ring' \in 0..Room /\ errors' \in 0..Threshold /\ due' \in Nat /\ heard' \in Nat
    <3>1. /\ ring \in 0..Room /\ due \in Nat /\ heard \in Nat /\ 0 \in 0..Threshold /\ Room \in Nat
      BY Numbers DEF OutInv, Typed
    <3>2. PICK n : /\ n \in Nat /\ n <= ring /\ ring' = ring - n /\ heard' = heard + n
      BY <1>2 DEF Play
    <3>3. errors' = 0 /\ due' = due
      BY DEF Play
    <3> QED BY <3>1, <3>2, <3>3
  <2>4. /\ update' \in [at : {"Idle", "Build", "Slot", "Flag"}, eq : Eqs] /\ known' \in Nat
        /\ infos' \in Seq(Nat)
    BY Constants DEF OutInv, Typed, Eqs, dsp, ghosts, Play
  <2>5. /\ thread'.at # "Idle" => thread'.song \in setup'.songs
        /\ setup' \in Setups /\ stop' \in BOOLEAN /\ filters' \in Filters /\ gain' \in Nat
    BY <1>3, <1>4 DEF OutInv, Typed, dsp, ghosts, Play
  <2>6. flag' \in BOOLEAN /\ held' \in BOOLEAN
    BY DEF OutInv, Typed, Active, dsp, ghosts, Play
  <2>7. spoiled' \in [skipped : BOOLEAN, raced : BOOLEAN, misfit : BOOLEAN]
    BY Constants DEF OutInv, Typed, dsp, ghosts, Play
  <2> QED BY <2>1, <2>2, <2>3, <2>4, <2>5, <2>6, <2>7 DEF Typed
<1>6. Phases'
  BY <1>1, <1>3, <1>4, <1>2 DEF OutInv, Typed, Phases, Opened, Locked, Tried, Rated, Gained, Eqs,
     IsDsd, Closed, dsp, ghosts, Play
<1>7. Fits'
  BY <1>1, <1>3, <1>4, <1>2 DEF OutInv, Typed, Phases, Opened, Locked, Tried, Rated, Gained, Fits,
     FitLocks, FitRate, FitSet, FitFlag, FitGain, Fresh, Latest, Eqs, IsDsd, Closed, Active,
     Unspoiled, NoUpdate, dsp, ghosts, Play
<1>8. Counted'
  <2> DEFINE n == Least(Period, ring)
  <2>1. n \in Nat /\ n <= ring
    BY <1>2
  <2>2. ring' = ring - n /\ heard' = heard + n /\ out' = out /\ due' = due
    BY DEF Play
  <2>3. thread.at # "End" /\ out.open
    BY DEF Play, OutInv, Phases, Opened
  <2> HIDE DEF n
  <2>4. ring \in Nat /\ due \in Nat /\ heard \in Nat /\ thread.left \in Nat
    BY <1>1, Numbers DEF OutInv, Typed
  <2>5. ~thread.cut => due' = heard' + ring' + thread.left
    BY <2>1, <2>2, <2>3, <2>4 DEF OutInv, Counted
  <2>6. thread.at \in {"Loop", "Drain"} => thread.left = 0
    BY DEF OutInv, Counted
  <2> QED BY <1>3, <2>2, <2>3, <2>5, <2>6 DEF Counted, HeardOut
<1>9. Exhausted'
  BY <1>1, <1>3, <1>4, <1>2 DEF OutInv, Exhausted, IsDsd, dsp, ghosts, Play
<1> QED BY <1>5, <1>6, <1>7, <1>8, <1>9 DEF OutInv

LEMMA ErrorKeeps ==
  ASSUME OutInv, Error
  PROVE  OutInv'
<1>1. /\ thread.at \in {"Idle", "Loop", "Open", "Build", "Built", "Prefill", "Push", "Drain", "End"}
      /\ thread.song \in Songs \cup {NoSong} /\ thread.try \in Nat /\ thread.packets \in 0..Packets
      /\ thread.left \in Nat /\ thread.eq \in Eqs /\ thread.retries \in Nat
      /\ thread.result \in Results /\ thread.cut \in BOOLEAN
  BY ThreadFacts
<1>2. thread' = thread
  BY DEF Error
<1>3. setup' = setup /\ Tries' = Tries
  BY <1>2 DEF Tries, dsp, ghosts, Error
<1>4. Typed'
  <2>1. thread' \in Threads
    BY <1>2 DEF OutInv, Typed
  <2>2. out' \in [open : BOOLEAN, rate : Nat, eq : Eqs] /\ pending' \in Eqs
    BY Constants DEF OutInv, Typed, Threads, Eqs, dsp, ghosts, Error
  <2>3. ring' \in 0..Room /\ errors' \in 0..Threshold /\ due' \in Nat /\ heard' \in Nat
    BY <1>1, Numbers DEF OutInv, Typed, dsp, ghosts, Error
  <2>4. /\ update' \in [at : {"Idle", "Build", "Slot", "Flag"}, eq : Eqs] /\ known' \in Nat
        /\ infos' \in Seq(Nat)
    BY Constants DEF OutInv, Typed, Eqs, dsp, ghosts, Error
  <2>5. /\ thread'.at # "Idle" => thread'.song \in setup'.songs
        /\ setup' \in Setups /\ stop' \in BOOLEAN /\ filters' \in Filters /\ gain' \in Nat
    BY <1>2, <1>3 DEF OutInv, Typed, dsp, ghosts, Error
  <2>6. flag' \in BOOLEAN /\ held' \in BOOLEAN
    BY DEF OutInv, Typed, Active, dsp, ghosts, Error
  <2>7. spoiled' \in [skipped : BOOLEAN, raced : BOOLEAN, misfit : BOOLEAN]
    BY Constants DEF OutInv, Typed, dsp, ghosts, Error
  <2> QED BY <2>1, <2>2, <2>3, <2>4, <2>5, <2>6, <2>7 DEF Typed
<1>5. Phases'
  BY <1>1, <1>2, <1>3 DEF OutInv, Typed, Phases, Opened, Locked, Tried, Rated, Gained, Eqs, IsDsd,
     Closed, dsp, ghosts, Error
<1>6. Fits'
  BY <1>1, <1>2, <1>3 DEF OutInv, Typed, Phases, Opened, Locked, Tried, Rated, Gained, Fits,
     FitLocks, FitRate, FitSet, FitFlag, FitGain, Fresh, Latest, Eqs, IsDsd, Closed, Active,
     Unspoiled, NoUpdate, dsp, ghosts, Error
<1>7. Counted'
  BY <1>1, <1>2 DEF OutInv, Typed, Phases, Opened, Locked, Tried, Rated, Gained, Counted,
     HeardOut, Closed, dsp, ghosts, Error
<1>8. Exhausted'
  BY <1>1, <1>2, <1>3 DEF OutInv, Exhausted, IsDsd, dsp, ghosts, Error
<1> QED BY <1>4, <1>5, <1>6, <1>7, <1>8 DEF OutInv

LEMMA StopKeeps ==
  ASSUME OutInv, Stop
  PROVE  OutInv'
<1>1. /\ thread.at \in {"Idle", "Loop", "Open", "Build", "Built", "Prefill", "Push", "Drain", "End"}
      /\ thread.song \in Songs \cup {NoSong} /\ thread.try \in Nat /\ thread.packets \in 0..Packets
      /\ thread.left \in Nat /\ thread.eq \in Eqs /\ thread.retries \in Nat
      /\ thread.result \in Results /\ thread.cut \in BOOLEAN
  BY ThreadFacts
<1>2. thread' = thread
  BY DEF Stop
<1>3. setup' = setup /\ Tries' = Tries
  BY <1>2 DEF Tries, dsp, ghosts, Stop
<1>4. Typed'
  <2>1. thread' \in Threads
    BY <1>2 DEF OutInv, Typed
  <2>2. out' \in [open : BOOLEAN, rate : Nat, eq : Eqs] /\ pending' \in Eqs
    BY Constants DEF OutInv, Typed, Threads, Eqs, dsp, ghosts, Stop
  <2>3. ring' \in 0..Room /\ errors' \in 0..Threshold /\ due' \in Nat /\ heard' \in Nat
    BY <1>1, Numbers DEF OutInv, Typed, dsp, ghosts, Stop
  <2>4. /\ update' \in [at : {"Idle", "Build", "Slot", "Flag"}, eq : Eqs] /\ known' \in Nat
        /\ infos' \in Seq(Nat)
    BY Constants DEF OutInv, Typed, Eqs, dsp, ghosts, Stop
  <2>5. /\ thread'.at # "Idle" => thread'.song \in setup'.songs
        /\ setup' \in Setups /\ stop' \in BOOLEAN /\ filters' \in Filters /\ gain' \in Nat
    BY <1>2, <1>3 DEF OutInv, Typed, dsp, ghosts, Stop
  <2>6. flag' \in BOOLEAN /\ held' \in BOOLEAN
    BY DEF OutInv, Typed, Active, dsp, ghosts, Stop
  <2>7. spoiled' \in [skipped : BOOLEAN, raced : BOOLEAN, misfit : BOOLEAN]
    BY Constants DEF OutInv, Typed, dsp, ghosts, Stop
  <2> QED BY <2>1, <2>2, <2>3, <2>4, <2>5, <2>6, <2>7 DEF Typed
<1>5. Phases'
  BY <1>1, <1>2, <1>3 DEF OutInv, Typed, Phases, Opened, Locked, Tried, Rated, Gained, Eqs, IsDsd,
     Closed, dsp, ghosts, Stop
<1>6. Fits'
  BY <1>1, <1>2, <1>3 DEF OutInv, Typed, Phases, Opened, Locked, Tried, Rated, Gained, Fits,
     FitLocks, FitRate, FitSet, FitFlag, FitGain, Fresh, Latest, Eqs, IsDsd, Closed, Active,
     Unspoiled, NoUpdate, dsp, ghosts, Stop
<1>7. Counted'
  BY <1>1, <1>2 DEF OutInv, Typed, Phases, Opened, Locked, Tried, Rated, Gained, Counted,
     HeardOut, Closed, dsp, ghosts, Stop
<1>8. Exhausted'
  BY <1>1, <1>2, <1>3 DEF OutInv, Exhausted, IsDsd, dsp, ghosts, Stop
<1> QED BY <1>4, <1>5, <1>6, <1>7, <1>8 DEF OutInv

LEMMA LearnKeeps ==
  ASSUME OutInv, Learn
  PROVE  OutInv'
<1>1. /\ thread.at \in {"Idle", "Loop", "Open", "Build", "Built", "Prefill", "Push", "Drain", "End"}
      /\ thread.song \in Songs \cup {NoSong} /\ thread.try \in Nat /\ thread.packets \in 0..Packets
      /\ thread.left \in Nat /\ thread.eq \in Eqs /\ thread.retries \in Nat
      /\ thread.result \in Results /\ thread.cut \in BOOLEAN
  BY ThreadFacts
<1>2. thread' = thread
  BY DEF Learn
<1>3. setup' = setup /\ Tries' = Tries
  BY <1>2 DEF Tries, dsp, ghosts, Learn
<1>4. Typed'
  <2>1. thread' \in Threads
    BY <1>2 DEF OutInv, Typed
  <2>2. out' \in [open : BOOLEAN, rate : Nat, eq : Eqs] /\ pending' \in Eqs
    BY Constants DEF OutInv, Typed, Threads, Eqs, dsp, ghosts, Learn
  <2>3. ring' \in 0..Room /\ errors' \in 0..Threshold /\ due' \in Nat /\ heard' \in Nat
    BY <1>1, Numbers DEF OutInv, Typed, dsp, ghosts, Learn
  <2>4. update' = update /\ known' \in Nat /\ infos' \in Seq(Nat)
    <3>1. infos \in Seq(Nat) /\ infos # <<>> /\ known' = Head(infos) /\ infos' = Tail(infos)
      BY DEF OutInv, Typed, Learn
    <3> QED BY <3>1 DEF Learn
  <2>5. /\ thread'.at # "Idle" => thread'.song \in setup'.songs
        /\ setup' \in Setups /\ stop' \in BOOLEAN /\ filters' \in Filters /\ gain' \in Nat
    BY <1>2, <1>3 DEF OutInv, Typed, dsp, ghosts, Learn
  <2>6. flag' \in BOOLEAN /\ held' \in BOOLEAN
    BY DEF OutInv, Typed, Active, dsp, ghosts, Learn
  <2>7. spoiled' \in [skipped : BOOLEAN, raced : BOOLEAN, misfit : BOOLEAN]
    BY Constants DEF OutInv, Typed, dsp, ghosts, Learn
  <2> QED BY <2>1, <2>2, <2>3, <2>4, <2>5, <2>6, <2>7 DEF OutInv, Typed
<1>5. Phases'
  BY <1>1, <1>2, <1>3 DEF OutInv, Typed, Phases, Opened, Locked, Tried, Rated, Gained, Eqs, IsDsd,
     Closed, dsp, ghosts, Learn
<1>6. Fits'
  BY <1>1, <1>2, <1>3 DEF OutInv, Typed, Phases, Opened, Locked, Tried, Rated, Gained, Fits,
     FitLocks, FitRate, FitSet, FitFlag, FitGain, Fresh, Latest, Eqs, IsDsd, Closed, Active,
     Unspoiled, NoUpdate, dsp, ghosts, Learn
<1>7. Counted'
  BY <1>1, <1>2 DEF OutInv, Typed, Phases, Opened, Locked, Tried, Rated, Gained, Counted,
     HeardOut, Closed, dsp, ghosts, Learn
<1>8. Exhausted'
  BY <1>1, <1>2, <1>3 DEF OutInv, Exhausted, IsDsd, dsp, ghosts, Learn
<1> QED BY <1>4, <1>5, <1>6, <1>7, <1>8 DEF OutInv

LEMMA SetFiltersKeeps ==
  ASSUME OutInv, SetFilters
  PROVE  OutInv'
<1>1. /\ thread.at \in {"Idle", "Loop", "Open", "Build", "Built", "Prefill", "Push", "Drain", "End"}
      /\ thread.song \in Songs \cup {NoSong} /\ thread.try \in Nat /\ thread.packets \in 0..Packets
      /\ thread.left \in Nat /\ thread.eq \in Eqs /\ thread.retries \in Nat
      /\ thread.result \in Results /\ thread.cut \in BOOLEAN
  BY ThreadFacts
<1>2. thread' = thread
  BY DEF SetFilters, Lockable
<1>3. setup' = setup /\ Tries' = Tries
  BY <1>2 DEF Tries, dsp, ghosts, SetFilters, Lockable
<1>4. Typed'
  <2>1. thread' \in Threads
    BY <1>2 DEF OutInv, Typed
  <2>2. out' \in [open : BOOLEAN, rate : Nat, eq : Eqs] /\ pending' \in Eqs
    BY Constants DEF OutInv, Typed, Threads, Eqs, dsp, ghosts, SetFilters, Lockable
  <2>3. ring' \in 0..Room /\ errors' \in 0..Threshold /\ due' \in Nat /\ heard' \in Nat
    BY <1>1, Numbers DEF OutInv, Typed, dsp, ghosts, SetFilters, Lockable
  <2>4. /\ update' \in [at : {"Idle", "Build", "Slot", "Flag"}, eq : Eqs] /\ known' \in Nat
        /\ infos' \in Seq(Nat)
    BY Constants DEF OutInv, Typed, Eqs, dsp, ghosts, SetFilters, Lockable
  <2>5. /\ thread'.at # "Idle" => thread'.song \in setup'.songs
        /\ setup' \in Setups /\ stop' \in BOOLEAN /\ filters' \in Filters /\ gain' \in Nat
    BY <1>2, <1>3 DEF OutInv, Typed, dsp, ghosts, SetFilters, Lockable
  <2>6. flag' \in BOOLEAN /\ held' \in BOOLEAN
    BY DEF OutInv, Typed, Active, dsp, ghosts, SetFilters, Lockable
  <2>7. spoiled' \in [skipped : BOOLEAN, raced : BOOLEAN, misfit : BOOLEAN]
    BY Constants DEF OutInv, Typed, dsp, ghosts, SetFilters, Lockable
  <2> QED BY <2>1, <2>2, <2>3, <2>4, <2>5, <2>6, <2>7 DEF Typed
<1>5. Phases'
  BY <1>1, <1>2, <1>3 DEF OutInv, Typed, Phases, Opened, Locked, Tried, Rated, Gained, Eqs, IsDsd,
     Closed, dsp, ghosts, SetFilters, Lockable
<1>6. Fits'
  BY <1>1, <1>2, <1>3 DEF OutInv, Typed, Phases, Opened, Locked, Tried, Rated, Gained, Fits,
     FitLocks, FitRate, FitSet, FitFlag, FitGain, Fresh, Latest, Eqs, IsDsd, Closed, Active,
     Unspoiled, NoUpdate, dsp, ghosts, SetFilters, Lockable
<1>7. Counted'
  BY <1>1, <1>2 DEF OutInv, Typed, Phases, Opened, Locked, Tried, Rated, Gained, Counted,
     HeardOut, Closed, dsp, ghosts, SetFilters, Lockable
<1>8. Exhausted'
  BY <1>1, <1>2, <1>3 DEF OutInv, Exhausted, IsDsd, dsp, ghosts, SetFilters, Lockable
<1> QED BY <1>4, <1>5, <1>6, <1>7, <1>8 DEF OutInv

LEMMA BuildUpdateKeeps ==
  ASSUME OutInv, BuildUpdate
  PROVE  OutInv'
<1>1. /\ thread.at \in {"Idle", "Loop", "Open", "Build", "Built", "Prefill", "Push", "Drain", "End"}
      /\ thread.song \in Songs \cup {NoSong} /\ thread.try \in Nat /\ thread.packets \in 0..Packets
      /\ thread.left \in Nat /\ thread.eq \in Eqs /\ thread.retries \in Nat
      /\ thread.result \in Results /\ thread.cut \in BOOLEAN
  BY ThreadFacts
<1>2. thread' = thread
  BY DEF BuildUpdate, Equaliser
<1>3. setup' = setup /\ Tries' = Tries
  BY <1>2 DEF Tries, dsp, ghosts, BuildUpdate, Equaliser
<1>4. Typed'
  <2>1. thread' \in Threads
    BY <1>2 DEF OutInv, Typed
  <2>2. out' \in [open : BOOLEAN, rate : Nat, eq : Eqs] /\ pending' \in Eqs
    BY Constants DEF OutInv, Typed, Threads, Eqs, dsp, ghosts, BuildUpdate, Equaliser
  <2>3. ring' \in 0..Room /\ errors' \in 0..Threshold /\ due' \in Nat /\ heard' \in Nat
    BY <1>1, Numbers DEF OutInv, Typed, dsp, ghosts, BuildUpdate, Equaliser
  <2>4. /\ update' \in [at : {"Idle", "Build", "Slot", "Flag"}, eq : Eqs] /\ known' \in Nat
        /\ infos' \in Seq(Nat)
    BY Constants DEF OutInv, Typed, Eqs, dsp, ghosts, BuildUpdate, Equaliser
  <2>5. /\ thread'.at # "Idle" => thread'.song \in setup'.songs
        /\ setup' \in Setups /\ stop' \in BOOLEAN /\ filters' \in Filters /\ gain' \in Nat
    BY <1>2, <1>3 DEF OutInv, Typed, dsp, ghosts, BuildUpdate, Equaliser
  <2>6. flag' \in BOOLEAN /\ held' \in BOOLEAN
    BY DEF OutInv, Typed, Active, dsp, ghosts, BuildUpdate, Equaliser
  <2>7. spoiled' \in [skipped : BOOLEAN, raced : BOOLEAN, misfit : BOOLEAN]
    BY Constants DEF OutInv, Typed, dsp, ghosts, BuildUpdate, Equaliser
  <2> QED BY <2>1, <2>2, <2>3, <2>4, <2>5, <2>6, <2>7 DEF Typed
<1>5. Phases'
  BY <1>1, <1>2, <1>3 DEF OutInv, Typed, Phases, Opened, Locked, Tried, Rated, Gained, Eqs, IsDsd,
     Closed, dsp, ghosts, BuildUpdate, Equaliser
<1>6. Fits'
  BY <1>1, <1>2, <1>3 DEF OutInv, Typed, Phases, Opened, Locked, Tried, Rated, Gained, Fits,
     FitLocks, FitRate, FitSet, FitFlag, FitGain, Fresh, Latest, Eqs, IsDsd, Closed, Active,
     Unspoiled, NoUpdate, dsp, ghosts, BuildUpdate, Equaliser
<1>7. Counted'
  BY <1>1, <1>2 DEF OutInv, Typed, Phases, Opened, Locked, Tried, Rated, Gained, Counted,
     HeardOut, Closed, dsp, ghosts, BuildUpdate, Equaliser
<1>8. Exhausted'
  BY <1>1, <1>2, <1>3 DEF OutInv, Exhausted, IsDsd, dsp, ghosts, BuildUpdate, Equaliser
<1> QED BY <1>4, <1>5, <1>6, <1>7, <1>8 DEF OutInv

LEMMA FillSlotKeeps ==
  ASSUME OutInv, FillSlot
  PROVE  OutInv'
<1>1. /\ thread.at \in {"Idle", "Loop", "Open", "Build", "Built", "Prefill", "Push", "Drain", "End"}
      /\ thread.song \in Songs \cup {NoSong} /\ thread.try \in Nat /\ thread.packets \in 0..Packets
      /\ thread.left \in Nat /\ thread.eq \in Eqs /\ thread.retries \in Nat
      /\ thread.result \in Results /\ thread.cut \in BOOLEAN
  BY ThreadFacts
<1>2. thread' = thread
  BY DEF FillSlot
<1>3. /\ spoiled'.raced = spoiled.raced /\ spoiled'.skipped = spoiled.skipped
      /\ spoiled'.misfit = (update.eq.rate # thread.eq.rate)
      /\ update'.at = "Flag" /\ update'.eq = update.eq
  BY DEF OutInv, Typed, NoUpdate, FillSlot
<1>4. Latest' = update.eq
  BY DEF FillSlot, OutInv, Fits, FitLocks, Latest, None
<1>5. setup' = setup /\ Tries' = Tries
  BY <1>2 DEF Tries, dsp, ghosts, FillSlot
<1>6. Typed'
  <2>1. thread' \in Threads
    BY <1>2 DEF OutInv, Typed
  <2>2. out' \in [open : BOOLEAN, rate : Nat, eq : Eqs] /\ pending' \in Eqs
    BY Constants DEF OutInv, Typed, Threads, Eqs, dsp, ghosts, FillSlot
  <2>3. ring' \in 0..Room /\ errors' \in 0..Threshold /\ due' \in Nat /\ heard' \in Nat
    BY <1>1, Numbers DEF OutInv, Typed, dsp, ghosts, FillSlot
  <2>4. /\ update' \in [at : {"Idle", "Build", "Slot", "Flag"}, eq : Eqs] /\ known' \in Nat
        /\ infos' \in Seq(Nat)
    BY Constants DEF OutInv, Typed, Eqs, dsp, ghosts, FillSlot
  <2>5. /\ thread'.at # "Idle" => thread'.song \in setup'.songs
        /\ setup' \in Setups /\ stop' \in BOOLEAN /\ filters' \in Filters /\ gain' \in Nat
    BY <1>2, <1>5 DEF OutInv, Typed, dsp, ghosts, FillSlot
  <2>6. flag' \in BOOLEAN /\ held' \in BOOLEAN
    BY DEF OutInv, Typed, Active, dsp, ghosts, FillSlot
  <2>7. spoiled' \in [skipped : BOOLEAN, raced : BOOLEAN, misfit : BOOLEAN]
    BY Constants DEF OutInv, Typed, dsp, ghosts, FillSlot
  <2> QED BY <2>1, <2>2, <2>3, <2>4, <2>5, <2>6, <2>7 DEF Typed
<1>7. Phases'
  <2>1. Opened'
    BY <1>1, <1>2, <1>5 DEF OutInv, Phases, Opened, Locked, Closed, dsp, ghosts, FillSlot
  <2>2. Locked'
    BY <1>1, <1>2, <1>5 DEF OutInv, Typed, Eqs, Phases, Opened, Locked, Closed, dsp, ghosts,
       FillSlot
  <2>3. Tried'
    BY <1>1, <1>2, <1>5 DEF OutInv, Phases, Opened, Locked, Closed, dsp, ghosts, FillSlot, Tried,
       IsDsd
  <2>4. Rated'
    BY <1>1, <1>2, <1>5 DEF OutInv, Phases, Opened, Locked, Closed, dsp, ghosts, FillSlot, Rated,
       IsDsd
  <2>5. Gained'
    BY <1>1, <1>2, <1>5 DEF OutInv, Phases, Opened, Locked, Closed, dsp, ghosts, FillSlot, Gained
  <2> QED BY <2>1, <2>2, <2>3, <2>4, <2>5 DEF Phases
<1>8. Fits'
  <2>1. FitLocks'
    BY <1>1, <1>2, <1>5, <1>3 DEF OutInv, Phases, Opened, Locked, Closed, dsp, ghosts, FillSlot,
       Fits, FitLocks
  <2>2. FitRate'
    BY <1>1, <1>2, <1>5, <1>3, <1>4 DEF OutInv, Phases, Opened, Locked, Closed, dsp, ghosts,
       FillSlot, Fits, FitRate, FitLocks, Fresh, IsDsd
  <2>3. FitSet'
    BY <1>1, <1>2, <1>5, <1>3 DEF OutInv, Phases, Opened, Locked, Closed, dsp, ghosts, FillSlot,
       Fits, FitSet, FitLocks, Fresh, Latest, IsDsd
  <2>4. FitFlag'
    BY <1>1, <1>2, <1>5, <1>3 DEF OutInv, Phases, Opened, Locked, Closed, dsp, ghosts, FillSlot,
       Fits, FitFlag, FitLocks, Fresh, Latest, IsDsd, Active
  <2>5. FitGain'
    BY <1>1, <1>2, <1>5, <1>3, <1>4 DEF OutInv, Phases, Opened, Locked, Closed, dsp, ghosts,
       FillSlot, Fits, FitGain, FitLocks, Fresh, IsDsd
  <2> QED BY <2>1, <2>2, <2>3, <2>4, <2>5 DEF Fits
<1>9. Counted'
  BY <1>1, <1>2 DEF OutInv, Typed, Phases, Counted, HeardOut, Closed, dsp, ghosts, FillSlot
<1>10. Exhausted'
  BY <1>1, <1>2, <1>5 DEF OutInv, Exhausted, IsDsd, dsp, ghosts, FillSlot
<1> QED BY <1>6, <1>7, <1>8, <1>9, <1>10 DEF OutInv

LEMMA SetFlagKeeps ==
  ASSUME OutInv, SetFlag
  PROVE  OutInv'
<1>1. /\ thread.at \in {"Idle", "Loop", "Open", "Build", "Built", "Prefill", "Push", "Drain", "End"}
      /\ thread.song \in Songs \cup {NoSong} /\ thread.try \in Nat /\ thread.packets \in 0..Packets
      /\ thread.left \in Nat /\ thread.eq \in Eqs /\ thread.retries \in Nat
      /\ thread.result \in Results /\ thread.cut \in BOOLEAN
  BY ThreadFacts
<1>2. thread' = thread
  BY DEF SetFlag
<1>3. /\ spoiled'.raced = spoiled.raced /\ spoiled'.skipped = (spoiled.skipped \/ update.eq = None)
      /\ spoiled'.misfit = spoiled.misfit
      /\ update'.at = "Idle" /\ update'.eq = None
  BY DEF OutInv, Typed, NoUpdate, SetFlag
<1>4. setup' = setup /\ Tries' = Tries
  BY <1>2 DEF Tries, dsp, ghosts, SetFlag
<1>5. Typed'
  <2>1. thread' \in Threads
    BY <1>2 DEF OutInv, Typed
  <2>2. out' \in [open : BOOLEAN, rate : Nat, eq : Eqs] /\ pending' \in Eqs
    BY Constants DEF OutInv, Typed, Threads, Eqs, dsp, ghosts, SetFlag
  <2>3. ring' \in 0..Room /\ errors' \in 0..Threshold /\ due' \in Nat /\ heard' \in Nat
    BY <1>1, Numbers DEF OutInv, Typed, dsp, ghosts, SetFlag
  <2>4. /\ update' \in [at : {"Idle", "Build", "Slot", "Flag"}, eq : Eqs] /\ known' \in Nat
        /\ infos' \in Seq(Nat)
    BY Constants DEF OutInv, Typed, Eqs, dsp, ghosts, SetFlag
  <2>5. /\ thread'.at # "Idle" => thread'.song \in setup'.songs
        /\ setup' \in Setups /\ stop' \in BOOLEAN /\ filters' \in Filters /\ gain' \in Nat
    BY <1>2, <1>4 DEF OutInv, Typed, dsp, ghosts, SetFlag
  <2>6. flag' \in BOOLEAN /\ held' \in BOOLEAN
    BY DEF OutInv, Typed, Active, dsp, ghosts, SetFlag
  <2>7. spoiled' \in [skipped : BOOLEAN, raced : BOOLEAN, misfit : BOOLEAN]
    BY Constants DEF OutInv, Typed, dsp, ghosts, SetFlag
  <2> QED BY <2>1, <2>2, <2>3, <2>4, <2>5, <2>6, <2>7 DEF Typed
<1>6. Phases'
  <2>1. Opened'
    BY <1>1, <1>2, <1>4 DEF OutInv, Phases, Opened, Locked, Closed, dsp, ghosts, SetFlag
  <2>2. Locked'
    BY <1>1, <1>2, <1>4 DEF OutInv, Typed, Eqs, Phases, Opened, Locked, Closed, dsp, ghosts, SetFlag
  <2>3. Tried'
    BY <1>1, <1>2, <1>4 DEF OutInv, Phases, Opened, Locked, Closed, dsp, ghosts, SetFlag, Tried,
       IsDsd
  <2>4. Rated'
    BY <1>1, <1>2, <1>4 DEF OutInv, Phases, Opened, Locked, Closed, dsp, ghosts, SetFlag, Rated,
       IsDsd
  <2>5. Gained'
    BY <1>1, <1>2, <1>4 DEF OutInv, Phases, Opened, Locked, Closed, dsp, ghosts, SetFlag, Gained
  <2> QED BY <2>1, <2>2, <2>3, <2>4, <2>5 DEF Phases
<1>7. Fits'
  <2>1. FitLocks'
    BY <1>1, <1>2, <1>4, <1>3 DEF OutInv, Phases, Opened, Locked, Closed, dsp, ghosts, SetFlag,
       Fits, FitLocks
  <2>2. FitRate'
    BY <1>1, <1>2, <1>4, <1>3 DEF OutInv, Phases, Opened, Locked, Closed, dsp, ghosts, SetFlag,
       Fits, FitRate, FitLocks, Fresh, Latest, IsDsd
  <2>3. FitSet'
    BY <1>1, <1>2, <1>4, <1>3 DEF OutInv, Phases, Opened, Locked, Closed, dsp, ghosts, SetFlag,
       Fits, FitSet, FitLocks, Fresh, Latest, IsDsd
  <2>4. FitFlag'
    BY <1>1, <1>2, <1>4, <1>3 DEF OutInv, Phases, Opened, Locked, Closed, dsp, ghosts, SetFlag,
       Fits, FitFlag, FitLocks, Fresh, Latest, IsDsd, Active
  <2>5. FitGain'
    BY <1>1, <1>2, <1>4, <1>3 DEF OutInv, Phases, Opened, Locked, Closed, dsp, ghosts, SetFlag,
       Fits, FitGain, FitLocks, Fresh, Latest, IsDsd
  <2> QED BY <2>1, <2>2, <2>3, <2>4, <2>5 DEF Fits
<1>8. Counted'
  BY <1>1, <1>2 DEF OutInv, Typed, Phases, Counted, HeardOut, Closed, dsp, ghosts, SetFlag
<1>9. Exhausted'
  BY <1>1, <1>2, <1>4 DEF OutInv, Exhausted, IsDsd, dsp, ghosts, SetFlag
<1> QED BY <1>5, <1>6, <1>7, <1>8, <1>9 DEF OutInv

LEMMA StartsKeeps ==
  ASSUME OutInv, thread.at \in {"Idle", "End"}, NEW s \in setup.songs, NEW n \in Nat, Starts(s, n),
         stop' \in BOOLEAN,
         UNCHANGED <<setup, out, ring, errors, pending, flag, filters, held, update, known, spoiled>>
  PROVE  OutInv'
<1>1. s \in Songs /\ s.rate \in Nat /\ s.gain \in Nat
  BY OutputAssumption DEF OutInv, Typed, Songs
<1>2. /\ thread'.at = "Loop" /\ thread'.song = s /\ thread'.try = 0 /\ thread'.packets = Packets
      /\ thread'.left = 0 /\ thread'.eq = None /\ thread'.retries = n /\ thread'.result = "None"
      /\ thread'.cut = FALSE
  BY DEF Starts, Resting
<1>3. thread' = [at |-> "Loop", song |-> s, try |-> 0, packets |-> Packets, left |-> 0, eq |-> None,
                 retries |-> n, result |-> "None", cut |-> FALSE]
  BY DEF Starts, Resting
<1>4. ~out.open /\ out' = out /\ held' = FALSE
  BY DEF OutInv, Phases, Opened, Locked
<1>5. Typed'
  <2>1. thread' \in Threads
    BY <1>1, <1>3, Constants, Numbers DEF Threads, Results
  <2>2. gain' \in Nat
    BY <1>1 DEF Starts, OutInv, Typed
  <2>3. infos' \in Seq(Nat)
    BY <1>1 DEF Starts, OutInv, Typed
  <2>4. due' = 0 /\ heard' = 0 /\ thread'.song \in setup'.songs
    BY <1>2 DEF Starts
  <2> QED BY <2>1, <2>2, <2>3, <2>4 DEF OutInv, Typed
<1>6. Phases'
  <2>1. Opened'
    BY <1>2, <1>4 DEF OutInv, Phases, Opened, Closed
  <2>2. Locked' /\ Tried' /\ Rated'
    BY <1>2, <1>4 DEF Locked, Tried, Rated
  <2>3. Gained'
    BY <1>2 DEF Gained, Starts
  <2> QED BY <2>1, <2>2, <2>3 DEF Phases
<1>7. Fits'
  <2>1. ~Fresh'
    BY <1>2, <1>4 DEF Fresh
  <2>2. FitLocks'
    BY <1>2, <1>4 DEF OutInv, Fits, FitLocks
  <2> QED BY <2>1, <2>2 DEF Fits, FitRate, FitSet, FitFlag, FitGain
<1>8. Counted' /\ Exhausted'
  BY <1>2, <1>4 DEF Counted, HeardOut, Exhausted, Starts
<1> QED BY <1>5, <1>6, <1>7, <1>8 DEF OutInv

LEMMA BeginKeeps ==
  ASSUME OutInv, Begin
  PROVE  OutInv'
<1>1. stop' \in BOOLEAN
  BY DEF Begin, OutInv, Typed
<1>2. PICK s \in setup.songs : Starts(s, 0)
  BY DEF Begin
<1>3. thread.at \in {"Idle", "End"}
  BY DEF Begin
<1> QED BY <1>1, <1>2, <1>3, StartsKeeps DEF Begin

LEMMA AgainKeeps ==
  ASSUME OutInv, Again
  PROVE  OutInv'
<1>1. thread.song \in setup.songs /\ thread.retries + 1 \in Nat /\ thread.at = "End"
  BY ThreadFacts DEF Again, OutInv, Typed
<1>2. Starts(thread.song, thread.retries + 1) /\ stop' \in BOOLEAN
  BY DEF Again, OutInv, Typed
<1> QED BY <1>1, <1>2, StartsKeeps DEF Again

LEMMA ExitKeeps ==
  ASSUME OutInv, Exit
  PROVE  OutInv'
<1>1. /\ thread'.at = "Idle" /\ thread'.left = 0 /\ thread'.cut = FALSE /\ thread' = Resting
  BY DEF Exit, Resting
<1>2. ~out.open /\ out' = out /\ held' = FALSE /\ thread.at = "End"
  BY DEF OutInv, Phases, Opened, Locked, Exit, dsp
<1>3. Typed'
  <2>1. Resting \in Threads
    BY Constants, Numbers DEF Resting, Threads, Results
  <2> QED BY <1>1, <2>1, Constants DEF OutInv, Typed, Exit, dsp
<1>4. Phases'
  <2>1. Opened'
    BY <1>1, <1>2 DEF OutInv, Phases, Opened, Closed
  <2>2. Locked' /\ Tried' /\ Rated' /\ Gained'
    BY <1>1, <1>2 DEF Locked, Tried, Rated, Gained
  <2> QED BY <2>1, <2>2 DEF Phases
<1>5. Fits'
  <2>1. ~Fresh'
    BY <1>1, <1>2 DEF Fresh
  <2>2. FitLocks'
    BY <1>1, <1>2 DEF OutInv, Fits, FitLocks, Exit, dsp
  <2> QED BY <2>1, <2>2 DEF Fits, FitRate, FitSet, FitFlag, FitGain
<1>6. Counted' /\ Exhausted'
  BY <1>1, <1>2 DEF Counted, HeardOut, Exhausted
<1> QED BY <1>3, <1>4, <1>5, <1>6 DEF OutInv

\* What the writers make of a packet.
LEMMA SamplesFacts ==
  ASSUME OutInv, thread.at # "Idle"
  PROVE  Samples \in Nat
<1>1. thread.song.rate \in Nat \ {0} /\ out.rate \in Nat /\ Chunk \in Nat
  BY OutputAssumption, Numbers DEF OutInv, Typed
<1> DEFINE x == Chunk * out.rate  r == thread.song.rate
<1>2. x \in Nat /\ r \in Nat \ {0}
  BY <1>1
<1> HIDE DEF x, r
<1>3. x \div r \in Nat
  BY <1>2, Quotient
<1> QED BY <1>1, <1>3 DEF Samples, x, r

LEMMA WritePacketKeeps ==
  ASSUME OutInv, WritePacket
  PROVE  OutInv'
<1> DEFINE n == Samples
<1>1. thread.at \in {"Loop", "Prefill"} /\ out.open /\ thread.left = 0
      /\ (thread.at = "Loop" => thread.packets > 0)
  BY DEF WritePacket, AtWrite, OutInv, Phases, Opened, Counted
<1>2. n \in Nat
  BY <1>1, SamplesFacts
<1>3. /\ thread' = [thread EXCEPT !.at = IF n = 0 THEN "Loop" ELSE "Push", !.packets = Unread, !.left = n]
      /\ due' = due + n
  BY DEF WritePacket
<1> HIDE DEF n
<1>4. /\ thread'.at = (IF n = 0 THEN "Loop" ELSE "Push") /\ thread'.song = thread.song
      /\ thread'.try = thread.try /\ thread'.packets = Unread /\ thread'.left = n
      /\ thread'.eq = thread.eq /\ thread'.retries = thread.retries
      /\ thread'.result = thread.result /\ thread'.cut = thread.cut
  BY <1>3 DEF OutInv, Typed, Threads
<1>5. out' = Swapped /\ pending' = IF IsDsd(thread.song) THEN pending ELSE None
  BY DEF WritePacket
<1>6. /\ out'.open /\ out'.rate = out.rate
      /\ out'.eq = IF pending # None /\ ~IsDsd(thread.song) THEN pending ELSE out.eq
      /\ out' \in [open : BOOLEAN, rate : Nat, eq : Eqs]
  BY <1>1, <1>5 DEF Swapped, OutInv, Typed
<1>7. Typed'
  <2>1. Unread \in 0..Packets
    BY <1>1, ThreadFacts, Numbers DEF Unread
  <2>2. thread' = [at |-> thread'.at, song |-> thread'.song, try |-> thread'.try,
                   packets |-> thread'.packets, left |-> thread'.left, eq |-> thread'.eq,
                   retries |-> thread'.retries, result |-> thread'.result, cut |-> thread'.cut]
    BY <1>3 DEF OutInv, Typed, Threads
  <2>3. thread' \in Threads
    BY <1>2, <1>4, <2>1, <2>2, ThreadFacts DEF Threads
  <2>4. pending' \in Eqs /\ due' \in Nat
    BY <1>2, <1>3, <1>5, Constants DEF OutInv, Typed
  <2>5. thread'.at # "Idle" => thread'.song \in setup'.songs
    BY <1>1, <1>4 DEF OutInv, Typed, WritePacket
  <2> QED BY <1>6, <2>3, <2>4, <2>5 DEF OutInv, Typed, WritePacket
<1>8. Phases'
  <2>1. Opened'
    BY <1>4, <1>6 DEF Opened
  <2>2. ~held /\ held' = held
    BY <1>1 DEF OutInv, Phases, Locked, WritePacket
  <2>3. Locked' /\ Tried'
    BY <1>4, <2>2 DEF Locked, Tried
  <2>4. Rated'
    BY <1>1, <1>4, <1>6 DEF OutInv, Phases, Rated
  <2>5. Gained'
    BY <1>1, <1>4 DEF OutInv, Phases, Gained, WritePacket
  <2> QED BY <2>1, <2>3, <2>4, <2>5 DEF Phases
<1>9. Fits'
  <2>1. ~IsDsd(thread.song) => Latest' = Latest
    BY <1>5, <1>6 DEF Latest
  <2>2. Fresh' => Fresh /\ Latest' = Latest /\ thread.at # "Built" /\ thread'.at # "Built"
    BY <1>1, <1>4, <1>6, <2>1 DEF Fresh, IsDsd
  <2>3. UNCHANGED <<flag, filters, gain, held, update, spoiled>>
    BY DEF WritePacket
  <2>4. FitLocks'
    BY <1>4, <2>3 DEF OutInv, Fits, FitLocks
  <2>5. FitRate' /\ FitSet'
    BY <1>4, <2>2, <2>3 DEF OutInv, Fits, FitRate, FitSet
  <2>6. FitFlag' /\ FitGain'
    BY <1>4, <2>2, <2>3 DEF OutInv, Fits, FitFlag, FitGain, Active
  <2> QED BY <2>4, <2>5, <2>6 DEF Fits
<1>10. Counted'
  <2>1. due \in Nat /\ heard \in Nat /\ ring \in Nat /\ heard' = heard /\ ring' = ring
    BY Numbers DEF OutInv, Typed, WritePacket
  <2>2. ~thread.cut => due = heard + ring
    BY <1>1, <2>1 DEF OutInv, Counted
  <2>3. ~thread'.cut => due' = heard' + ring' + thread'.left
    BY <1>2, <1>3, <1>4, <2>1, <2>2
  <2> QED BY <1>4, <1>6, <2>3 DEF Counted, HeardOut
<1>11. Exhausted'
  BY <1>4 DEF Exhausted
<1> QED BY <1>7, <1>8, <1>9, <1>10, <1>11 DEF OutInv

LEMMA AcceptedKeeps ==
  ASSUME OutInv, Accepted
  PROVE  OutInv'
<1> DEFINE try == Tries[thread.try]
           prefill == IF thread.song.kind = "Song" THEN setup.prefill ELSE 0
<1>1. /\ thread.at = "Open" /\ thread.try \in 1..Len(Tries) /\ try.do = "Open"
      /\ ~out.open /\ out = Closed
  <2>1. thread.at = "Open" /\ thread.try <= Len(Tries) /\ try.do = "Open"
    BY DEF Accepted, Trying
  <2>2. thread.try > 0 /\ thread.try \in Nat
    BY <2>1, ThreadFacts DEF OutInv, Phases, Tried
  <2>3. Len(Tries) \in Nat
    BY <2>1, TriesFacts
  <2> QED BY <2>1, <2>2, <2>3 DEF OutInv, Phases, Opened
<1>2. /\ try.rate \in Nat /\ try.late \in BOOLEAN
      /\ ~IsDsd(thread.song) => thread.try - 1 \in DOMAIN Tries /\ Tries[thread.try - 1].rate = try.rate
      /\ try.late => thread.try > Len(New(setup, thread.song, FALSE))
  <2>1. /\ Len(Tries) \in Nat /\ DOMAIN Tries = 1..Len(Tries)
        /\ \A i \in 1..Len(Tries) : Tries[i].rate \in Nat /\ Tries[i].late \in BOOLEAN
        /\ ~IsDsd(thread.song) => Sound(Tries)
    BY <1>1, TriesFacts
  <2>2. /\ Len(New(setup, thread.song, FALSE)) \in Nat
        /\ \A i \in 1..Len(New(setup, thread.song, FALSE)) : ~Tries[i].late
    BY <1>1, TriesFacts
  <2>3. try.late => thread.try > Len(New(setup, thread.song, FALSE))
    <3> DEFINE m == Len(New(setup, thread.song, FALSE))
    <3>1. Len(Tries) \in Nat /\ m \in Nat
      BY <2>1, <2>2
    <3>2. m \in Nat /\ thread.try \in Nat /\ thread.try >= 1
      <4> HIDE DEF m, try
      <4> QED BY <1>1, <3>1
    <3>3. thread.try \in 1..m => ~try.late
      BY <2>2
    <3> HIDE DEF m, try
    <3>4. try.late => thread.try > m
      BY <3>2, <3>3
    <3> QED BY <3>4 DEF m
  <2>4. ~IsDsd(thread.song) => thread.try - 1 \in DOMAIN Tries /\ Tries[thread.try - 1].rate = try.rate
    BY <1>1, <2>1 DEF Sound
  <2> QED BY <1>1, <2>1, <2>3, <2>4
<1>3. ~IsDsd(thread.song) => thread.try > 1 /\ try.rate = thread.eq.rate
  <2>1. ~IsDsd(thread.song) => thread.try > 1
    BY <1>1, <1>2, TriesFacts
  <2>2. ~IsDsd(thread.song) => Tries[thread.try - 1].rate = thread.eq.rate
    BY <1>1, <2>1 DEF OutInv, Phases, Tried
  <2> QED BY <1>2, <2>1, <2>2
<1>4. prefill \in Nat
  BY OutputAssumption DEF OutInv, Typed
<1>5. /\ out' = IF try.late THEN Closed
                ELSE [open |-> TRUE, rate |-> try.rate, eq |-> IF IsDsd(thread.song) THEN None ELSE pending]
      /\ pending' = IF IsDsd(thread.song) THEN pending ELSE None
      /\ IF try.late THEN EndWith("Failed")
         ELSE thread' = [thread EXCEPT !.at = "Prefill", !.left = prefill]
      /\ due' = prefill /\ ring' = 0 /\ errors' = 0 /\ heard' = 0
      /\ UNCHANGED <<setup, stop, flag, filters, gain, held, update, known, infos, spoiled>>
  BY DEF Accepted
<1> HIDE DEF try, prefill
<1>6. /\ thread'.at = (IF try.late THEN "End" ELSE "Prefill") /\ thread'.song = thread.song
      /\ thread'.try = thread.try /\ thread'.packets = thread.packets
      /\ thread'.left = (IF try.late THEN thread.left ELSE prefill)
      /\ thread'.eq = thread.eq /\ thread'.retries = thread.retries
      /\ thread'.result = (IF try.late THEN "Failed" ELSE thread.result)
      /\ thread'.cut = (IF try.late THEN TRUE ELSE thread.cut)
  <2>1. CASE try.late
    <3>1. thread' = [thread EXCEPT !.at = "End", !.result = "Failed", !.cut = @ \/ TRUE]
      BY <1>5, <2>1 DEF EndWith
    <3> QED BY <2>1, <3>1, ThreadFields
  <2>2. CASE ~try.late
    <3>1. thread' = [thread EXCEPT !.at = "Prefill", !.left = prefill]
      BY <1>5, <2>2
    <3> QED BY <2>2, <3>1, ThreadFields
  <2> QED BY <1>2, <2>1, <2>2
<1>7. Typed'
  <2>1. thread' = [at |-> thread'.at, song |-> thread'.song, try |-> thread'.try,
                   packets |-> thread'.packets, left |-> thread'.left, eq |-> thread'.eq,
                   retries |-> thread'.retries, result |-> thread'.result, cut |-> thread'.cut]
    BY <1>2, <1>5 DEF OutInv, Typed, Threads, EndWith
  <2>2. thread' \in Threads
    BY <1>2, <1>4, <1>6, <2>1, ThreadFacts DEF Threads, Results
  <2>3. pending' \in Eqs
    BY <1>5, Constants DEF OutInv, Typed
  <2>4. out' \in [open : BOOLEAN, rate : Nat, eq : Eqs]
    BY <1>2, <1>5, Constants DEF OutInv, Typed
  <2>5. thread'.at # "Idle" => thread'.song \in setup'.songs
    BY <1>1, <1>5, <1>6 DEF OutInv, Typed
  <2>6. ring' \in 0..Room /\ errors' \in 0..Threshold /\ due' \in Nat /\ heard' \in Nat
    BY <1>4, <1>5, Numbers
  <2> QED BY <1>5, <2>2, <2>3, <2>4, <2>5, <2>6 DEF OutInv, Typed
<1>8. Phases'
  <2>1. Opened'
    BY <1>2, <1>5, <1>6 DEF Opened, Closed
  <2>2. ~held'
    BY <1>1, <1>5 DEF OutInv, Phases, Locked
  <2>3. Locked' /\ Tried'
    BY <1>6, <2>2 DEF Locked, Tried
  <2>4. Rated'
    BY <1>2, <1>3, <1>5, <1>6 DEF Rated, Closed, IsDsd
  <2>5. Gained'
    BY <1>1, <1>5, <1>6 DEF OutInv, Phases, Gained
  <2> QED BY <2>1, <2>3, <2>4, <2>5 DEF Phases
<1>9. Fits'
  <2>1. ~IsDsd(thread.song) /\ ~try.late => Latest' = Latest
    BY <1>1, <1>5 DEF Latest, Closed
  <2>2. Fresh' => Fresh /\ Latest' = Latest /\ thread.at # "Built" /\ thread'.at # "Built"
    BY <1>1, <1>2, <1>3, <1>5, <1>6, <2>1 DEF Fresh, IsDsd, Closed
  <2>3. FitLocks'
    <3>1. thread'.at # "Built" /\ held' = held
      BY <1>5, <1>6
    <3> QED BY <1>5, <3>1 DEF OutInv, Fits, FitLocks
  <2>4. FitRate' /\ FitSet'
    BY <1>5, <1>6, <2>2 DEF OutInv, Fits, FitRate, FitSet
  <2>5. FitFlag' /\ FitGain'
    BY <1>5, <1>6, <2>2 DEF OutInv, Fits, FitFlag, FitGain, Active
  <2> QED BY <2>3, <2>4, <2>5 DEF Fits
<1>10. Counted'
  <2>1. CASE try.late
    BY <1>5, <1>6, <2>1 DEF Counted, HeardOut, Closed
  <2>2. CASE ~try.late
    <3>1. due' = heard' + ring' + thread'.left
      BY <1>4, <1>5, <1>6, <2>2
    <3>2. out'.open
      BY <1>5, <2>2
    <3> QED BY <1>6, <2>2, <3>1, <3>2 DEF Counted, HeardOut
  <2> QED BY <2>1, <2>2
<1>11. Exhausted'
  BY <1>2, <1>5, <1>6 DEF Exhausted
<1> QED BY <1>7, <1>8, <1>9, <1>10, <1>11 DEF OutInv

LEMMA InitHolds ==
  ASSUME Init
  PROVE  OutInv
<1>1. Resting \in Threads
  BY Constants, Numbers DEF Resting, Threads, Results
<1>2. Typed
  <2>1. /\ thread.at = "Idle" /\ thread \in Threads /\ setup \in Setups
        /\ out \in [open : BOOLEAN, rate : Nat, eq : Eqs] /\ pending \in Eqs
    BY <1>1, Constants DEF Init, Resting
  <2>2. ring \in 0..Room /\ errors \in 0..Threshold
    BY Numbers DEF Init
  <2>3. /\ update \in [at : {"Idle", "Build", "Slot", "Flag"}, eq : Eqs]
        /\ spoiled \in [skipped : BOOLEAN, raced : BOOLEAN, misfit : BOOLEAN]
    BY Constants DEF Init
  <2>4. infos \in Seq(Nat) /\ known \in Nat /\ due \in Nat /\ heard \in Nat /\ gain \in Nat
    BY DEF Init, NoRate
  <2>5. stop \in BOOLEAN /\ flag \in BOOLEAN /\ held \in BOOLEAN /\ filters \in Filters
    BY DEF Init
  <2> QED BY <2>1, <2>2, <2>3, <2>4, <2>5 DEF Typed
<1>3. Phases
  BY DEF Init, Resting, Closed, Phases, Opened, Locked, Tried, Rated, Gained
<1>4. Fits
  BY DEF Init, Resting, Closed, NoUpdate, Fits, FitLocks, FitRate, FitSet, FitFlag, FitGain, Fresh
<1>5. Counted /\ Exhausted
  BY DEF Init, Resting, Closed, Counted, HeardOut, Exhausted
<1> QED BY <1>2, <1>3, <1>4, <1>5 DEF OutInv

LEMMA StepKeeps ==
  ASSUME OutInv, [Next]_vars
  PROVE  OutInv'
<1>1. CASE Begin
  BY <1>1, BeginKeeps
<1>2. CASE Playback
  BY <1>2, AgainKeeps, ExitKeeps, StoppedKeeps, DecodeKeeps, WritePacketKeeps, WriteBrokenKeeps,
     PushPartKeeps, PushFailsKeeps, LastPacketKeeps, DrainedKeeps, DrainCutKeeps, RebuildKeeps,
     PutSlotKeeps, RaiseFlagKeeps, AcceptedKeeps, RefusedKeeps, NotFoundKeeps, GiveUpKeeps
     DEF Playback
<1>3. CASE Play
  BY <1>3, PlayKeeps
<1>4. CASE Error
  BY <1>4, ErrorKeeps
<1>5. CASE Stop
  BY <1>5, StopKeeps
<1>6. CASE Learn
  BY <1>6, LearnKeeps
<1>7. CASE Updating
  BY <1>7, SetFiltersKeeps, BuildUpdateKeeps, FillSlotKeeps, SetFlagKeeps DEF Updating
<1>8. CASE UNCHANGED vars
  <2>1. Tries' = Tries /\ Fresh' = Fresh /\ Latest' = Latest
    BY <1>8 DEF vars, Tries, Fresh, Latest
  <2>2. Typed' /\ Phases'
    BY <1>8, <2>1 DEF vars, OutInv, Typed, Phases, Opened, Locked, Tried, Rated, Gained
  <2>3. FitLocks' /\ FitRate' /\ FitSet'
    BY <1>8, <2>1 DEF vars, OutInv, Fits, FitLocks, FitRate, FitSet
  <2>4. FitFlag' /\ FitGain'
    BY <1>8, <2>1 DEF vars, OutInv, Fits, FitFlag, FitGain, Active
  <2>5. Counted' /\ Exhausted'
    BY <1>8, <2>1 DEF vars, OutInv, Counted, HeardOut, Exhausted
  <2> QED BY <2>2, <2>3, <2>4, <2>5 DEF OutInv, Fits
<1> QED BY <1>1, <1>2, <1>3, <1>4, <1>5, <1>6, <1>7, <1>8 DEF Next

-----------------------------------------------------------------------------
(* What the runs check.                                                    *)

\* The inductive invariant holds in every reachable state, for every device and any
\* settings: what each stage of the thread holds, that the equaliser fits or an update
\* under way puts it right, that no sample is lost, and which rates have been tried.
THEOREM Invariant == Spec => []OutInv
<1>1. Init => OutInv
  BY InitHolds
<1>2. OutInv /\ [Next]_vars => OutInv'
  BY StepKeeps
<1> QED BY <1>1, <1>2, PTL DEF Spec

\* Types, for every device and any settings.
THEOREM TypeCorrect == Spec => []TypeOK
<1>1. OutInv => TypeOK
  <2> SUFFICES ASSUME OutInv PROVE TypeOK
    OBVIOUS
  <2>1. {pending, out.eq, update.eq, thread.eq} \subseteq [set : Filters, gain : Nat, rate : Nat]
    BY ThreadFacts DEF OutInv, Typed, Eqs
  <2>2. {stop, flag, held, out.open} \subseteq BOOLEAN /\ update.at \in {"Idle", "Build", "Slot", "Flag"}
    BY DEF OutInv, Typed
  <2>3. ring \in 0..Room /\ errors \in 0..Threshold
    BY DEF OutInv, Typed
  <2> QED BY <2>1, <2>2, <2>3, ThreadFacts DEF TypeOK
<1> QED BY <1>1, Invariant, PTL

\* Between updates, what plays goes through an equaliser that fits it (DspHandle).
THEOREM EqualiserKept == Spec => []EqualiserFits
<1>1. OutInv => EqualiserFits
  <2> SUFFICES ASSUME OutInv, Settled PROVE EqualiserFits
    BY DEF EqualiserFits
  <2>1. Fresh /\ Latest = out.eq /\ thread.at \notin {"Built", "Idle", "End"} /\ update.at = "Idle"
        /\ out.rate = thread.eq.rate
    BY DEF Settled, Fresh, Latest, OutInv, Phases, Opened, Rated
  <2>2. spoiled.skipped \/ out.eq.set = filters
    BY <2>1 DEF OutInv, Fits, FitSet
  <2>3. spoiled.skipped \/ spoiled.raced \/ Applied = out.eq \/ ~Active(out.eq)
    BY <2>1 DEF OutInv, Fits, FitFlag, Applied
  <2>4. spoiled.misfit \/ out.eq.rate = out.rate
    BY <2>1 DEF OutInv, Fits, FitRate
  <2>5. spoiled.raced \/ thread.song.kind = "Session" \/ out.eq.gain = thread.song.gain
    BY <2>1 DEF OutInv, Fits, FitGain, Phases, Gained
  <2> QED BY <2>2, <2>3, <2>4, <2>5 DEF EqualiserFits
<1> QED BY <1>1, Invariant, PTL

\* A song that ends by itself has been heard to its last sample (push_to_ring, drain).
THEOREM SongsHeardOut == Spec => []HeardOut
<1>1. OutInv => HeardOut
  BY DEF OutInv, Counted
<1> QED BY <1>1, Invariant, PTL

\* A song fails to open only when every usual rate the device claims has been refused
\* (AudioOutput::new, fallback_rate_candidates).
THEOREM AllRatesTried == Spec => []EveryRateTried
<1>1. OutInv => EveryRateTried
  <2> SUFFICES ASSUME OutInv, thread.at = "End", thread.result = "Failed", ~IsDsd(thread.song),
                      thread.try > 1, Resample(setup, thread.song) = NoRate,
                      NEW r \in Range(Standard), Claims(setup.claims, r),
                      NEW z \in 1..Sizes(setup, thread.song)
               PROVE  \E i \in 1..(thread.try - 1) : <<r, z>> = <<Tries[i].rate, Tries[i].size>>
    BY DEF EveryRateTried
  <2> DEFINE s == thread.song  new == New(setup, s, FALSE)
  <2>1. setup \in Setups /\ s \in Songs
    BY DEF OutInv, Typed, Songs
  <2>2. new \in Seq(Steps) /\ \E i \in DOMAIN new : new[i].rate = r /\ new[i].size = z
    <3>1. new \in Seq(Steps) /\ AllIn(new, setup, s)
      BY <2>1, NewFacts
    <3>2. z \in 1..Sizes(setup, s)
      OBVIOUS
    <3> HIDE DEF new, s
    <3> QED BY <3>1, <3>2 DEF AllIn
  <2>3. /\ Len(new) \in Nat /\ \A i \in 1..Len(new) : Tries[i] = new[i]
    BY TriesFacts
  <2>4. thread.try > Len(new) /\ thread.try \in Nat
    BY ThreadFacts DEF OutInv, Exhausted
  <2> HIDE DEF new, s
  <2>5. PICK i \in 1..Len(new) : new[i].rate = r /\ new[i].size = z
    BY <2>2
  <2>6. i \in 1..(thread.try - 1)
    BY <2>3, <2>4
  <2> QED BY <2>3, <2>5, <2>6
<1> QED BY <1>1, Invariant, PTL
=============================================================================
