-------------------------- MODULE AllocationProofs --------------------------
(***************************************************************************)
(* What the rules of one assessment rest on, for every policy and cost: the*)
(* sums and maxima they take, the cut line of a tier, and the tier that is *)
(* bought when only mandatory checks are.                                  *)
(***************************************************************************)
EXTENDS Allocation, Arithmetic

\* What the allocator expects a check to avert is an amount of money.
LEMMA BenefitIsNat ==
  ASSUME NEW h \in Vector, NEW k \in Tier PROVE Benefit(h, k) \in Nat
<1> DEFINE v == [a \in Axis |-> h[a] * Consequence[a] * CatchRate[k][a]]
<1>1. ASSUME NEW a \in Axis PROVE v[a] \in Nat
  <2>1. h[a] \in Nat /\ Consequence[a] \in Nat /\ CatchRate[k][a] \in Nat
    <3>1. CatchRate[k] \in [Axis -> Score] /\ h[a] \in Score
      BY AllocationAssumption DEF Vector
    <3>2. CatchRate[k][a] \in Score /\ Score \subseteq Nat
      BY <3>1 DEF Score
    <3> QED BY <3>1, <3>2, AllocationAssumption
  <2>2. h[a] * Consequence[a] \in Nat
    BY <2>1, ProductIsNat
  <2> QED BY <2>1, <2>2, ProductIsNat
<1>2. \E g : SumsUp(g, v, Axis)
  BY AllocationAssumption, SumExists
<1> DEFINE Adds(g) == g = [s \in SUBSET Axis |-> IF s = {} THEN 0
             ELSE h[CHOOSE x \in s : TRUE] * Consequence[CHOOSE x \in s : TRUE]
                    * CatchRate[k][CHOOSE x \in s : TRUE]
                  + g[s \ {CHOOSE x \in s : TRUE}]]
           e == CHOOSE g : Adds(g)
<1>3. Benefit(h, k) = e[Axis]
  BY DEF Benefit, MapThenSumSet, MapThenFoldSet
<1>4. \A g : SumsUp(g, v, Axis) <=> Adds(g)
  <2>1. \A s \in SUBSET Axis : s # {} => Some(s) \in Axis
    BY DEF Some
  <2> QED BY <2>1 DEF SumsUp, Some
<1> HIDE DEF Adds, v
<1>5. SumsUp(e, v, Axis)
  BY <1>2, <1>4
<1> HIDE DEF e
<1>6. e[Axis] \in Nat
  BY <1>1, <1>5, AllocationAssumption, SumIsNat
<1> QED BY <1>3, <1>6

\* A sum of terms of at most c.
LEMMA SumAtMost ==
  ASSUME NEW S, IsFiniteSet(S), NEW c \in Nat, NEW v,
         \A x \in S : v[x] \in Nat /\ v[x] <= c, NEW g, SumsUp(g, v, S)
  PROVE  \A s \in SUBSET S : g[s] <= c * Cardinality(s)
<1>1. /\ g[{}] = 0
      /\ \A s \in SUBSET S : g[s] \in Int
      /\ \A s \in SUBSET S : \A x \in s : g[s] = v[x] + g[s \ {x}]
  BY SumFacts
<1> DEFINE P == {s \in SUBSET S : g[s] <= c * Cardinality(s)}
<1>2. ASSUME NEW s \in SUBSET S, \A u \in SUBSET s : u # s => u \in P PROVE s \in P
  <2>1. CASE s = {}
    BY <1>1, <2>1, FS_EmptySet
  <2>2. CASE s # {}
    <3>1. PICK x \in s : TRUE
      BY <2>2
    <3> DEFINE u == s \ {x}
               k == Cardinality(u)
    <3>2. IsFiniteSet(s) /\ IsFiniteSet(u)
      BY FS_Subset
    <3>3. k \in Nat /\ Cardinality(s) = k + 1
      <4>1. Cardinality(u) = IF x \in s THEN Cardinality(s) - 1 ELSE Cardinality(s)
        BY <3>2, FS_RemoveElement
      <4>2. Cardinality(s) \in Nat /\ Cardinality(u) \in Nat
        BY <3>2, FS_CardinalityType
      <4> QED BY <4>1, <4>2
    <3>4. g[u] <= c * k /\ g[s] = v[x] + g[u] /\ v[x] <= c /\ v[x] \in Int /\ g[u] \in Int
      <4>1. u \in SUBSET s /\ u # s
        BY <3>1
      <4>2. u \in P
        BY <1>2, <4>1
      <4>3. g[s] = v[x] + g[s \ {x}] /\ x \in S
        BY <1>1, <3>1
      <4> QED BY <1>1, <4>2, <4>3
    <3> HIDE DEF u, k
    <3>5. c * (k + 1) = c * k + c
      BY <3>3
    <3>6. c * k \in Int
      BY <3>3
    <3> DEFINE w == c * k
    <3>7. g[s] <= w + c
      <4> HIDE DEF w, P
      <4>1. g[u] <= w /\ w \in Int
        BY <3>4, <3>6 DEF w
      <4> QED BY <3>4, <4>1
    <3> QED BY <3>3, <3>5, <3>7
  <2> QED BY <2>1, <2>2
<1>3. SUBSET S \subseteq P
  <2> HIDE DEF P
  <2> QED BY <1>2, SubsetInduction
<1> QED BY <1>3

LEMMA BlendBounds ==
  ASSUME NEW m \in 0..100, NEW n \in Nat \ {0}, NEW t \in Nat, t <= 100 * n
  PROVE  (72 * m * n + 28 * t) \div (100 * n) \in 0..100
<1> DEFINE d == 100 * n
           q == 72 * m * n + 28 * t
<1>1. m * n \in Nat /\ m * n <= 100 * n
  <2>1. m * n \in Nat
    BY ProductIsNat
  <2>2. (100 - m) * n \in Nat
    <3>1. 100 - m \in Nat
      OBVIOUS
    <3> QED BY <3>1, ProductIsNat
  <2>3. (100 - m) * n = 100 * n - m * n
    OBVIOUS
  <2> QED BY <2>1, <2>2, <2>3
<1>2. 72 * m * n = 72 * (m * n)
  OBVIOUS
<1>3. d \in Nat \ {0} /\ q \in Nat /\ q <= 100 * d
  <2> DEFINE w == m * n
  <2>1. w \in Nat /\ w <= 100 * n /\ q = 72 * w + 28 * t
    BY <1>1, <1>2
  <2> HIDE DEF w, q
  <2> QED BY <2>1
<1> HIDE DEF d, q
<1>4. q \div d \in 0..100
  BY <1>3, Z3
<1> QED BY <1>4 DEF d, q

\* The detectors' scores blend to a score.
LEMMA CombineIsVector ==
  ASSUME NEW n \in Nat \ {0}, NEW signals \in [1..n -> Vector], NEW regime
  PROVE  Combine(signals, regime) \in Vector
<1>1. ASSUME NEW a \in Axis PROVE Blend(signals, a) \in Score
  <2> DEFINE v == [i \in 1..n |-> signals[i][a]]
             Adds(g) == g = [s \in SUBSET DOMAIN signals |-> IF s = {} THEN 0
               ELSE signals[CHOOSE i \in s : TRUE][a] + g[s \ {CHOOSE i \in s : TRUE}]]
             e == CHOOSE g : Adds(g)
             total == e[DOMAIN signals]
             m == Max({signals[i][a] : i \in 1..n})
  <2>1. ASSUME NEW i \in 1..n PROVE v[i] \in 0..100 /\ v[i] = signals[i][a]
    <3>1. signals[i] \in Vector
      OBVIOUS
    <3> QED BY <3>1 DEF Vector, Score
  <2>2. IsFiniteSet(1..n) /\ Cardinality(1..n) = n
    <3>1. 1 \in Int /\ n \in Int /\ n - 1 + 1 = n /\ ~(1 > n)
      OBVIOUS
    <3>2. IsFiniteSet(1..n) /\ Cardinality(1..n) = IF 1 > n THEN 0 ELSE n - 1 + 1
      BY <3>1, FS_Interval, Zenon
    <3> QED BY <3>1, <3>2
  <2>3. Blend(signals, a) = (72 * m * n + 28 * total) \div (100 * n)
    BY <2>2 DEF Blend, MapThenSumSet, MapThenFoldSet
  <2>4. \A g : SumsUp(g, v, 1..n) <=> Adds(g)
    <3>1. \A s \in SUBSET (1..n) : s # {} => Some(s) \in 1..n
      BY DEF Some
    <3> QED BY <3>1 DEF SumsUp, Some
  <2>5. \E g : SumsUp(g, v, 1..n)
    BY <2>2, SumExists
  <2> HIDE DEF Adds
  <2>6. SumsUp(e, v, 1..n)
    BY <2>4, <2>5
  <2> HIDE DEF e
  <2>7. total = e[1..n]
    OBVIOUS
  <2> DEFINE D == 1..n
  <2>8. \A i \in D : v[i] \in Nat /\ v[i] <= 100
    <3>1. \A x \in 0..100 : x \in Nat /\ x <= 100
      OBVIOUS
    <3>2. \A i \in D : v[i] \in 0..100
      BY <2>1
    <3> HIDE DEF v, D
    <3> QED BY <3>1, <3>2
  <2>9. total \in Nat /\ total <= 100 * n
    <3>1. IsFiniteSet(D) /\ SumsUp(e, v, D) /\ D \in SUBSET D /\ Cardinality(D) = n
      BY <2>2, <2>6
    <3>2. total = e[D]
      BY <2>7
    <3> HIDE DEF v, D, total
    <3>3. e[D] \in Nat
      BY <2>8, <3>1, SumIsNat
    <3>4. e[D] <= 100 * Cardinality(D)
      <4>1. 100 \in Nat
        OBVIOUS
      <4> QED BY <2>8, <3>1, <4>1, SumAtMost
    <3> QED BY <3>1, <3>2, <3>3, <3>4
  <2>10. m \in 0..100
    <3> DEFINE S == {signals[i][a] : i \in 1..n}
    <3>1. S \subseteq 0..100 /\ S # {}
      <4>1. 1 \in 1..n
        OBVIOUS
      <4> QED BY <2>1, <4>1
    <3>2. S \in SUBSET Int /\ IsFiniteSet(S)
      <4>1. 0 \in Int /\ 100 \in Int
        OBVIOUS
      <4>2. IsFiniteSet(0..100)
        BY <4>1, FS_Interval
      <4> HIDE DEF S
      <4>3. IsFiniteSet(S)
        BY <3>1, <4>2, FS_Subset
      <4>4. 0..100 \subseteq Int
        OBVIOUS
      <4> QED BY <3>1, <4>3, <4>4
    <3> HIDE DEF S
    <3> QED BY <3>1, <3>2, MaxOfFinite DEF S
  <2> HIDE DEF m, total
  <2> QED BY <2>3, <2>9, <2>10, BlendBounds, SMTT(30), ZenonT(30) DEF Score
<1>2. ASSUME NEW b \in Score PROVE Max({38, b}) \in Score
  <2>1. b \in Int /\ 38 \in Int
    BY DEF Score
  <2>2. \E p \in {38, b} : \A q \in {38, b} : p >= q
    <3>1. CASE b >= 38
      BY <2>1, <3>1
    <3>2. CASE ~(b >= 38)
      BY <2>1, <3>2
    <3> QED BY <3>1, <3>2
  <2> QED BY <2>2 DEF Max, Score
<1> QED BY <1>1, <1>2 DEF Combine, Vector

-----------------------------------------------------------------------------
(* What is bought.                                                          *)

\* What is bought is a tier or nothing, and nothing only if nothing is worth
\* its price.
LEMMA BestIsATier ==
  ASSUME NEW h, NEW e, NEW price
  PROVE  /\ Best(h, e, price) \in {NoTier, 0, 1, 2}
         /\ Best(h, e, price) = NoTier => Affordable(h, e, price) = {}
<1>1. Best(h, e, price) \in {NoTier, 0, 1, 2}
  BY DEF Best, Better
<1>2. Affordable(h, e, price) \subseteq {0, 1, 2}
  BY DEF Affordable, Tier
<1>3. Best(h, e, price) = NoTier => Affordable(h, e, price) = {}
  BY <1>2 DEF Best, Better, NoTier
<1> QED BY <1>1, <1>3

-----------------------------------------------------------------------------
(* Degraded work.  The cut line of a tier is the least price at which the   *)
(* tier is not worth its cost, and a degraded turn pays the highest of all. *)

LEMMA LargestOfTwo ==
  ASSUME NEW a \in Int, NEW b \in Int
  PROVE  Max({a, b}) \in Int /\ Max({a, b}) >= a /\ Max({a, b}) >= b
<1>1. \E x \in {a, b} : \A y \in {a, b} : x >= y
  <2>1. CASE a >= b
    BY <2>1
  <2>2. CASE ~(a >= b)
    BY <2>2
  <2> QED BY <2>1, <2>2
<1> QED BY <1>1 DEF Max

LEMMA LargestIsEither ==
  ASSUME NEW a \in Int, NEW b \in Int PROVE Max({a, b}) \in {a, b}
<1>1. \E x \in {a, b} : \A y \in {a, b} : x >= y
  <2>1. CASE a >= b
    BY <2>1
  <2>2. CASE ~(a >= b)
    BY <2>2
  <2> QED BY <2>1, <2>2
<1> QED BY <1>1 DEF Max

LEMMA LargestOfFour ==
  ASSUME NEW a \in Int, NEW b \in Int, NEW c \in Int, NEW d \in Int
  PROVE  LET m == Max({a, b, c, d})
         IN  m \in Int /\ m >= a /\ m >= b /\ m >= c /\ m >= d
<1> DEFINE S == {a, b, c, d}
<1>1. PICK x \in {a, b} : x >= a /\ x >= b
  <2>1. CASE a >= b
    BY <2>1
  <2>2. CASE ~(a >= b)
    BY <2>2
  <2> QED BY <2>1, <2>2
<1>2. PICK y \in {c, d} : y >= c /\ y >= d
  <2>1. CASE c >= d
    BY <2>1
  <2>2. CASE ~(c >= d)
    BY <2>2
  <2> QED BY <2>1, <2>2
<1>3. \E z \in S : \A w \in S : z >= w
  <2>1. CASE x >= y
    BY <1>1, <1>2, <2>1
  <2>2. CASE ~(x >= y)
    BY <1>1, <1>2, <2>2
  <2> QED BY <2>1, <2>2
<1>4. Max(S) \in S /\ \A w \in S : Max(S) >= w
  BY <1>3 DEF Max
<1> QED BY <1>4

\* A quotient's product with its divisor: the dividend is less than one more.
LEMMA QuotientBound ==
  ASSUME NEW n \in Int, NEW d \in Nat \ {0}
  PROVE  n \div d \in Int /\ n < (n \div d + 1) * d
BY Z3

\* The cut line of a tier is an integer above benefit / cost - 1.
LEMMA CutLineIsAbove ==
  ASSUME NEW h, NEW e \in Effect \cup {NoEffect}, NEW k \in Tier, Benefit(h, k) \in Int
  PROVE  /\ CutLine(h, e, k) \in Int
         /\ CutLine(h, e, k) >= (100 * Benefit(h, k) - 100 * Cost[k][e]) \div Cost[k][e] + 1
<1> DEFINE n == 100 * Benefit(h, k) - 100 * Cost[k][e]
           q == n \div Cost[k][e]
<1>1. n \in Int /\ Cost[k][e] \in Nat \ {0}
  BY AllocationAssumption
<1>2. CutLine(h, e, k) = Max({0, q + 1})
  BY DEF CutLine
<1>3. q \in Int
  BY <1>1, QuotientBound
<1> HIDE DEF q
<1>4. 0 \in Int /\ q + 1 \in Int
  BY <1>3
<1>5. Max({0, q + 1}) \in Int /\ Max({0, q + 1}) >= q + 1
  BY <1>4, LargestOfTwo, Zenon
<1> QED BY <1>2, <1>5 DEF q

\* A tier whose cut line the price reaches is not worth its cost.
LEMMA CutLinePricesOut ==
  ASSUME NEW h, NEW e \in Effect \cup {NoEffect}, NEW k \in Tier,
         Benefit(h, k) \in Int, NEW price \in Int, price >= CutLine(h, e, k)
  PROVE  ~(NetValue(h, e, price, k) > 0)
<1> DEFINE b == Benefit(h, k)
           c == Cost[k][e]
           n == 100 * b - 100 * c
           q == n \div c
<1>1. c \in Nat \ {0} /\ b \in Int /\ n \in Int
  BY AllocationAssumption
<1>2. q \in Int /\ n < (q + 1) * c
  BY <1>1, QuotientBound
<1>3. price >= q + 1
  BY <1>2, CutLineIsAbove
<1> HIDE DEF q, c, b
<1>4. (q + 1) * c <= price * c
  BY <1>1, <1>2, <1>3
<1>5. 100 * b - (100 + price) * c <= 0
  BY <1>1, <1>2, <1>4
<1>6. NetValue(h, e, price, k) = 100 * b - (100 + price) * c
  BY DEF NetValue, b, c
<1> QED BY <1>1, <1>5, <1>6

\* At the degraded price nothing is affordable.
LEMMA NothingAffordable ==
  ASSUME NEW h, NEW e \in Effect \cup {NoEffect}, NEW price \in Int,
         \A k \in Tier : Benefit(h, k) \in Int
  PROVE  Affordable(h, e, MandatoryOnlyPrice(h, e, price)) = {}
<1> DEFINE line(k) == CutLine(h, e, k)
           m == MandatoryOnlyPrice(h, e, price)
<1>1. Tier = {0, 1, 2}
  BY DEF Tier
<1>2. \A k \in Tier : line(k) \in Int
  BY CutLineIsAbove
<1>3. {price} \cup {line(k) : k \in Tier} = {price, line(0), line(1), line(2)}
  BY <1>1
<1>4. m = Max({price, line(0), line(1), line(2)})
  BY <1>3 DEF MandatoryOnlyPrice
<1>5. line(0) \in Int /\ line(1) \in Int /\ line(2) \in Int
  BY <1>1, <1>2
<1> HIDE DEF line, m
<1>6. m \in Int /\ m >= line(0) /\ m >= line(1) /\ m >= line(2)
  BY <1>4, <1>5, LargestOfFour, Zenon
<1>7. ASSUME NEW k \in Tier
      PROVE  ~(NetValue(h, e, m, k) > 0)
  <2>1. m >= line(k)
    BY <1>1, <1>6
  <2> QED BY <1>6, <2>1, CutLinePricesOut DEF line
<1> QED BY <1>7 DEF Affordable, m
=============================================================================
