----------------------------- MODULE Arithmetic -----------------------------
(***************************************************************************)
(* Facts that the other proofs cite: maxima, counting and sums over finite *)
(* sets, recursive functions and folds, and fractions in lowest terms.     *)
(***************************************************************************)
EXTENDS Ratio, FiniteSetTheorems, WellFoundedInduction, TLAPS

-----------------------------------------------------------------------------
(* Finite sets and the sums over them.                                      *)

\* A set of subsets that has every set whose smaller subsets it has, has all.
LEMMA SubsetInduction ==
  ASSUME NEW S, IsFiniteSet(S), NEW P,
         \A s \in SUBSET S : (\A u \in SUBSET s : u # s => u \in P) => s \in P
  PROVE  SUBSET S \subseteq P
<1> DEFINE R == StrictSubsetOrdering(S)
           T == (SUBSET S) \ P
<1> SUFFICES ASSUME T # {} PROVE FALSE
  OBVIOUS
<1>1. IsWellFoundedOn(R, FiniteSubsetsOf(S))
  BY FS_StrictSubsetOrderingWellFounded
<1>2. T \subseteq FiniteSubsetsOf(S)
  BY FS_Subset DEF FiniteSubsetsOf
<1>3. PICK s \in T : \A u \in T : ~(<<u, s>> \in R)
  <2> HIDE DEF R, T
  <2> QED BY <1>1, <1>2, WFMin
<1>4. ASSUME NEW u \in SUBSET s, u # s PROVE u \in P
  <2>1. <<u, s>> \in R
    BY <1>4 DEF StrictSubsetOrdering
  <2> QED BY <1>3, <1>4, <2>1
<1> QED BY <1>3, <1>4

\* A finite set that is ordered has a first element.
LEMMA FirstOfOrder ==
  ASSUME NEW S, IsFiniteSet(S), S # {}, NEW R,
         \A x, y \in S : x # y => <<x, y>> \in R \/ <<y, x>> \in R,
         \A x, y, z \in S : <<x, y>> \in R /\ <<y, z>> \in R => <<x, z>> \in R
  PROVE  \E m \in S : \A y \in S : y # m => <<m, y>> \in R
<1> DEFINE P == {s \in SUBSET S : s # {} => \E m \in s : \A y \in s : y # m => <<m, y>> \in R}
<1>1. ASSUME NEW s \in SUBSET S, \A u \in SUBSET s : u # s => u \in P PROVE s \in P
  <2>1. CASE s = {}
    BY <2>1
  <2>2. CASE s # {}
    <3>1. PICK x \in s : TRUE
      BY <2>2
    <3>2. CASE s = {x}
      BY <3>2
    <3>3. CASE s # {x}
      <4>1. s \ {x} \in P /\ s \ {x} # {}
        BY <1>1, <3>1, <3>3, SMTT(30), ZenonT(30)
      <4>2. PICK m \in s \ {x} : \A y \in s \ {x} : y # m => <<m, y>> \in R
        BY <4>1
      <4>3. CASE <<x, m>> \in R
        <5>1. \A y \in s : y # x => <<x, y>> \in R
          BY <4>2, <4>3
        <5> QED BY <3>1, <5>1
      <4>4. CASE <<m, x>> \in R
        BY <4>2, <4>4
      <4> QED BY <3>1, <4>2, <4>3, <4>4
    <3> QED BY <3>2, <3>3
  <2> QED BY <2>1, <2>2
<1>2. SUBSET S \subseteq P
  <2> HIDE DEF P
  <2> QED BY <1>1, SubsetInduction
<1> QED BY <1>2

\* The largest and the least of finitely many integers.
LEMMA MaxOfFinite ==
  ASSUME NEW S \in SUBSET Int, IsFiniteSet(S), S # {}
  PROVE  Max(S) \in S /\ \A y \in S : Max(S) >= y
<1> DEFINE R == {p \in S \X S : p[1] >= p[2]}
<1>1. \A x, y \in S : <<x, y>> \in R <=> x >= y
  OBVIOUS
<1> HIDE DEF R
<1>2. /\ \A x, y \in S : x # y => <<x, y>> \in R \/ <<y, x>> \in R
      /\ \A x, y, z \in S : <<x, y>> \in R /\ <<y, z>> \in R => <<x, z>> \in R
  BY <1>1
<1>3. PICK m \in S : \A y \in S : y # m => <<m, y>> \in R
  BY <1>2, FirstOfOrder, SMTT(30), ZenonT(30)
<1>4. ASSUME NEW y \in S PROVE m >= y
  <2>1. CASE y = m
    BY <2>1
  <2>2. CASE y # m
    BY <1>1, <1>3, <2>2
  <2> QED BY <2>1, <2>2
<1> QED BY <1>4 DEF Max

LEMMA MinOfFinite ==
  ASSUME NEW S \in SUBSET Int, IsFiniteSet(S), S # {}
  PROVE  Min(S) \in S /\ \A y \in S : Min(S) <= y
<1> DEFINE R == {p \in S \X S : p[1] <= p[2]}
<1>1. \A x, y \in S : <<x, y>> \in R <=> x <= y
  OBVIOUS
<1> HIDE DEF R
<1>2. /\ \A x, y \in S : x # y => <<x, y>> \in R \/ <<y, x>> \in R
      /\ \A x, y, z \in S : <<x, y>> \in R /\ <<y, z>> \in R => <<x, z>> \in R
  BY <1>1
<1>3. PICK m \in S : \A y \in S : y # m => <<m, y>> \in R
  BY <1>2, FirstOfOrder, SMTT(30), ZenonT(30)
<1>4. ASSUME NEW y \in S PROVE m <= y
  <2>1. CASE y = m
    BY <2>1
  <2>2. CASE y # m
    BY <1>1, <1>3, <2>2
  <2> QED BY <2>1, <2>2
<1> QED BY <1>4 DEF Min

\* A set that has 0 and with any number the next has every natural number.
LEMMA UpwardInduction ==
  ASSUME NEW P, 0 \in P, \A n \in Nat : n \in P => n + 1 \in P
  PROVE  Nat \subseteq P
<1> SUFFICES ASSUME NEW n \in Nat, n \notin P PROVE FALSE
  OBVIOUS
<1> DEFINE B == {k \in 0..n : k \notin P}
<1>1. B \in SUBSET Int /\ B \subseteq 0..n /\ n \in B
  OBVIOUS
<1>2. IsFiniteSet(B)
  <2>1. 0 \in Int /\ n \in Int
    OBVIOUS
  <2>2. IsFiniteSet(0..n)
    BY <2>1, FS_Interval
  <2> HIDE DEF B
  <2> QED BY <1>1, <2>2, FS_Subset
<1>3. PICK m \in B : \A y \in B : m <= y
  <2> HIDE DEF B
  <2>1. Min(B) \in B /\ \A y \in B : Min(B) <= y
    BY <1>1, <1>2, MinOfFinite
  <2> QED BY <2>1
<1>4. m # 0 /\ m - 1 \in 0..n /\ m - 1 \notin B
  BY <1>3
<1>5. m - 1 \in Nat /\ m - 1 \in P
  BY <1>4
<1>6. (m - 1) + 1 \in P
  BY <1>5
<1> QED BY <1>3, <1>6

\* g sums up v over the subsets of S, the way the folds of the library do.
Some(s) == CHOOSE x \in s : TRUE
SumsUp(g, v, S) ==
  g = [s \in SUBSET S |-> IF s = {} THEN 0 ELSE v[Some(s)] + g[s \ {Some(s)}]]

\* There is such a g: on the subsets of at most n elements, for every n.
LEMMA SumExists ==
  ASSUME NEW S, IsFiniteSet(S), NEW v
  PROVE  \E g : SumsUp(g, v, S)
<1> DEFINE D(n) == {s \in SUBSET S : Cardinality(s) <= n}
           body(g, s) == IF s = {} THEN 0 ELSE v[Some(s)] + g[s \ {Some(s)}]
           Sums(g, n) == g = [s \in D(n) |-> body(g, s)]
           P == {n \in Nat : n <= Cardinality(S) => \E g : Sums(g, n)}
<1>1. \A s \in SUBSET S : /\ IsFiniteSet(s) /\ Cardinality(s) \in Nat
                        /\ Cardinality(s) <= Cardinality(S)
  BY FS_Subset, FS_CardinalityType
<1>2. Cardinality(S) \in Nat
  BY FS_CardinalityType
<1>3. \A s \in SUBSET S : s # {} => /\ Some(s) \in s
                                    /\ Cardinality(s \ {Some(s)}) = Cardinality(s) - 1
  BY <1>1, FS_RemoveElement DEF Some
<1>4. \A s \in SUBSET S : Cardinality(s) = 0 <=> s = {}
  BY <1>1, FS_EmptySet
<1>5. 0 \in P
  <2> DEFINE g == [s \in D(0) |-> 0]
  <2>1. Sums(g, 0)
    BY <1>1, <1>4
  <2> HIDE DEF g, Sums
  <2> QED BY <2>1
<1>6. ASSUME NEW n \in Nat, n + 1 <= Cardinality(S), NEW g, Sums(g, n)
      PROVE  n + 1 \in P
  <2> DEFINE h == [s \in D(n + 1) |-> body(g, s)]
  <2>1. \A s \in D(n) : s \in D(n + 1)
    BY <1>1
  <2>2. \A s \in D(n) : h[s] = g[s]
    <3>1. \A s \in D(n) : g[s] = body(g, s)
      <4> HIDE DEF body, D
      <4> QED BY <1>6
    <3> HIDE DEF body, D
    <3> QED BY <2>1, <3>1
  <2>3. \A s \in D(n + 1) : s # {} => s \ {Some(s)} \in D(n)
    BY <1>1, <1>3
  <2>4. \A s \in D(n + 1) : body(g, s) = body(h, s)
    <3> HIDE DEF h, D
    <3> QED BY <2>2, <2>3
  <2>5. Sums(h, n + 1)
    <3> HIDE DEF body, D
    <3> QED BY <2>4
  <2> HIDE DEF Sums, h
  <2> QED BY <2>5
<1>7. Nat \subseteq P
  <2>1. ASSUME NEW n \in Nat, n \in P PROVE n + 1 \in P
    <3> SUFFICES ASSUME n + 1 <= Cardinality(S) PROVE n + 1 \in P
      <4> HIDE DEF Sums
      <4> QED OBVIOUS
    <3>1. n <= Cardinality(S)
      BY <1>2
    <3>2. PICK g : Sums(g, n)
      <4> HIDE DEF Sums
      <4> QED BY <2>1, <3>1
    <3> HIDE DEF P
    <3> QED BY <1>6, <3>2
  <2> HIDE DEF P
  <2> QED BY <1>5, <2>1, UpwardInduction
<1>8. PICK g : Sums(g, Cardinality(S))
  <2> HIDE DEF Sums
  <2> QED BY <1>2, <1>7
<1>9. D(Cardinality(S)) = SUBSET S
  BY <1>1
<1>10. SumsUp(g, v, S)
  <2> HIDE DEF D
  <2> QED BY <1>8, <1>9 DEF SumsUp
<1> QED BY <1>10

\* A sum of integers is an integer, and does not depend on who was added first.
LEMMA SumFacts ==
  ASSUME NEW S, IsFiniteSet(S), NEW v, \A x \in S : v[x] \in Int,
         NEW g, SumsUp(g, v, S)
  PROVE  /\ g[{}] = 0
         /\ \A s \in SUBSET S : g[s] \in Int
         /\ \A s \in SUBSET S : \A x \in s : g[s] = v[x] + g[s \ {x}]
<1>1. \A s \in SUBSET S : g[s] = IF s = {} THEN 0 ELSE v[Some(s)] + g[s \ {Some(s)}]
  BY DEF SumsUp
<1>2. \A s \in SUBSET S : s # {} => Some(s) \in s
  BY DEF Some
<1>3. g[{}] = 0
  BY <1>1
<1> DEFINE P == {s \in SUBSET S : /\ g[s] \in Int
                                  /\ \A x \in s : g[s] = v[x] + g[s \ {x}]}
<1>4. ASSUME NEW s \in SUBSET S, \A u \in SUBSET s : u # s => u \in P PROVE s \in P
  <2>1. CASE s = {}
    BY <1>3, <2>1
  <2>2. CASE s # {}
    <3> DEFINE c == Some(s)
               w == s \ {c}
    <3>1. c \in s /\ g[s] = v[c] + g[w] /\ w \in P
      BY <1>1, <1>2, <1>4, <2>2
    <3>2. g[s] \in Int
      BY <3>1
    <3> HIDE DEF c
    <3>3. ASSUME NEW x \in s, x # c PROVE g[s] = v[x] + g[s \ {x}]
      <4>1. g[w] = v[x] + g[w \ {x}]
        BY <3>1, <3>3
      <4>2. s \ {x} \in P /\ c \in s \ {x}
        BY <1>4, <3>1, <3>3
      <4>3. g[s \ {x}] = v[c] + g[(s \ {x}) \ {c}]
        BY <4>2
      <4>4. (s \ {x}) \ {c} = w \ {x}
        OBVIOUS
      <4>5. v[c] \in Int /\ v[x] \in Int /\ g[w \ {x}] \in Int
        BY <1>4, <3>1, <3>3
      <4>6. g[s] = v[c] + (v[x] + g[w \ {x}])
        BY <3>1, <4>1
      <4>7. g[s \ {x}] = v[c] + g[w \ {x}]
        BY <4>3, <4>4
      <4> HIDE DEF w, P
      <4> QED BY <4>5, <4>6, <4>7
    <3>4. \A x \in s : g[s] = v[x] + g[s \ {x}]
      BY <3>1, <3>3
    <3> QED BY <3>2, <3>4
  <2> QED BY <2>1, <2>2
<1>5. SUBSET S \subseteq P
  <2> HIDE DEF P
  <2> QED BY <1>4, SubsetInduction
<1> QED BY <1>3, <1>5

LEMMA SumIsNat ==
  ASSUME NEW S, IsFiniteSet(S), NEW v, \A x \in S : v[x] \in Nat,
         NEW g, SumsUp(g, v, S)
  PROVE  \A s \in SUBSET S : g[s] \in Nat
<1>1. \A s \in SUBSET S : g[s] = IF s = {} THEN 0 ELSE v[Some(s)] + g[s \ {Some(s)}]
  BY DEF SumsUp
<1>2. \A s \in SUBSET S : s # {} => Some(s) \in s
  BY DEF Some
<1> DEFINE P == {s \in SUBSET S : g[s] \in Nat}
<1>3. ASSUME NEW s \in SUBSET S, \A u \in SUBSET s : u # s => u \in P PROVE s \in P
  <2>1. CASE s = {}
    BY <1>1, <2>1
  <2>2. CASE s # {}
    <3>1. Some(s) \in s /\ s \ {Some(s)} \in P
      BY <1>2, <1>3, <2>2
    <3>2. v[Some(s)] \in Nat /\ g[s \ {Some(s)}] \in Nat
      BY <3>1
    <3> QED BY <1>1, <2>2, <3>2
  <2> QED BY <2>1, <2>2
<1>4. SUBSET S \subseteq P
  <2> HIDE DEF P
  <2> QED BY <1>3, SubsetInduction
<1> QED BY <1>4

\* Sums that add up the same terms are the same.
LEMMA SumsAgree ==
  ASSUME NEW T, IsFiniteSet(T), NEW S \in SUBSET T, NEW v, NEW w, \A x \in S : v[x] = w[x],
         NEW g, SumsUp(g, v, S), NEW h, SumsUp(h, w, T)
  PROVE  \A s \in SUBSET S : g[s] = h[s]
<1>1. /\ \A s \in SUBSET S : g[s] = IF s = {} THEN 0 ELSE v[Some(s)] + g[s \ {Some(s)}]
      /\ \A s \in SUBSET T : h[s] = IF s = {} THEN 0 ELSE w[Some(s)] + h[s \ {Some(s)}]
  BY DEF SumsUp
<1>2. \A s \in SUBSET S : s # {} => Some(s) \in s
  BY DEF Some
<1> DEFINE P == {s \in SUBSET S : g[s] = h[s]}
<1>3. ASSUME NEW s \in SUBSET S, \A u \in SUBSET s : u # s => u \in P PROVE s \in P
  <2>1. CASE s = {}
    BY <1>1, <2>1
  <2>2. CASE s # {}
    <3>1. Some(s) \in s /\ s \ {Some(s)} \in P
      BY <1>2, <1>3, <2>2
    <3> QED BY <1>1, <2>2, <3>1
  <2> QED BY <2>1, <2>2
<1>4. IsFiniteSet(S)
  BY FS_Subset
<1>5. SUBSET S \subseteq P
  <2> HIDE DEF P
  <2> QED BY <1>3, <1>4, SubsetInduction
<1> QED BY <1>5

\* The sum of v over S.
SumOf(v, S) == (CHOOSE g : SumsUp(g, v, S))[S]

LEMMA SumOfSame ==
  ASSUME NEW S, IsFiniteSet(S), NEW v, NEW w, \A x \in S : v[x] = w[x]
  PROVE  SumOf(v, S) = SumOf(w, S)
<1> DEFINE g == CHOOSE f : SumsUp(f, v, S)
           h == CHOOSE f : SumsUp(f, w, S)
<1>1. SumsUp(g, v, S) /\ SumsUp(h, w, S)
  BY SumExists
<1> HIDE DEF g, h
<1>2. g[S] = h[S]
  BY <1>1, SumsAgree
<1> QED BY <1>2 DEF SumOf, g, h

LEMMA SumOfNone == ASSUME NEW v PROVE SumOf(v, {}) = 0
<1> DEFINE g == CHOOSE f : SumsUp(f, v, {})
<1>1. SumsUp(g, v, {})
  BY SumExists, FS_EmptySet
<1> HIDE DEF g
<1>2. g[{}] = 0
  BY <1>1 DEF SumsUp
<1> QED BY <1>2 DEF SumOf, g

LEMMA SumOfMore ==
  ASSUME NEW S, IsFiniteSet(S), NEW v, NEW x, x \notin S,
         \A y \in S \cup {x} : v[y] \in Int
  PROVE  /\ SumOf(v, S) \in Int
         /\ SumOf(v, S \cup {x}) = v[x] + SumOf(v, S)
<1> DEFINE T == S \cup {x}
           g == CHOOSE f : SumsUp(f, v, S)
           h == CHOOSE f : SumsUp(f, v, T)
<1>1. IsFiniteSet(T)
  BY FS_AddElement
<1>2. SumsUp(g, v, S) /\ SumsUp(h, v, T)
  <2> HIDE DEF T
  <2> QED BY <1>1, SumExists
<1>3. SumOf(v, S) = g[S] /\ SumOf(v, T) = h[T]
  BY DEF SumOf
<1>4. S \in SUBSET T /\ T \in SUBSET T /\ x \in T /\ T \ {x} = S /\ \A y \in T : v[y] \in Int
  OBVIOUS
<1> HIDE DEF T, g, h
<1>5. g[S] = h[S]
  BY <1>1, <1>2, <1>4, SumsAgree
<1>6. h[T] = v[x] + h[T \ {x}] /\ h[S] \in Int
  BY <1>1, <1>2, <1>4, SumFacts
<1> QED BY <1>3, <1>4, <1>5, <1>6 DEF T

\* A set that has the empty set and grows by any element has every finite set.
LEMMA GrowingSets ==
  ASSUME NEW S, IsFiniteSet(S), NEW P, {} \in P,
         \A s \in SUBSET S : \A x \in S \ s : s \in P => s \cup {x} \in P
  PROVE  S \in P
<1>1. ASSUME NEW s \in SUBSET S, \A u \in SUBSET s : u # s => u \in P PROVE s \in P
  <2>1. CASE s # {}
    <3>1. PICK x \in s : TRUE
      BY <2>1
    <3>2. s \ {x} \in P /\ s = (s \ {x}) \cup {x} /\ x \in S \ (s \ {x}) /\ s \ {x} \in SUBSET S
      BY <1>1, <3>1
    <3> QED BY <3>2
  <2> QED BY <2>1
<1> QED BY <1>1, SubsetInduction

LEMMA SumOfInts ==
  ASSUME NEW S, IsFiniteSet(S), NEW v, \A y \in S : v[y] \in Int
  PROVE  SumOf(v, S) \in Int
<1> DEFINE P == {s \in SUBSET S : SumOf(v, s) \in Int}
<1>1. {} \in P
  BY SumOfNone
<1>2. ASSUME NEW s \in SUBSET S, NEW x \in S \ s, s \in P PROVE s \cup {x} \in P
  <2>1. IsFiniteSet(s)
    BY FS_Subset
  <2>2. SumOf(v, s \cup {x}) = v[x] + SumOf(v, s)
    BY <2>1, SumOfMore
  <2> QED BY <1>2, <2>2
<1>3. S \in P
  <2> HIDE DEF P
  <2> QED BY <1>1, <1>2, GrowingSets
<1> QED BY <1>3

\* Sums of parts and differences.
LEMMA SumOfAll ==
  ASSUME NEW S, IsFiniteSet(S), NEW u, NEW v, NEW w,
         \A y \in S : u[y] \in Int /\ v[y] \in Int /\ w[y] = u[y] + v[y]
  PROVE  SumOf(w, S) = SumOf(u, S) + SumOf(v, S)
<1> DEFINE P == {s \in SUBSET S : SumOf(w, s) = SumOf(u, s) + SumOf(v, s)}
<1>1. {} \in P
  BY SumOfNone
<1>2. ASSUME NEW s \in SUBSET S, NEW x \in S \ s, s \in P PROVE s \cup {x} \in P
  <2>1. IsFiniteSet(s)
    BY FS_Subset
  <2>2. /\ SumOf(u, s \cup {x}) = u[x] + SumOf(u, s) /\ SumOf(u, s) \in Int
        /\ SumOf(v, s \cup {x}) = v[x] + SumOf(v, s) /\ SumOf(v, s) \in Int
        /\ SumOf(w, s \cup {x}) = w[x] + SumOf(w, s)
    <3>1. \A y \in s \cup {x} : u[y] \in Int /\ v[y] \in Int /\ w[y] \in Int
      OBVIOUS
    <3> HIDE DEF P
    <3> QED BY <2>1, <3>1, SumOfMore
  <2>3. u[x] \in Int /\ v[x] \in Int /\ w[x] = u[x] + v[x]
    OBVIOUS
  <2>4. SumOf(w, s) = SumOf(u, s) + SumOf(v, s)
    BY <1>2
  <2>5. SumOf(w, s \cup {x}) = SumOf(u, s \cup {x}) + SumOf(v, s \cup {x})
    <3> HIDE DEF P
    <3> QED BY <2>2, <2>3, <2>4
  <2> QED BY <2>5
<1>3. S \in P
  <2> HIDE DEF P
  <2> QED BY <1>1, <1>2, GrowingSets
<1> QED BY <1>3

\* A sum over a part is at most one with larger terms over the whole.
LEMMA SumOfPart ==
  ASSUME NEW S, IsFiniteSet(S), NEW R \in SUBSET S, NEW u, NEW v,
         \A y \in S : v[y] \in Int /\ v[y] >= 0,
         \A y \in R : u[y] \in Int /\ u[y] <= v[y]
  PROVE  SumOf(u, R) <= SumOf(v, S) /\ SumOf(v, S) \in Int /\ SumOf(u, R) \in Int
<1> DEFINE P == {s \in SUBSET S : SumOf(u, s \cap R) <= SumOf(v, s)}
<1>1. {} \in P
  <2>1. {} \cap R = {}
    OBVIOUS
  <2> QED BY <2>1, SumOfNone
<1>2. ASSUME NEW s \in SUBSET S, NEW x \in S \ s, s \in P PROVE s \cup {x} \in P
  <2>1. IsFiniteSet(s) /\ IsFiniteSet(s \cap R)
    BY FS_Subset
  <2>2. SumOf(v, s \cup {x}) = v[x] + SumOf(v, s) /\ SumOf(v, s) \in Int
    BY <2>1, SumOfMore
  <2>3. v[x] \in Int /\ v[x] >= 0
    OBVIOUS
  <2>4. SumOf(u, s \cap R) \in Int
    BY <2>1, SumOfInts
  <2>5. CASE x \in R
    <3>1. (s \cup {x}) \cap R = (s \cap R) \cup {x} /\ x \notin s \cap R
      BY <2>5
    <3>2. SumOf(u, (s \cap R) \cup {x}) = u[x] + SumOf(u, s \cap R)
      BY <2>1, <2>5, <3>1, SumOfMore
    <3>3. u[x] \in Int /\ u[x] <= v[x]
      BY <2>5
    <3> QED BY <1>2, <2>2, <2>3, <2>4, <3>1, <3>2, <3>3
  <2>6. CASE x \notin R
    <3>1. (s \cup {x}) \cap R = s \cap R
      BY <2>6
    <3>2. SumOf(u, s \cap R) <= SumOf(v, s)
      BY <1>2
    <3>3. SumOf(u, (s \cup {x}) \cap R) <= SumOf(v, s \cup {x})
      <4> HIDE DEF P
      <4>1. SumOf(u, (s \cup {x}) \cap R) = SumOf(u, s \cap R)
        BY <3>1, Zenon
      <4>2. SumOf(v, s \cup {x}) >= SumOf(v, s) /\ SumOf(v, s \cup {x}) \in Int
        BY <2>2, <2>3
      <4> DEFINE a == SumOf(u, s \cap R)
                 b == SumOf(v, s)
                 c == SumOf(v, s \cup {x})
      <4>3. a <= c
        <5> HIDE DEF a, b, c
        <5> QED BY <2>2, <2>4, <3>2, <4>2 DEF a, b, c
      <4> QED BY <4>1, <4>3, Zenon
    <3> QED BY <3>3
  <2> QED BY <2>5, <2>6
<1>3. S \in P
  <2> HIDE DEF P
  <2> QED BY <1>1, <1>2, GrowingSets
<1>4. S \cap R = R
  OBVIOUS
<1>5. IsFiniteSet(R)
  BY FS_Subset
<1> QED BY <1>3, <1>4, <1>5, SumOfInts

\* Terms of nothing add nothing.
LEMMA SumOfRest ==
  ASSUME NEW S, IsFiniteSet(S), NEW R \in SUBSET S, NEW v,
         \A y \in S : v[y] \in Int, \A y \in S \ R : v[y] = 0
  PROVE  SumOf(v, R) = SumOf(v, S)
<1> DEFINE P == {s \in SUBSET S : SumOf(v, s \cap R) = SumOf(v, s)}
<1>1. {} \in P
  <2>1. {} \cap R = {}
    OBVIOUS
  <2> QED BY <2>1
<1>2. ASSUME NEW s \in SUBSET S, NEW x \in S \ s, s \in P PROVE s \cup {x} \in P
  <2>1. IsFiniteSet(s) /\ IsFiniteSet(s \cap R)
    BY FS_Subset
  <2>2. SumOf(v, s \cup {x}) = v[x] + SumOf(v, s) /\ SumOf(v, s) \in Int
    BY <2>1, SumOfMore
  <2>3. SumOf(v, s \cap R) = SumOf(v, s)
    BY <1>2
  <2>4. CASE x \in R
    <3>1. (s \cup {x}) \cap R = (s \cap R) \cup {x} /\ x \notin s \cap R
      BY <2>4
    <3>2. SumOf(v, (s \cap R) \cup {x}) = v[x] + SumOf(v, s \cap R)
      BY <2>1, <3>1, SumOfMore
    <3>3. SumOf(v, (s \cup {x}) \cap R) = SumOf(v, s \cup {x})
      BY <2>2, <2>3, <3>1, <3>2, Zenon
    <3> QED BY <3>3
  <2>5. CASE x \notin R
    <3>1. (s \cup {x}) \cap R = s \cap R
      BY <2>5
    <3>2. SumOf(v, s \cup {x}) = SumOf(v, s)
      <4>1. v[x] = 0
        BY <2>5
      <4> HIDE DEF P
      <4> QED BY <2>2, <4>1
    <3>3. SumOf(v, (s \cup {x}) \cap R) = SumOf(v, s \cup {x})
      BY <2>3, <3>1, <3>2, Zenon
    <3> QED BY <3>3
  <2> QED BY <2>4, <2>5
<1>3. S \in P
  <2> HIDE DEF P
  <2> QED BY <1>1, <1>2, GrowingSets
<1>4. S \cap R = R
  OBVIOUS
<1> QED BY <1>3, <1>4

LEMMA ProductIsNat ==
  ASSUME NEW a \in Nat, NEW n \in Nat PROVE a * n \in Nat
  OBVIOUS

\* A function that is defined from its value at the number before exists.
StepsUp(f, z, h) == f = [n \in Nat |-> IF n = 0 THEN z ELSE h[<<n, f[n - 1]>>]]

LEMMA RecursionExists ==
  ASSUME NEW V, NEW z \in V, NEW h \in [Nat \X V -> V]
  PROVE  \E f \in [Nat -> V] : StepsUp(f, z, h)
<1> DEFINE Upto(g, n) == /\ g \in [0..n -> V]
                         /\ g = [i \in 0..n |-> IF i = 0 THEN z ELSE h[<<i, g[i - 1]>>]]
           P == {n \in Nat : \E g : Upto(g, n)}
<1>1. 0 \in P
  <2> DEFINE g == [i \in 0..0 |-> z]
  <2>1. Upto(g, 0)
    OBVIOUS
  <2> QED BY <2>1
<1>2. ASSUME NEW n \in Nat, n \in P PROVE n + 1 \in P
  <2>1. PICK g : Upto(g, n)
    BY <1>2
  <2> DEFINE e == [i \in 0..(n + 1) |-> IF i = n + 1 THEN h[<<n + 1, g[n]>>] ELSE g[i]]
  <2>2. g[n] \in V /\ h[<<n + 1, g[n]>>] \in V
    BY <2>1
  <2>3. e \in [0..(n + 1) -> V]
    BY <2>1, <2>2
  <2>4. \A i \in 0..(n + 1) : e[i] = IF i = 0 THEN z ELSE h[<<i, e[i - 1]>>]
    <3>1. \A i \in 0..n : g[i] = IF i = 0 THEN z ELSE h[<<i, g[i - 1]>>]
      BY <2>1
    <3>2. /\ e[n + 1] = h[<<n + 1, g[n]>>] /\ e[n] = g[n]
          /\ \A i \in 0..n : e[i] = g[i]
      OBVIOUS
    <3> HIDE DEF e
    <3> TAKE i \in 0..(n + 1)
    <3>3. CASE i = n + 1
      BY <3>2, <3>3
    <3>4. CASE i = 0
      <4>1. 0 \in 0..n /\ 0 # n + 1
        OBVIOUS
      <4> QED BY <3>1, <3>2, <3>4, <4>1
    <3>5. CASE i \in 1..n
      <4>1. i - 1 \in 0..n /\ i \in 0..n
        BY <3>5
      <4> QED BY <3>1, <3>2, <3>5, <4>1
    <3> QED BY <3>3, <3>4, <3>5
  <2>5. Upto(e, n + 1)
    <3>1. e = [i \in 0..(n + 1) |-> e[i]]
      OBVIOUS
    <3> HIDE DEF e
    <3> QED BY <2>3, <2>4, <3>1
  <2> HIDE DEF Upto, e
  <2> QED BY <2>5
<1>3. \A n \in Nat : \E g : Upto(g, n)
  <2>1. Nat \subseteq P
    <3> HIDE DEF P
    <3> QED BY <1>1, <1>2, UpwardInduction
  <2> QED BY <2>1
<1> DEFINE G(n) == CHOOSE g : Upto(g, n)
<1>4. \A n \in Nat : Upto(G(n), n)
  <2> HIDE DEF Upto
  <2> QED BY <1>3
<1> HIDE DEF G
<1>5. /\ \A n \in Nat : \A i \in 0..n : G(n)[i] \in V
      /\ \A n \in Nat : G(n)[0] = z
      /\ \A n \in Nat : \A i \in 1..n : G(n)[i] = h[<<i, G(n)[i - 1]>>]
  <2>1. ASSUME NEW n \in Nat
        PROVE  /\ \A i \in 0..n : G(n)[i] \in V
               /\ G(n)[0] = z
               /\ \A i \in 1..n : G(n)[i] = h[<<i, G(n)[i - 1]>>]
    <3> DEFINE g == G(n)
    <3>1. Upto(g, n)
      BY <1>4
    <3> HIDE DEF g
    <3> QED BY <3>1 DEF g
  <2> QED BY <2>1
\* Two of them agree as far as both go.
<1>6. \A n \in Nat : G(n + 1)[n] = G(n)[n]
  <2> TAKE n \in Nat
  <2> DEFINE A == {i \in Nat : i <= n => G(n + 1)[i] = G(n)[i]}
  <2>1. 0 \in A
    BY <1>5
  <2>2. ASSUME NEW i \in Nat, i \in A PROVE i + 1 \in A
    <3> SUFFICES ASSUME i + 1 <= n PROVE G(n + 1)[i + 1] = G(n)[i + 1]
      OBVIOUS
    <3>1. G(n + 1)[i] = G(n)[i]
      BY <2>2
    <3>2. i + 1 \in 1..n /\ i + 1 \in 1..(n + 1) /\ n + 1 \in Nat /\ (i + 1) - 1 = i
      OBVIOUS
    <3>3. G(n)[i + 1] = h[<<i + 1, G(n)[i]>>]
      BY <1>5, <3>2
    <3>4. G(n + 1)[i + 1] = h[<<i + 1, G(n + 1)[i]>>]
      BY <1>5, <3>2
    <3> QED BY <3>1, <3>3, <3>4
  <2>3. Nat \subseteq A
    <3> HIDE DEF A
    <3> QED BY <2>1, <2>2, UpwardInduction
  <2> QED BY <2>3
<1> DEFINE f == [n \in Nat |-> G(n)[n]]
<1>7. \A n \in Nat : f[n] = IF n = 0 THEN z ELSE h[<<n, f[n - 1]>>]
  <2> TAKE n \in Nat
  <2>1. CASE n = 0
    BY <1>5, <2>1
  <2>2. CASE n # 0
    <3>1. n - 1 \in Nat /\ (n - 1) + 1 = n /\ n \in 1..n
      BY <2>2
    <3>2. G(n)[n - 1] = G(n - 1)[n - 1]
      BY <1>6, <3>1
    <3>3. f[n] = G(n)[n] /\ f[n - 1] = G(n - 1)[n - 1]
      BY <3>1
    <3>4. G(n)[n] = h[<<n, G(n)[n - 1]>>]
      BY <1>5, <3>1
    <3> HIDE DEF f
    <3> QED BY <2>2, <3>2, <3>3, <3>4
  <2> QED BY <2>1, <2>2
<1>8. f \in [Nat -> V]
  BY <1>5
<1>9. StepsUp(f, z, h)
  <2>1. f = [n \in Nat |-> f[n]]
    OBVIOUS
  <2> HIDE DEF f
  <2> QED BY <1>7, <2>1 DEF StepsUp
<1> QED BY <1>8, <1>9

\* What is so of a number if it is so of all below it is so of all.
LEMMA StrongInduction ==
  ASSUME NEW P, \A n \in Nat : (\A m \in Nat : m < n => m \in P) => n \in P
  PROVE  Nat \subseteq P
<1> DEFINE Q == {n \in Nat : \A m \in Nat : m < n => m \in P}
<1>1. 0 \in Q
  OBVIOUS
<1>2. ASSUME NEW n \in Nat, n \in Q PROVE n + 1 \in Q
  <2>1. n \in P
    BY <1>2
  <2>2. ASSUME NEW m \in Nat, m < n + 1 PROVE m \in P
    <3>1. m < n \/ m = n
      BY <2>2
    <3> QED BY <1>2, <2>1, <3>1
  <2> QED BY <2>2
<1>3. Nat \subseteq Q
  <2> HIDE DEF Q
  <2> QED BY <1>1, <1>2, UpwardInduction
<1> QED BY <1>3

-----------------------------------------------------------------------------
(* Greatest common divisors and fractions in lowest terms.                  *)

LEMMA Division ==
  ASSUME NEW a \in Nat, NEW b \in Nat \ {0}
  PROVE  /\ a \div b \in Nat /\ a % b \in 0..(b - 1)
         /\ a = ((a \div b) * b) + (a % b)
BY Z3

\* d divides both and is a combination of both.
Divides(d, a, b) ==
  /\ \E x, y \in Nat : a = x * d /\ b = y * d
  /\ \E u, v \in Int : d = u * a + v * b

LEMMA DivisorStep ==
  ASSUME NEW a \in Nat, NEW b \in Nat \ {0}, NEW d \in Nat, Divides(d, b, a % b)
  PROVE  Divides(d, a, b)
<1> DEFINE q == a \div b
           r == a % b
<1>1. q \in Nat /\ r \in Nat /\ a = q * b + r
  <2>1. q \in Nat /\ r \in 0..(b - 1) /\ a = (q * b) + r
    BY Division
  <2> HIDE DEF q, r
  <2> QED BY <2>1
<1>2. PICK x \in Nat, y \in Nat : b = x * d /\ r = y * d
  BY DEF Divides
<1>3. PICK u \in Int, v \in Int : d = u * b + v * r
  BY DEF Divides
<1> HIDE DEF q, r
<1>4. q * x + y \in Nat /\ a = (q * x + y) * d
  <2>1. \A i, j, k, l \in Nat : i * (j * l) + k * l = (i * j + k) * l /\ i * j + k \in Nat
    BY Z3
  <2> QED BY <1>1, <1>2, <2>1
<1>5. u - q * v \in Int /\ d = v * a + (u - q * v) * b
  <2>1. \A i, j, k, l, m \in Int : j * (i * l + m) + (k - i * j) * l = k * l + j * m
    BY Z3
  <2>2. u - q * v \in Int /\ r \in Int /\ q \in Int /\ b \in Int
    BY <1>1
  <2>3. v * (q * b + r) + (u - q * v) * b = u * b + v * r
    BY <2>1, <2>2
  <2> QED BY <1>1, <1>3, <2>2, <2>3
<1> QED BY <1>2, <1>4, <1>5 DEF Divides

LEMMA DivisorIsUnique ==
  ASSUME NEW a \in Nat, NEW b \in Nat, NEW d \in Nat, NEW e \in Nat,
         Divides(d, a, b), Divides(e, a, b)
  PROVE  d = e
<1>1. ASSUME NEW c \in Nat, NEW f \in Nat, Divides(c, a, b), Divides(f, a, b)
      PROVE  \E k \in Int : c = k * f
  <2>1. PICK u \in Int, v \in Int : c = u * a + v * b
    BY <1>1 DEF Divides
  <2>2. PICK x \in Nat, y \in Nat : a = x * f /\ b = y * f
    BY <1>1 DEF Divides
  <2>3. u * (x * f) + v * (y * f) = (u * x + v * y) * f
    BY Z3
  <2>4. u * x + v * y \in Int
    BY <2>2
  <2> QED BY <2>1, <2>2, <2>3, <2>4
<1>2. PICK i \in Int : d = i * e
  BY <1>1
<1>3. PICK j \in Int : e = j * d
  BY <1>1
<1>4. \A m, n \in Nat : \A k \in Int : m = k * n /\ m # 0 => n <= m
  <2> TAKE m, n \in Nat
  <2> TAKE k \in Int
  <2>1. CASE k <= 0
    <3>1. \A x \in Nat, y \in Int : y <= 0 => y * x <= 0
      BY Z3
    <3> QED BY <2>1, <3>1
  <2>2. CASE k >= 1
    <3>1. \A x \in Nat, y \in Int : y >= 1 => x <= y * x
      BY Z3
    <3> QED BY <2>2, <3>1
  <2> QED BY <2>1, <2>2
<1>5. CASE d = 0
  <2>1. \A k \in Int : k * 0 = 0
    BY Z3
  <2> QED BY <1>3, <1>5, <2>1
<1>6. CASE e = 0
  <2>1. \A k \in Int : k * 0 = 0
    BY Z3
  <2> QED BY <1>2, <1>6, <2>1
<1>7. CASE d # 0 /\ e # 0
  <2>1. e <= d /\ d <= e
    BY <1>2, <1>3, <1>4, <1>7
  <2> QED BY <2>1
<1> QED BY <1>5, <1>6, <1>7

GcdFits(f) ==
  f = [p \in Nat \X Nat |-> IF p[2] = 0 THEN p[1] ELSE f[<<p[2], p[1] % p[2]>>]]

LEMMA DivisorExists == \A b \in Nat : \A a \in Nat : \E d \in Nat : Divides(d, a, b)
<1> DEFINE P == {n \in Nat : \A b \in 0..n : \A a \in Nat : \E d \in Nat : Divides(d, a, b)}
<1>1. ASSUME NEW a \in Nat PROVE Divides(a, a, 0)
  <2>1. a = 1 * a /\ 0 = 0 * a /\ a = 1 * a + 0 * 0
    OBVIOUS
  <2> QED BY <2>1 DEF Divides
<1>2. 0 \in P
  <2>1. \A b \in 0..0 : b = 0
    OBVIOUS
  <2> QED BY <1>1, <2>1
<1>3. ASSUME NEW n \in Nat, n \in P PROVE n + 1 \in P
  <2>1. ASSUME NEW b \in 0..(n + 1), NEW a \in Nat PROVE \E d \in Nat : Divides(d, a, b)
    <3>1. CASE b = 0
      BY <1>1, <3>1
    <3>2. CASE b # 0
      <4>1. b \in Nat \ {0}
        BY <3>2
      <4>2. a % b \in 0..(b - 1)
        BY <4>1, Division
      <4>3. a % b \in 0..n
        BY <4>1, <4>2
      <4>4. PICK d \in Nat : Divides(d, b, a % b)
        BY <1>3, <4>1, <4>3
      <4> QED BY <4>1, <4>4, DivisorStep
    <3> QED BY <3>1, <3>2
  <2> QED BY <2>1
<1>4. Nat \subseteq P
  <2> HIDE DEF P
  <2> QED BY <1>2, <1>3, UpwardInduction
<1>5. ASSUME NEW b \in Nat, NEW a \in Nat PROVE \E d \in Nat : Divides(d, a, b)
  <2>1. b \in P /\ b \in 0..b
    BY <1>4
  <2> QED BY <2>1
<1> QED BY <1>5

LEMMA GcdExists == \E f : GcdFits(f)
<1> DEFINE f == [p \in Nat \X Nat |-> CHOOSE d \in Nat : Divides(d, p[1], p[2])]
<1>1. \A a, b \in Nat : f[<<a, b>>] \in Nat /\ Divides(f[<<a, b>>], a, b)
  BY DivisorExists
<1>2. \A a, b \in Nat : f[<<a, b>>] = IF b = 0 THEN a ELSE f[<<b, a % b>>]
  <2> TAKE a, b \in Nat
  <2>1. CASE b = 0
    <3>1. a = 1 * a /\ 0 = 0 * a /\ a = 1 * a + 0 * 0
      OBVIOUS
    <3>2. Divides(a, a, 0)
      BY <3>1 DEF Divides
    <3> HIDE DEF f
    <3> QED BY <1>1, <2>1, <3>2, DivisorIsUnique
  <2>2. CASE b # 0
    <3>1. b \in Nat \ {0} /\ a % b \in Nat
      BY <2>2, Division
    <3> HIDE DEF f
    <3>2. f[<<b, a % b>>] \in Nat /\ Divides(f[<<b, a % b>>], b, a % b)
      BY <1>1, <3>1
    <3>3. Divides(f[<<b, a % b>>], a, b)
      BY <3>1, <3>2, DivisorStep
    <3> DEFINE d == f[<<a, b>>]
               e == f[<<b, a % b>>]
    <3>4. d \in Nat /\ Divides(d, a, b) /\ e \in Nat /\ Divides(e, a, b)
      BY <1>1, <3>2, <3>3
    <3>5. d = e
      <4> HIDE DEF d, e
      <4> QED BY <3>4, DivisorIsUnique
    <3> QED BY <2>2, <3>5
  <2> QED BY <2>1, <2>2
<1>3. f = [p \in Nat \X Nat |-> f[p]]
  OBVIOUS
<1> HIDE DEF f
<1>4. \A p \in Nat \X Nat : f[p] = IF p[2] = 0 THEN p[1] ELSE f[<<p[2], p[1] % p[2]>>]
  <2> TAKE p \in Nat \X Nat
  <2>1. p[1] \in Nat /\ p[2] \in Nat /\ p = <<p[1], p[2]>>
    OBVIOUS
  <2> QED BY <1>2, <2>1
<1>5. GcdFits(f)
  BY <1>3, <1>4 DEF GcdFits
<1> QED BY <1>5

LEMMA GcdIs ==
  ASSUME NEW a \in Nat, NEW b \in Nat
  PROVE  Gcd[<<a, b>>] \in Nat /\ Divides(Gcd[<<a, b>>], a, b)
<1>1. GcdFits(Gcd)
  <2>1. Gcd = CHOOSE f : GcdFits(f)
    BY DEF Gcd, GcdFits
  <2> QED BY <2>1, GcdExists
<1>2. \A i, j \in Nat : Gcd[<<i, j>>] = IF j = 0 THEN i ELSE Gcd[<<j, i % j>>]
  <2> DEFINE g == Gcd
  <2>1. GcdFits(g)
    BY <1>1
  <2> HIDE DEF g
  <2>2. \A i, j \in Nat : g[<<i, j>>] = IF j = 0 THEN i ELSE g[<<j, i % j>>]
    BY <2>1 DEF GcdFits
  <2> QED BY <2>2 DEF g
<1> DEFINE P == {n \in Nat : \A j \in 0..n : \A i \in Nat :
                               Gcd[<<i, j>>] \in Nat /\ Divides(Gcd[<<i, j>>], i, j)}
<1>3. ASSUME NEW i \in Nat PROVE Gcd[<<i, 0>>] \in Nat /\ Divides(Gcd[<<i, 0>>], i, 0)
  <2>1. i = 1 * i /\ 0 = 0 * i /\ i = 1 * i + 0 * 0
    OBVIOUS
  <2>2. Divides(i, i, 0)
    BY <2>1 DEF Divides
  <2>3. Gcd[<<i, 0>>] = i
    BY <1>2
  <2> QED BY <2>2, <2>3
<1>4. 0 \in P
  <2>1. \A j \in 0..0 : j = 0
    OBVIOUS
  <2> QED BY <1>3, <2>1
<1>5. ASSUME NEW n \in Nat, n \in P PROVE n + 1 \in P
  <2>1. ASSUME NEW j \in 0..(n + 1), NEW i \in Nat
        PROVE  Gcd[<<i, j>>] \in Nat /\ Divides(Gcd[<<i, j>>], i, j)
    <3>1. CASE j = 0
      BY <1>3, <3>1
    <3>2. CASE j # 0
      <4>1. j \in Nat \ {0}
        BY <3>2
      <4>2. i % j \in 0..(j - 1)
        BY <4>1, Division
      <4>3. i % j \in 0..n
        BY <4>1, <4>2
      <4>4. Gcd[<<j, i % j>>] \in Nat /\ Divides(Gcd[<<j, i % j>>], j, i % j)
        BY <1>5, <4>1, <4>3
      <4>5. Gcd[<<i, j>>] = Gcd[<<j, i % j>>]
        BY <1>2, <4>1
      <4> QED BY <4>1, <4>4, <4>5, DivisorStep
    <3> QED BY <3>1, <3>2
  <2> QED BY <2>1
<1>6. Nat \subseteq P
  <2> HIDE DEF P
  <2> QED BY <1>4, <1>5, UpwardInduction
<1>7. b \in P /\ b \in 0..b
  BY <1>6
<1> QED BY <1>7

\* A fraction in lowest terms.
Lowest(q) ==
  /\ q = <<q[1], q[2]>> /\ q[1] \in Int /\ q[2] \in Nat \ {0}
  /\ \E u, v \in Int : u * q[1] + v * q[2] = 1

LEMMA FracIs ==
  ASSUME NEW n \in Int, NEW d \in Nat \ {0}
  PROVE  /\ Lowest(Frac(n, d))
         /\ \E g \in Nat \ {0} : Frac(n, d)[1] * g = n /\ Frac(n, d)[2] * g = d
<1> DEFINE a == IF n < 0 THEN -n ELSE n
           g == Gcd[<<a, d>>]
<1>1. a \in Nat /\ d \in Nat
  OBVIOUS
<1>2. g \in Nat /\ Divides(g, a, d)
  BY <1>1, GcdIs
<1>3. Frac(n, d) = <<n \div g, d \div g>>
  BY DEF Frac
<1> HIDE DEF g
<1>4. PICK x \in Nat, y \in Nat : a = x * g /\ d = y * g
  BY <1>2 DEF Divides
<1>5. PICK u \in Int, v \in Int : g = u * a + v * d
  BY <1>2 DEF Divides
<1>6. g # 0 /\ y # 0
  BY <1>2, <1>4
<1> DEFINE s == IF n < 0 THEN -1 ELSE 1
<1>7. s \in Int /\ n = s * a /\ s * s = 1
  OBVIOUS
<1> HIDE DEF s, a
<1>8. n = (s * x) * g
  <2>1. s * (x * g) = (s * x) * g
    BY <1>2, <1>4, <1>7, Z3
  <2> QED BY <1>4, <1>7, <2>1
<1>9. n \div g = s * x /\ d \div g = y
  <2>1. \A i \in Int : \A j \in Nat \ {0} : (i * j) \div j = i
    BY Z3
  <2>2. s * x \in Int /\ y \in Int /\ g \in Nat \ {0}
    BY <1>2, <1>4, <1>6, <1>7
  <2> QED BY <1>4, <1>8, <2>1, <2>2
<1>10. (u * s) * (s * x) + v * y = 1
  <2>1. g = u * (x * g) + v * (y * g)
    BY <1>4, <1>5
  <2>2. u * (x * g) + v * (y * g) = (u * x + v * y) * g
    BY <1>2, <1>4, <1>5, Z3
  <2>3. \A i \in Int : \A j \in Nat \ {0} : j = i * j => i = 1
    BY Z3
  <2>4. u * x + v * y \in Int /\ g \in Nat \ {0}
    BY <1>2, <1>4, <1>5, <1>6
  <2>5. u * x + v * y = 1
    BY <2>1, <2>2, <2>3, <2>4
  <2>6. (u * s) * (s * x) = (s * s) * (u * x)
    BY <1>4, <1>5, <1>7, Z3
  <2>7. (s * s) * (u * x) = u * x
    BY <1>4, <1>5, <1>7
  <2> QED BY <2>5, <2>6, <2>7
<1> DEFINE p == s * x
           w == u * s
<1>11. p \in Int /\ w \in Int /\ w * p + v * y = 1 /\ n = p * g
  BY <1>4, <1>5, <1>7, <1>8, <1>10
<1>12. Frac(n, d) = <<p, y>>
  BY <1>3, <1>9
<1> HIDE DEF p, w
<1>13. Lowest(Frac(n, d))
  BY <1>4, <1>5, <1>6, <1>11, <1>12 DEF Lowest
<1> QED BY <1>2, <1>4, <1>6, <1>11, <1>12, <1>13

\* Two of one value are the same.
LEMMA LowestIsUnique ==
  ASSUME NEW p, NEW q, Lowest(p), Lowest(q), p[1] * q[2] = q[1] * p[2]
  PROVE  p = q
<1> DEFINE a == p[1]
           b == p[2]
           c == q[1]
           e == q[2]
<1>1. /\ a \in Int /\ b \in Nat \ {0} /\ c \in Int /\ e \in Nat \ {0} /\ a * e = c * b
      /\ p = <<a, b>> /\ q = <<c, e>>
  BY DEF Lowest
<1>2. (\E u, v \in Int : u * a + v * b = 1) /\ (\E u, v \in Int : u * c + v * e = 1)
  BY DEF Lowest
<1> HIDE DEF a, b, c, e
\* The denominator of each is a multiple of the other's.
<1>3. ASSUME NEW i \in Int, NEW j \in Nat \ {0}, NEW k \in Int, NEW l \in Nat \ {0},
             i * l = k * j, NEW u \in Int, NEW v \in Int, u * i + v * j = 1
      PROVE  j <= l
  <2> DEFINE m == u * k + v * l
  <2>1. l = (u * i + v * j) * l
    BY <1>3
  <2>2. (u * i + v * j) * l = u * (i * l) + v * (j * l)
    BY Z3
  <2>3. u * (k * j) + v * (j * l) = m * j
    BY Z3
  <2>4. l = m * j /\ m \in Int
    BY <1>3, <2>1, <2>2, <2>3
  <2> HIDE DEF m
  <2>5. m >= 1
    <3>1. \A x \in Int, y \in Nat : x <= 0 => x * y <= 0
      BY Z3
    <3>2. ~(m <= 0)
      BY <2>4, <3>1
    <3> QED BY <2>4, <3>2
  <2>6. \A x \in Int, y \in Nat : x >= 1 => y <= x * y
    BY Z3
  <2> QED BY <2>4, <2>5, <2>6
<1>4. b = e
  <2>1. PICK u \in Int, v \in Int : u * a + v * b = 1
    BY <1>2
  <2>2. PICK w \in Int, z \in Int : w * c + z * e = 1
    BY <1>2
  <2>3. b <= e
    BY <1>1, <1>3, <2>1
  <2>4. c * b = a * e
    BY <1>1
  <2>5. e <= b
    BY <1>1, <1>3, <2>2, <2>4
  <2> QED BY <1>1, <2>3, <2>5
<1>5. a = c
  <2>1. \A x, y \in Int : \A z \in Nat \ {0} : x * z = y * z => x = y
    BY Z3
  <2> QED BY <1>1, <1>4, <2>1
<1> QED BY <1>1, <1>4, <1>5

\* What a fraction is worth.
LEMMA FracValue ==
  ASSUME NEW n \in Int, NEW d \in Nat \ {0}
  PROVE  /\ Frac(n, d) = <<Frac(n, d)[1], Frac(n, d)[2]>>
         /\ Frac(n, d)[1] \in Int /\ Frac(n, d)[2] \in Nat \ {0}
         /\ Frac(n, d)[1] * d = n * Frac(n, d)[2]
<1>1. Lowest(Frac(n, d))
  BY FracIs
<1>2. PICK g \in Nat \ {0} : Frac(n, d)[1] * g = n /\ Frac(n, d)[2] * g = d
  BY FracIs
<1> DEFINE x == Frac(n, d)[1]
           y == Frac(n, d)[2]
<1>3. x \in Int /\ y \in Nat \ {0} /\ x * g = n /\ y * g = d
  BY <1>1, <1>2 DEF Lowest
<1> HIDE DEF x, y
<1>4. x * (y * g) = (x * g) * y
  BY <1>3, Z3
<1> QED BY <1>1, <1>3, <1>4 DEF Lowest, x, y

\* If i/j is worth n/d and k/l is worth m/e, these compare like those.
LEMMA ValuesCompare ==
  ASSUME NEW n \in Int, NEW d \in Nat \ {0}, NEW m \in Int, NEW e \in Nat \ {0},
         NEW i \in Int, NEW j \in Nat \ {0}, NEW k \in Int, NEW l \in Nat \ {0},
         i * d = n * j, k * e = m * l
  PROVE  i * l <= k * j <=> n * e <= m * d
<1>1. (i * l) * (d * e) = (n * e) * (j * l)
  <2>1. (i * l) * (d * e) = (i * d) * (l * e)
    BY Z3
  <2>2. (n * j) * (l * e) = (n * e) * (j * l)
    BY Z3
  <2> QED BY <2>1, <2>2
<1>2. (k * j) * (d * e) = (m * d) * (j * l)
  <2>1. (k * j) * (d * e) = (k * e) * (j * d)
    BY Z3
  <2>2. (m * l) * (j * d) = (m * d) * (j * l)
    BY Z3
  <2> QED BY <2>1, <2>2
<1>3. \A x, y \in Int : \A z \in Nat \ {0} : x <= y <=> x * z <= y * z
  BY Z3
<1>4. d * e \in Nat \ {0} /\ j * l \in Nat \ {0}
  <2>1. \A x, y \in Nat \ {0} : x * y \in Nat \ {0}
    BY Z3
  <2> QED BY <2>1
<1>5. i * l \in Int /\ k * j \in Int /\ n * e \in Int /\ m * d \in Int
  OBVIOUS
<1>6. i * l <= k * j <=> (i * l) * (d * e) <= (k * j) * (d * e)
  BY <1>3, <1>4, <1>5
<1>7. n * e <= m * d <=> (n * e) * (j * l) <= (m * d) * (j * l)
  BY <1>3, <1>4, <1>5
<1> QED BY <1>1, <1>2, <1>6, <1>7

LEMMA FracAtMost ==
  ASSUME NEW n \in Int, NEW d \in Nat \ {0}, NEW m \in Int, NEW e \in Nat \ {0}
  PROVE  /\ AtMost(Frac(n, d), Frac(m, e)) <=> n * e <= m * d
         /\ Below(Frac(n, d), Frac(m, e)) <=> n * e < m * d
         /\ Frac(n, d) = Frac(m, e) <=> n * e = m * d
<1> DEFINE i == Frac(n, d)[1]
           j == Frac(n, d)[2]
           k == Frac(m, e)[1]
           l == Frac(m, e)[2]
<1>1. /\ i \in Int /\ j \in Nat \ {0} /\ k \in Int /\ l \in Nat \ {0}
      /\ i * d = n * j /\ k * e = m * l
      /\ Frac(n, d) = <<i, j>> /\ Frac(m, e) = <<k, l>>
  BY FracValue
<1>2. Lowest(Frac(n, d)) /\ Lowest(Frac(m, e))
  BY FracIs
<1> HIDE DEF i, j, k, l
<1>3. i * l <= k * j <=> n * e <= m * d
  BY <1>1, ValuesCompare
<1>4. k * j <= i * l <=> m * d <= n * e
  BY <1>1, ValuesCompare
<1>5. i * l \in Int /\ k * j \in Int /\ n * e \in Int /\ m * d \in Int
  BY <1>1
<1> DEFINE il == i * l
           kj == k * j
           ne == n * e
           md == m * d
<1>6. (il < kj <=> ne < md) /\ (il = kj <=> ne = md)
  <2>1. (il <= kj <=> ne <= md) /\ (kj <= il <=> md <= ne)
    BY <1>3, <1>4
  <2> HIDE DEF il, kj, ne, md
  <2> QED BY <1>5, <2>1 DEF il, kj, ne, md
<1>7. AtMost(Frac(n, d), Frac(m, e)) <=> n * e <= m * d
  BY <1>1, <1>3 DEF AtMost
<1>8. Below(Frac(n, d), Frac(m, e)) <=> n * e < m * d
  BY <1>1, <1>6 DEF Below
<1>9. Frac(n, d) = Frac(m, e) => il = kj
  <2>1. Frac(n, d) = Frac(m, e) => i = k /\ j = l
    BY DEF i, j, k, l
  <2> QED BY <2>1
<1>10. il = kj => Frac(n, d) = Frac(m, e)
  <2> SUFFICES ASSUME il = kj PROVE Frac(n, d) = Frac(m, e)
    OBVIOUS
  <2>1. Frac(n, d)[1] * Frac(m, e)[2] = Frac(m, e)[1] * Frac(n, d)[2]
    BY DEF i, j, k, l
  <2> QED BY <1>2, <2>1, LowestIsUnique
<1> QED BY <1>6, <1>7, <1>8, <1>9, <1>10

LEMMA PlusIsFrac ==
  ASSUME NEW n \in Int, NEW m \in Int, NEW d \in Nat \ {0}
  PROVE  Plus(Frac(n, d), Frac(m, d)) = Frac(n + m, d)
<1> DEFINE x == Frac(n, d)[1]
           y == Frac(n, d)[2]
           z == Frac(m, d)[1]
           w == Frac(m, d)[2]
<1>1. /\ x \in Int /\ y \in Nat \ {0} /\ z \in Int /\ w \in Nat \ {0}
      /\ x * d = n * y /\ z * d = m * w
  BY FracValue
<1>2. Plus(Frac(n, d), Frac(m, d)) = Frac(x * w + z * y, y * w)
  BY DEF Plus
<1> HIDE DEF x, y, z, w
<1>3. y * w \in Nat \ {0} /\ x * w + z * y \in Int /\ n + m \in Int
  <2>1. \A i, j \in Nat \ {0} : i * j \in Nat \ {0}
    BY Z3
  <2> QED BY <1>1, <2>1
<1>4. (x * w + z * y) * d = (n + m) * (y * w)
  <2>1. (x * w + z * y) * d = (x * d) * w + (z * d) * y
    BY <1>1, Z3
  <2>2. (n * y) * w + (m * w) * y = (n + m) * (y * w)
    BY <1>1, Z3
  <2> QED BY <1>1, <2>1, <2>2
<1>5. Frac(x * w + z * y, y * w) = Frac(n + m, d)
  <2> DEFINE i == x * w + z * y
             j == y * w
             k == n + m
  <2>1. i \in Int /\ j \in Nat \ {0} /\ k \in Int /\ i * d = k * j
    BY <1>3, <1>4
  <2> HIDE DEF i, j, k
  <2>2. Frac(i, j) = Frac(k, d)
    BY <2>1, FracAtMost
  <2> QED BY <2>2 DEF i, j, k
<1> QED BY <1>2, <1>5

LEMMA TimesIsFrac ==
  ASSUME NEW n \in Int, NEW d \in Nat \ {0}, NEW m \in Int, NEW e \in Nat \ {0}
  PROVE  Times(Frac(n, d), Frac(m, e)) = Frac(n * m, d * e)
<1> DEFINE x == Frac(n, d)[1]
           y == Frac(n, d)[2]
           z == Frac(m, e)[1]
           w == Frac(m, e)[2]
<1>1. /\ x \in Int /\ y \in Nat \ {0} /\ z \in Int /\ w \in Nat \ {0}
      /\ x * d = n * y /\ z * e = m * w
  BY FracValue
<1>2. Times(Frac(n, d), Frac(m, e)) = Frac(x * z, y * w)
  BY DEF Times
<1> HIDE DEF x, y, z, w
<1> DEFINE i == x * z
           j == y * w
           k == n * m
           l == d * e
<1>3. i \in Int /\ j \in Nat \ {0} /\ k \in Int /\ l \in Nat \ {0}
  <2>1. \A p, q \in Nat \ {0} : p * q \in Nat \ {0}
    BY Z3
  <2> QED BY <1>1, <2>1
<1>4. i * l = k * j
  <2>1. (x * z) * (d * e) = (x * d) * (z * e)
    BY <1>1, Z3
  <2>2. (n * y) * (m * w) = (n * m) * (y * w)
    BY <1>1, Z3
  <2> QED BY <1>1, <2>1, <2>2
<1> HIDE DEF i, j, k, l
<1>5. Frac(i, j) = Frac(k, l)
  BY <1>3, <1>4, FracAtMost
<1> QED BY <1>2, <1>5 DEF i, j, k, l

LEMMA ZeroIsFrac == ASSUME NEW d \in Nat \ {0} PROVE Frac(0, d) = Zero
<1>1. Lowest(Frac(0, d)) /\ Frac(0, d)[1] * d = 0 * Frac(0, d)[2] /\ Frac(0, d)[2] \in Nat
  <2>1. 0 \in Int
    OBVIOUS
  <2>2. Lowest(Frac(0, d))
    BY <2>1, FracIs
  <2>3. Frac(0, d)[1] * d = 0 * Frac(0, d)[2] /\ Frac(0, d)[2] \in Nat \ {0}
    BY <2>1, FracValue
  <2> QED BY <2>2, <2>3
<1>2. Lowest(Zero)
  <2>1. 0 * 0 + 1 * 1 = 1
    OBVIOUS
  <2>2. Zero = <<0, 1>> /\ Zero[1] = 0 /\ Zero[2] = 1
    BY DEF Zero
  <2> QED BY <2>1, <2>2 DEF Lowest
<1>3. Frac(0, d)[1] = 0
  <2>1. \A x \in Int : \A y \in Nat \ {0} : x * y = 0 => x = 0
    BY Z3
  <2> QED BY <1>1, <2>1 DEF Lowest
<1>4. Frac(0, d)[1] * Zero[2] = Zero[1] * Frac(0, d)[2]
  BY <1>1, <1>3 DEF Zero
<1> QED BY <1>1, <1>2, <1>4, LowestIsUnique

\* A sum of fractions over one denominator, as Total folds them up.
TotalsUp(g, v, S) ==
  g = [s \in SUBSET S |-> IF s = {} THEN Zero ELSE Plus(v[Some(s)], g[s \ {Some(s)}])]

LEMMA TotalIsFrac ==
  ASSUME NEW S, IsFiniteSet(S), NEW v, NEW w, NEW d \in Nat \ {0},
         \A x \in S : w[x] \in Int /\ v[x] = Frac(w[x], d),
         NEW g, g = CHOOSE f : TotalsUp(f, v, S)
  PROVE  g[S] = Frac(SumOf(w, S), d)
<1> DEFINE h == [s \in SUBSET S |-> Frac(SumOf(w, s), d)]
<1>1. \A s \in SUBSET S : s # {} =>
        /\ Some(s) \in s /\ s \ {Some(s)} \in SUBSET S
        /\ SumOf(w, s) = w[Some(s)] + SumOf(w, s \ {Some(s)})
        /\ SumOf(w, s \ {Some(s)}) \in Int
  <2> TAKE s \in SUBSET S
  <2> HAVE s # {}
  <2> DEFINE x == Some(s)
             u == s \ {x}
  <2>1. x \in s /\ s = u \cup {x} /\ x \notin u /\ u \in SUBSET S
    BY DEF Some
  <2> HIDE DEF x, u
  <2>2. IsFiniteSet(u) /\ \A y \in u \cup {x} : w[y] \in Int
    BY <2>1, FS_Subset
  <2>3. SumOf(w, u \cup {x}) = w[x] + SumOf(w, u) /\ SumOf(w, u) \in Int
    BY <2>1, <2>2, SumOfMore
  <2> QED BY <2>1, <2>3 DEF x, u
<1>2. TotalsUp(h, v, S)
  <2>1. ASSUME NEW s \in SUBSET S
        PROVE  h[s] = IF s = {} THEN Zero ELSE Plus(v[Some(s)], h[s \ {Some(s)}])
    <3>1. CASE s = {}
      BY <3>1, SumOfNone, ZeroIsFrac
    <3>2. CASE s # {}
      <4> DEFINE x == Some(s)
                 u == s \ {x}
      <4>1. x \in S /\ u \in SUBSET S /\ SumOf(w, s) = w[x] + SumOf(w, u) /\ SumOf(w, u) \in Int
        BY <1>1, <3>2
      <4>2. h[s] = Frac(SumOf(w, s), d) /\ h[u] = Frac(SumOf(w, u), d)
        BY <4>1
      <4> HIDE DEF x, u, h
      <4>3. Plus(v[x], h[u]) = Frac(w[x] + SumOf(w, u), d)
        <5>1. w[x] \in Int /\ v[x] = Frac(w[x], d)
          BY <4>1
        <5> QED BY <4>1, <4>2, <5>1, PlusIsFrac
      <4> QED BY <3>2, <4>1, <4>2, <4>3 DEF x, u
    <3> QED BY <3>1, <3>2
  <2>2. h = [s \in SUBSET S |-> h[s]]
    OBVIOUS
  <2> HIDE DEF h
  <2>3. h = [s \in SUBSET S |-> IF s = {} THEN Zero ELSE Plus(v[Some(s)], h[s \ {Some(s)}])]
    BY <2>1, <2>2
  <2> QED BY <2>3 DEF TotalsUp
<1>3. TotalsUp(g, v, S)
  BY <1>2
<1>4. \A s \in SUBSET S : g[s] = IF s = {} THEN Zero ELSE Plus(v[Some(s)], g[s \ {Some(s)}])
  <2> HIDE DEF h
  <2> QED BY <1>3 DEF TotalsUp
<1> DEFINE P == {s \in SUBSET S : g[s] = h[s]}
<1>5. ASSUME NEW s \in SUBSET S, \A u \in SUBSET s : u # s => u \in P PROVE s \in P
  <2>1. \A u \in SUBSET S : h[u] = IF u = {} THEN Zero ELSE Plus(v[Some(u)], h[u \ {Some(u)}])
    <3> HIDE DEF h
    <3> QED BY <1>2 DEF TotalsUp
  <2>2. CASE s = {}
    <3> HIDE DEF h
    <3> QED BY <1>4, <2>1, <2>2
  <2>3. CASE s # {}
    <3>1. Some(s) \in s /\ s \ {Some(s)} \in P
      <4> HIDE DEF h
      <4> QED BY <1>1, <1>5, <2>3
    <3> HIDE DEF h
    <3> QED BY <1>4, <2>1, <2>3, <3>1
  <2> QED BY <2>2, <2>3
<1>6. S \in P
  <2>1. SUBSET S \subseteq P
    <3> HIDE DEF P
    <3> QED BY <1>5, SubsetInduction
  <2> QED BY <2>1
<1>7. S \in SUBSET S
  OBVIOUS
<1> QED BY <1>6, <1>7

-----------------------------------------------------------------------------
(* Counting.                                                                *)

LEMMA DisjointCount ==
  ASSUME NEW S, IsFiniteSet(S), NEW T, IsFiniteSet(T), S \cap T = {}
  PROVE  /\ IsFiniteSet(S \cup T)
         /\ Cardinality(S \cup T) = Cardinality(S) + Cardinality(T)
         /\ Cardinality(S) \in Nat /\ Cardinality(T) \in Nat
<1>1. /\ IsFiniteSet(S \cup T)
      /\ Cardinality(S \cup T) = Cardinality(S) + Cardinality(T) - Cardinality(S \cap T)
  BY FS_Union
<1>2. Cardinality(S) \in Nat /\ Cardinality(T) \in Nat
  BY FS_CardinalityType
<1>3. Cardinality(S \cap T) = 0
  BY FS_EmptySet
<1> QED BY <1>1, <1>2, <1>3

LEMMA CountOfMap ==
  ASSUME NEW S, IsFiniteSet(S), NEW T, NEW f \in [S -> T],
         \A x, y \in S : f[x] = f[y] => x = y, \A t \in T : \E x \in S : f[x] = t
  PROVE  IsFiniteSet(T) /\ Cardinality(T) = Cardinality(S)
<1>1. f \in Injection(S, T) /\ f \in Surjection(S, T)
  <2>1. f \in Injection(S, T)
    BY DEF Injection, IsInjective
  <2>2. f \in Surjection(S, T)
    BY DEF Surjection
  <2> QED BY <2>1, <2>2
<1>2. ExistsBijection(S, T)
  BY <1>1 DEF Bijection, ExistsBijection
<1> QED BY <1>2, FS_Bijection

LEMMA ImageIsFinite ==
  ASSUME NEW S, IsFiniteSet(S), NEW T, NEW f \in [S -> T], \A t \in T : \E x \in S : f[x] = t
  PROVE  IsFiniteSet(T)
<1>1. f \in Surjection(S, T)
  BY DEF Surjection
<1> QED BY <1>1, FS_Surjection

\* Pairs are counted by their first members.
LEMMA PairCount ==
  ASSUME NEW A, IsFiniteSet(A), NEW B, IsFiniteSet(B), NEW R, R \subseteq A \X B, NEW rows,
         \A i \in A : rows[i] \in SUBSET B /\ \A j \in B : j \in rows[i] <=> <<i, j>> \in R,
         NEW v, \A i \in A : v[i] = Cardinality(rows[i])
  PROVE  Cardinality(R) = SumOf(v, A)
<1> DEFINE Of(Q) == {r \in R : r[1] \in Q}
           P == {Q \in SUBSET A : Cardinality(Of(Q)) = SumOf(v, Q)}
<1>1. IsFiniteSet(R)
  <2>1. IsFiniteSet(A \X B)
    BY FS_Product
  <2> QED BY <2>1, FS_Subset
<1>2. \A Q : IsFiniteSet(Of(Q))
  BY <1>1, FS_Subset
<1>3. {} \in P
  <2>1. Of({}) = {}
    OBVIOUS
  <2> HIDE DEF Of
  <2> QED BY <2>1, SumOfNone, FS_EmptySet
<1>4. ASSUME NEW Q \in SUBSET A, NEW x \in A \ Q, Q \in P PROVE Q \cup {x} \in P
  <2> DEFINE row == {j \in B : <<x, j>> \in R}
             f == [j \in row |-> <<x, j>>]
  <2>1. Of(Q \cup {x}) = Of(Q) \cup Of({x}) /\ Of(Q) \cap Of({x}) = {}
    OBVIOUS
  <2>2. Cardinality(Of({x})) = Cardinality(row)
    <3> DEFINE T == Of({x})
    <3>1. IsFiniteSet(row)
      BY FS_Subset
    <3>2. f \in [row -> T]
      OBVIOUS
    <3>3. \A j, k \in row : f[j] = f[k] => j = k
      OBVIOUS
    <3>4. \A r \in T : \E j \in row : f[j] = r
      OBVIOUS
    <3> SUFFICES Cardinality(T) = Cardinality(row)
      OBVIOUS
    <3> HIDE DEF row, T, f
    <3> QED BY <3>1, <3>2, <3>3, <3>4, CountOfMap
  <2>3. v[x] = Cardinality(row)
    <3>1. row = rows[x]
      OBVIOUS
    <3> HIDE DEF row
    <3> QED BY <3>1
  <2>4. SumOf(v, Q \cup {x}) = v[x] + SumOf(v, Q) /\ SumOf(v, Q) \in Int
    <3>1. \A y \in A : v[y] \in Int
      <4> TAKE y \in A
      <4>1. IsFiniteSet(rows[y])
        BY FS_Subset
      <4> QED BY <4>1, FS_CardinalityType
    <3>2. IsFiniteSet(Q) /\ x \notin Q /\ \A y \in Q \cup {x} : v[y] \in Int
      BY <3>1, FS_Subset
    <3> QED BY <3>2, SumOfMore
  <2> HIDE DEF row, Of
  <2>5. Cardinality(Of(Q \cup {x})) = Cardinality(Of(Q)) + Cardinality(Of({x}))
        /\ Cardinality(Of(Q)) \in Nat /\ Cardinality(Of({x})) \in Nat
    BY <1>2, <2>1, DisjointCount
  <2>6. Cardinality(Of(Q)) = SumOf(v, Q)
    BY <1>4
  <2>7. Cardinality(Of(Q \cup {x})) = SumOf(v, Q \cup {x})
    BY <2>2, <2>3, <2>4, <2>5, <2>6
  <2> QED BY <2>7
<1>5. A \in P
  <2> HIDE DEF P
  <2> QED BY <1>3, <1>4, GrowingSets
<1>6. Of(A) = R
  OBVIOUS
<1> HIDE DEF Of
<1> QED BY <1>5, <1>6

\* A sum over things is the sum over their values of what each value adds.
LEMMA SumByValue ==
  ASSUME NEW A, IsFiniteSet(A), NEW T, IsFiniteSet(T), NEW k \in [A -> T],
         NEW w, \A t \in T : w[t] \in Int, NEW v, \A i \in A : v[i] = w[k[i]],
         NEW at, \A t \in T : at[t] \in SUBSET A /\ \A i \in A : i \in at[t] <=> k[i] = t,
         NEW u, \A t \in T : u[t] = w[t] * Cardinality(at[t])
  PROVE  SumOf(v, A) = SumOf(u, T)
<1> DEFINE At(Q, t) == {i \in Q : k[i] = t}
           z(Q) == [t \in T |-> w[t] * Cardinality(At(Q, t))]
           P == {Q \in SUBSET A : SumOf(v, Q) = SumOf(z(Q), T)}
<1>0. \A Q \in SUBSET A : \A t \in T : /\ IsFiniteSet(At(Q, t)) /\ Cardinality(At(Q, t)) \in Nat
                                       /\ z(Q)[t] \in Int
  <2> TAKE Q \in SUBSET A
  <2> TAKE t \in T
  <2>1. IsFiniteSet(At(Q, t)) /\ Cardinality(At(Q, t)) \in Nat
    BY FS_Subset, FS_CardinalityType
  <2> HIDE DEF At
  <2>2. w[t] * Cardinality(At(Q, t)) \in Int
    BY <2>1
  <2> QED BY <2>1, <2>2
<1>1. {} \in P
  <2> DEFINE zero == [t \in T |-> 0]
  <2>1. \A t \in T : At({}, t) = {}
    OBVIOUS
  <2> HIDE DEF At
  <2>2. \A t \in T : z({})[t] = 0
    <3> TAKE t \in T
    <3>1. z({})[t] = w[t] * Cardinality(At({}, t))
      OBVIOUS
    <3>2. Cardinality(At({}, t)) = 0
      BY <2>1, FS_EmptySet
    <3> HIDE DEF z
    <3> QED BY <3>1, <3>2
  <2> DEFINE y == z({})
  <2>3. \A t \in T : y[t] = 0
    BY <2>2
  <2> HIDE DEF y, z
  <2>4. SumOf(y, {}) = SumOf(y, T)
    <3>1. \A t \in T : y[t] \in Int
      BY <2>3
    <3>2. \A t \in T \ {} : y[t] = 0
      BY <2>3
    <3> QED BY <3>1, <3>2, SumOfRest
  <2> QED BY <2>4, SumOfNone DEF y
<1>2. ASSUME NEW Q \in SUBSET A, NEW x \in A \ Q, Q \in P PROVE Q \cup {x} \in P
  <2> DEFINE e == [t \in T |-> IF t = k[x] THEN w[t] ELSE 0]
             y == z(Q)
             n == z(Q \cup {x})
  <2>0. k[x] \in T /\ x \in A /\ x \notin Q /\ Q \cup {x} \in SUBSET A
    OBVIOUS
  <2>1. ASSUME NEW t \in T PROVE y[t] \in Int /\ e[t] \in Int /\ n[t] = y[t] + e[t]
    <3>1. IsFiniteSet(At(Q, t)) /\ Cardinality(At(Q, t)) \in Nat /\ y[t] \in Int
      BY <1>0
    <3>2. CASE t = k[x]
      <4>1. At(Q \cup {x}, t) = At(Q, t) \cup {x} /\ x \notin At(Q, t)
        BY <2>0, <3>2
      <4> HIDE DEF At
      <4>2. Cardinality(At(Q \cup {x}, t)) = Cardinality(At(Q, t)) + 1
        BY <3>1, <4>1, FS_AddElement
      <4>3. \A a \in Int, b \in Nat : a * (b + 1) = a * b + a
        BY Z3
      <4>4. w[t] * Cardinality(At(Q \cup {x}, t)) = w[t] * Cardinality(At(Q, t)) + w[t]
        BY <3>1, <4>2, <4>3
      <4> QED BY <3>1, <3>2, <4>4
    <3>3. CASE t # k[x]
      <4>1. At(Q \cup {x}, t) = At(Q, t)
        BY <3>3
      <4> HIDE DEF At
      <4>2. n[t] = y[t] /\ e[t] = 0
        BY <3>3, <4>1
      <4> HIDE DEF n, y, e
      <4> QED BY <3>1, <4>2
    <3> QED BY <3>2, <3>3
  <2>2. SumOf(n, T) = SumOf(y, T) + SumOf(e, T)
    <3> HIDE DEF n, y, e
    <3> QED BY <2>1, SumOfAll
  <2>3. SumOf(e, T) = w[k[x]]
    <3> DEFINE c == k[x]
    <3>1. c \in T /\ e[c] = w[c] /\ w[c] \in Int /\ \A t \in T \ {c} : e[t] = 0
      BY <2>0
    <3>2. \A t \in T : e[t] \in Int
      BY <2>1
    <3> HIDE DEF e, c
    <3>3. SumOf(e, {c}) = SumOf(e, T)
      BY <3>1, <3>2, SumOfRest
    <3>4. SumOf(e, {} \cup {c}) = e[c] + SumOf(e, {})
      <4>1. \A q \in {} \cup {c} : e[q] \in Int
        BY <3>1
      <4> QED BY <4>1, SumOfMore, FS_EmptySet
    <3>5. {} \cup {c} = {c}
      OBVIOUS
    <3>6. SumOf(e, {c}) = e[c]
      BY <3>1, <3>4, <3>5, SumOfNone
    <3> QED BY <3>1, <3>3, <3>6 DEF c
  <2>4. SumOf(v, Q \cup {x}) = v[x] + SumOf(v, Q) /\ SumOf(v, Q) \in Int
    <3>1. IsFiniteSet(Q) /\ \A q \in Q \cup {x} : v[q] \in Int
      BY FS_Subset
    <3> QED BY <2>0, <3>1, SumOfMore
  <2>5. v[x] = w[k[x]] /\ w[k[x]] \in Int
    BY <2>0
  <2>6. SumOf(v, Q) = SumOf(y, T)
    BY <1>2
  <2> HIDE DEF n, y, e, z
  <2>7. SumOf(v, Q \cup {x}) = SumOf(n, T)
    BY <2>2, <2>3, <2>4, <2>5, <2>6
  <2> QED BY <2>7 DEF n
<1>3. A \in P
  <2> HIDE DEF P
  <2> QED BY <1>1, <1>2, GrowingSets
<1>4. SumOf(u, T) = SumOf(z(A), T)
  <2> DEFINE y == z(A)
  <2>1. \A t \in T : u[t] = y[t]
    <3>1. \A t \in T : at[t] = At(A, t)
      OBVIOUS
    <3> HIDE DEF At
    <3> QED BY <3>1
  <2> HIDE DEF y, z
  <2> QED BY <2>1, SumOfSame DEF y
<1> HIDE DEF z
<1> QED BY <1>3, <1>4

\* Finitely many numbers have a common multiple.
LEMMA CommonMultiple ==
  ASSUME NEW S, IsFiniteSet(S), NEW f \in [S -> Nat \ {0}]
  PROVE  \E d \in Nat \ {0} : \A t \in S : \E m \in Nat : d = m * f[t]
<1> DEFINE P == {s \in SUBSET S : \E d \in Nat \ {0} : \A t \in s : \E m \in Nat : d = m * f[t]}
<1>1. {} \in P
  <2>1. 1 \in Nat \ {0} /\ \A t \in {} : \E m \in Nat : 1 = m * f[t]
    OBVIOUS
  <2> QED BY <2>1
<1>2. ASSUME NEW s \in SUBSET S, NEW x \in S \ s, s \in P PROVE s \cup {x} \in P
  <2>1. PICK d \in Nat \ {0} : \A t \in s : \E m \in Nat : d = m * f[t]
    BY <1>2
  <2> DEFINE e == d * f[x]
  <2>2. f[x] \in Nat \ {0} /\ \A t \in s : f[t] \in Nat
    OBVIOUS
  <2>3. e \in Nat \ {0}
    <3>1. \A a, b \in Nat \ {0} : a * b \in Nat \ {0}
      BY Z3
    <3> QED BY <2>2, <3>1
  <2>4. ASSUME NEW t \in s \cup {x} PROVE \E m \in Nat : e = m * f[t]
    <3>1. CASE t = x
      BY <2>1, <3>1
    <3>2. CASE t \in s
      <4>1. PICK m \in Nat : d = m * f[t]
        BY <2>1, <3>2
      <4>2. \A a, b, c \in Nat : (a * b) * c = (a * c) * b /\ a * c \in Nat
        BY Z3
      <4>3. e = (m * f[x]) * f[t] /\ m * f[x] \in Nat
        BY <2>2, <3>2, <4>1, <4>2
      <4> QED BY <4>3
    <3> QED BY <3>1, <3>2
  <2> HIDE DEF e
  <2> QED BY <2>3, <2>4
<1>3. S \in P
  <2> HIDE DEF P
  <2> QED BY <1>1, <1>2, GrowingSets
<1> QED BY <1>3

\* A fold over the subsets of a finite set exists, whatever member it takes first.
FoldsUp(g, z, h, c, S) ==
  g = [s \in SUBSET S |-> IF s = {} THEN z ELSE h[<<c[s], g[s \ {c[s]}]>>]]

LEMMA FoldExists ==
  ASSUME NEW S, IsFiniteSet(S), NEW V, NEW z \in V, NEW h \in [S \X V -> V], NEW c,
         \A s \in SUBSET S : s # {} => c[s] \in s
  PROVE  \E g \in [SUBSET S -> V] : FoldsUp(g, z, h, c, S)
<1> DEFINE D(n) == {s \in SUBSET S : Cardinality(s) <= n}
           body(g, s) == IF s = {} THEN z ELSE h[<<c[s], g[s \ {c[s]}]>>]
           Folds(g, n) == g \in [D(n) -> V] /\ \A s \in D(n) : g[s] = body(g, s)
           P == {n \in Nat : n <= Cardinality(S) => \E g : Folds(g, n)}
<1>1. \A s \in SUBSET S : /\ IsFiniteSet(s) /\ Cardinality(s) \in Nat
                        /\ Cardinality(s) <= Cardinality(S)
  BY FS_Subset, FS_CardinalityType
<1>2. Cardinality(S) \in Nat
  BY FS_CardinalityType
<1>3. \A s \in SUBSET S : s # {} => /\ c[s] \in S /\ s \ {c[s]} \in SUBSET S
                                    /\ Cardinality(s \ {c[s]}) = Cardinality(s) - 1
  BY <1>1, FS_RemoveElement
<1>4. \A s \in SUBSET S : Cardinality(s) = 0 <=> s = {}
  BY <1>1, FS_EmptySet
<1>5. 0 \in P
  <2> DEFINE g == [s \in D(0) |-> z]
  <2>1. g \in [D(0) -> V]
    OBVIOUS
  <2>2. \A s \in D(0) : s = {}
    BY <1>1, <1>4
  <2>3. \A s \in D(0) : g[s] = body(g, s)
    <3>1. \A s \in D(0) : g[s] = z
      OBVIOUS
    <3> HIDE DEF D, g
    <3> QED BY <2>2, <3>1
  <2> HIDE DEF g, body, D
  <2> QED BY <2>1, <2>3
<1>6. ASSUME NEW n \in Nat, n + 1 <= Cardinality(S), NEW g, Folds(g, n)
      PROVE  n + 1 \in P
  <2> DEFINE e == [s \in D(n + 1) |-> body(g, s)]
  <2>1. \A s \in D(n) : s \in D(n + 1)
    BY <1>1
  <2>2. \A s \in D(n) : e[s] = g[s]
    <3>1. \A s \in D(n) : g[s] = body(g, s)
      <4> HIDE DEF body, D
      <4> QED BY <1>6
    <3> HIDE DEF body, D
    <3> QED BY <2>1, <3>1
  <2>3. \A s \in D(n + 1) : s # {} => s \ {c[s]} \in D(n) /\ c[s] \in S
    BY <1>1, <1>3
  <2>4. \A s \in D(n + 1) : body(g, s) = body(e, s) /\ body(g, s) \in V
    <3>1. \A s \in D(n) : g[s] \in V
      <4> HIDE DEF body, D
      <4> QED BY <1>6
    <3> HIDE DEF e, D
    <3> QED BY <2>2, <2>3, <3>1
  <2>5. Folds(e, n + 1)
    <3> HIDE DEF body, D
    <3> QED BY <2>4
  <2> HIDE DEF Folds, e
  <2> QED BY <2>5
<1>7. Nat \subseteq P
  <2>1. ASSUME NEW n \in Nat, n \in P PROVE n + 1 \in P
    <3> SUFFICES ASSUME n + 1 <= Cardinality(S) PROVE n + 1 \in P
      <4> HIDE DEF Folds
      <4> QED OBVIOUS
    <3>1. n <= Cardinality(S)
      BY <1>2
    <3>2. PICK g : Folds(g, n)
      <4> HIDE DEF Folds
      <4> QED BY <2>1, <3>1
    <3> HIDE DEF P
    <3> QED BY <1>6, <3>2
  <2> HIDE DEF P
  <2> QED BY <1>5, <2>1, UpwardInduction
<1>8. PICK g : Folds(g, Cardinality(S))
  <2> HIDE DEF Folds
  <2> QED BY <1>2, <1>7
<1>9. D(Cardinality(S)) = SUBSET S
  BY <1>1
<1>10. g \in [SUBSET S -> V] /\ \A s \in SUBSET S : g[s] = body(g, s)
  <2> HIDE DEF D, body
  <2> QED BY <1>8, <1>9
<1>11. FoldsUp(g, z, h, c, S)
  <2>1. g = [s \in SUBSET S |-> g[s]]
    BY <1>10
  <2>2. g = [s \in SUBSET S |-> body(g, s)]
    <3> HIDE DEF body
    <3> QED BY <1>10, <2>1
  <2> QED BY <2>2 DEF FoldsUp
<1> QED BY <1>10, <1>11

\* Products compare as their factors do.
LEMMA TimesOrdered ==
  /\ \A a, b, w \in Nat : a >= b => a * w >= b * w
  /\ \A a, b \in Nat, w \in Nat \ {0} : a * w >= b * w => a >= b
<1>1. \A t, r, w \in Nat : (t + r) * w = t * w + r * w /\ r * w \in Nat /\ t * w \in Nat
  BY Z3
<1>2. \A a, b, w \in Nat : a >= b => a * w >= b * w
  <2> TAKE a \in Nat, b \in Nat, w \in Nat
  <2> HAVE a >= b
  <2>1. a - b \in Nat /\ a = b + (a - b)
    OBVIOUS
  <2>2. a * w = b * w + (a - b) * w /\ (a - b) * w \in Nat
    BY <1>1, <2>1
  <2> QED BY <1>1, <2>2
<1>3. ASSUME NEW a \in Nat, NEW b \in Nat, NEW w \in Nat \ {0}, a * w >= b * w, ~(a >= b)
      PROVE  FALSE
  <2>1. b - a - 1 \in Nat /\ b = (a + 1) + (b - a - 1) /\ a + 1 \in Nat
    BY <1>3
  <2>2. b * w = (a + 1) * w + (b - a - 1) * w /\ (b - a - 1) * w \in Nat
    BY <1>1, <2>1
  <2>3. (a + 1) * w = a * w + 1 * w /\ 1 * w = w /\ a * w \in Nat
    BY <1>1
  <2> QED BY <1>3, <2>2, <2>3
<1> QED BY <1>2, <1>3

\* Ratios compare in order.
LEMMA RatiosCompare ==
  ASSUME NEW a \in Nat, NEW b \in Nat \ {0}, NEW c \in Nat, NEW d \in Nat \ {0},
         NEW e \in Nat, NEW f \in Nat \ {0}, a * d <= c * b, c * f <= e * d
  PROVE  a * f <= e * b
<1>1. \A x, y, z \in Nat : x <= y => x * z <= y * z
  <2>1. \A r, t, w \in Nat : (t + r) * w = t * w + r * w /\ r * w \in Nat /\ t * w \in Nat
    BY Z3
  <2> TAKE x \in Nat, y \in Nat, z \in Nat
  <2> HAVE x <= y
  <2>2. y - x \in Nat /\ y = x + (y - x)
    OBVIOUS
  <2>3. y * z = x * z + (y - x) * z /\ (y - x) * z \in Nat /\ x * z \in Nat
    BY <2>1, <2>2
  <2> QED BY <2>3
<1>2. a * d \in Nat /\ c * b \in Nat /\ c * f \in Nat /\ e * d \in Nat
      /\ a * f \in Nat /\ e * b \in Nat
  BY ProductIsNat
<1>3. (a * d) * f <= (c * b) * f /\ (c * f) * b <= (e * d) * b
  BY <1>1, <1>2
<1>4. /\ (a * d) * f = (a * f) * d /\ (c * b) * f = (c * f) * b /\ (e * d) * b = (e * b) * d
  <2>1. \A x, y, z \in Nat : (x * y) * z = (x * z) * y
    BY Z3
  <2> QED BY <2>1
<1>5. (a * f) * d <= (e * b) * d
  <2>1. (a * f) * d \in Nat /\ (c * f) * b \in Nat /\ (e * b) * d \in Nat
    BY <1>2, ProductIsNat
  <2> QED BY <1>3, <1>4, <2>1
<1>6. SUFFICES ASSUME ~(a * f <= e * b) PROVE FALSE
  OBVIOUS
<1>7. e * b + 1 <= a * f /\ e * b + 1 \in Nat
  BY <1>2, <1>6
<1>8. (e * b + 1) * d <= (a * f) * d
  BY <1>1, <1>2, <1>7
<1>9. (e * b + 1) * d = (e * b) * d + d /\ (e * b) * d \in Nat /\ (a * f) * d \in Nat
  <2>1. \A x, y \in Nat : (x + 1) * y = x * y + y /\ x * y \in Nat
    BY Z3
  <2> QED BY <1>2, <2>1
<1> QED BY <1>5, <1>8, <1>9
=============================================================================
