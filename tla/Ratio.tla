------------------------------- MODULE Ratio --------------------------------
(***************************************************************************)
(* Exact fractions, for the numbers the code keeps as floats: a fraction is*)
(* a pair, numerator and positive denominator, in lowest terms.            *)
(***************************************************************************)
EXTENDS Integers, FiniteSets, FiniteSetsExt

Gcd[p \in Nat \X Nat] == IF p[2] = 0 THEN p[1] ELSE Gcd[<<p[2], p[1] % p[2]>>]

Frac(n, d) ==
  LET g == Gcd[<<IF n < 0 THEN -n ELSE n, d>>] IN <<n \div g, d \div g>>

Zero == <<0, 1>>
Unit == <<1, 1>>

Plus(p, q) == Frac(p[1] * q[2] + q[1] * p[2], p[2] * q[2])
Minus(p, q) == Frac(p[1] * q[2] - q[1] * p[2], p[2] * q[2])
Times(p, q) == Frac(p[1] * q[1], p[2] * q[2])
Absolute(p) == IF p[1] < 0 THEN <<-p[1], p[2]>> ELSE p

Below(p, q) == p[1] * q[2] < q[1] * p[2]
AtMost(p, q) == p[1] * q[2] <= q[1] * p[2]

Largest(S) == CHOOSE p \in S : \A q \in S : AtMost(q, p)
Smallest(S) == CHOOSE p \in S : \A q \in S : AtMost(p, q)

\* The sum of f over a finite set.
Total(f(_), S) == MapThenFoldSet(Plus, Zero, f, LAMBDA T : CHOOSE x \in T : TRUE, S)
=============================================================================
