----------------------------- MODULE Conformal ------------------------------
(***************************************************************************)
(* guarantees/conformal.py: the release threshold of a route, the largest  *)
(* of a grid whose rows below it pass an exact binomial test of the escape *)
(* rate.  Scores are fractions; the k-th candidate is k / (GridSize - 1).  *)
(*                                                                         *)
(* binomial_upper_bound is the least rate at which so few escapes have     *)
(* probability delta at most, found by bisection; it is at most alpha      *)
(* exactly if that probability at alpha is at most delta, which is what is *)
(* tested here, in integers.                                               *)
(***************************************************************************)
EXTENDS Ratio, Sequences, Combinatorics

CONSTANTS Alpha, Delta,    \* fractions: the target rate and the error budget
          GridSize

ASSUME ConformalAssumption ==
  /\ {Alpha, Delta} \subseteq Nat \X (Nat \ {0})
  /\ Below(Zero, Alpha) /\ Below(Alpha, Unit)
  /\ Below(Zero, Delta) /\ Below(Delta, Unit)
  /\ GridSize \in Nat \ {0, 1}

Candidate(k) == <<k, GridSize - 1>>
Candidates == 0..(GridSize - 1)

\* delta / grid_size: one test per candidate.
CorrectedDelta == <<Delta[1], Delta[2] * GridSize>>

PowerOf(b, n) == LET p[i \in Nat] == IF i = 0 THEN 1 ELSE b * p[i - 1] IN p[n]

\* _binomial_tail, times rate[2]^n: at most k of n escape, at this rate.
Tails(rate, k, n) ==
  MapThenSumSet(LAMBDA i :
      choose(n, i) * (PowerOf(rate[1], i) * PowerOf(rate[2] - rate[1], n - i)), 0..k)

\* binomial_upper_bound(k, n) <= alpha; of no row at all the bound is 0.
Passes(k, n) ==
  \/ n = 0
  \/ k < n /\ Tails(Alpha, k, n) * CorrectedDelta[2] <= CorrectedDelta[1] * PowerOf(Alpha[2], n)

BelowCandidate(scores, c) == {i \in DOMAIN scores : Below(scores[i], Candidate(c))}

\* _test_threshold
Certificate(scores, harmed, c) ==
  LET released == BelowCandidate(scores, c)
      escaped == {i \in released : harmed[i]}
  IN  [threshold |-> Candidate(c), released |-> Cardinality(released),
       escaped |-> Cardinality(escaped)]

Passing(scores, harmed) ==
  {c \in Candidates : LET t == Certificate(scores, harmed, c) IN Passes(t.escaped, t.released)}

\* Faulty variant: the search stops at the first candidate that fails.
LearnThenTestInOrder(scores, harmed) ==
  Certificate(scores, harmed,
              Max({c \in Candidates : 0..c \subseteq Passing(scores, harmed)}))

\* learn_then_test: the largest candidate that passes, or 0, which releases nothing.
LearnThenTest(scores, harmed) ==
  IF Passing(scores, harmed) = {}
  THEN [threshold |-> Candidate(0), released |-> 0, escaped |-> 0]
  ELSE Certificate(scores, harmed, Max(Passing(scores, harmed)))
=============================================================================
