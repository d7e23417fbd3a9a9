-------------------------- MODULE EvaluationReport --------------------------
(***************************************************************************)
(* What eval/report.py compares the allocator's window with: the baselines *)
(* run over the same rows through the same verdict rule (eval/baselines.py)*)
(* and the outcome of a row (eval/metrics.py).                             *)
(***************************************************************************)
EXTENDS EvaluationWindow

BaselineTiers == {1, 2}

\* What checking row i at tier k costs.
CheckCost(i, k) == Cost[k][rows[i].effect]

\* The order of the candidates: by raw score, the highest first; sorted() is
\* stable, so of equals the earlier row comes first.
RankedBefore(i, j) ==
  \/ Maximum(rows[i].harm) > Maximum(rows[j].harm)
  \/ Maximum(rows[i].harm) = Maximum(rows[j].harm) /\ i < j

RankedLast(is) == CHOOSE i \in is : \A j \in is \ {i} : RankedBefore(j, i)

\* Faulty variant: a candidate is taken while anything is left to spend.
FixedRateOverdrawn(k, limit) ==
  MapThenFoldSet(LAMBDA i, acc :
      IF acc.spent < limit
      THEN [spent |-> acc.spent + CheckCost(i, k), rows |-> acc.rows \cup {i}]
      ELSE acc,
    [spent |-> 0, rows |-> {}], LAMBDA i : i, RankedLast, DOMAIN rows)

\* fixed_rate: every candidate in turn, if it still fits the limit.  The fold
\* adds the last candidate to what the ones before it left.
FixedRate(k, limit) ==
  MapThenFoldSet(LAMBDA i, acc :
      IF acc.spent + CheckCost(i, k) <= limit
      THEN [spent |-> acc.spent + CheckCost(i, k), rows |-> acc.rows \cup {i}]
      ELSE acc,
    [spent |-> 0, rows |-> {}], LAMBDA i : i, RankedLast, DOMAIN rows)

\* _baseline_rows: the shipped verdict rule, with no floor.
BaselineTraces(chosen, k) ==
  [i \in DOMAIN rows |->
     LET tier == IF i \in chosen THEN k ELSE NoTier
     IN  [tier |-> tier, harm |-> rows[i].harm, spend |-> Spend(tier, rows[i].effect),
          verdict |-> Verdict(rows[i].harm, rows[i].regime, rows[i].effect, FALSE, tier).verdict]]

Released(t) == t.verdict \notin {"block", "abstain"}

\* outcome(): what was averted on row i; a withheld response averts all of it.
CaughtAxes(i, t) ==
  IF t.tier = NoTier THEN {}
  ELSE {a \in Axis : rows[i].truth[a] > 0 /\ CatchDraw[i] < CatchRate[t.tier][a]}

Loss(i, axes) == MapThenSumSet(LAMBDA a : rows[i].truth[a] * Consequence[a], axes)

\* Faulty variant: a response is credited with what its check caught.
AvertedIfCaught(i, t) == Loss(i, CaughtAxes(i, t))

Averted(i, t) == Loss(i, IF Released(t) THEN CaughtAxes(i, t) ELSE Axis)

TotalAverted(ts) == MapThenSumSet(LAMBDA i : Averted(i, ts[i]), DOMAIN ts)

\* summarize(): residual_loss_inr, over released rows only.
Residual(ts) ==
  MapThenSumSet(LAMBDA i : Loss(i, Axis) - Averted(i, ts[i]),
                {i \in DOMAIN ts : Released(ts[i])})

\* EvaluationRow.escaped
Escaped(i, t) == Released(t) /\ HasHarm(rows[i].truth) /\ CaughtAxes(i, t) = {}

\* _best_fixed_rate: the tier that averts most within the allocator's spend,
\* the first one of equals.
BestFixedRate(limit) ==
  LET run == [k \in BaselineTiers |-> BaselineTraces(FixedRate(k, limit).rows, k)]
      best == CHOOSE k \in BaselineTiers : \A j \in BaselineTiers :
                \/ TotalAverted(run[k]) > TotalAverted(run[j])
                \/ TotalAverted(run[k]) = TotalAverted(run[j]) /\ k <= j
  IN  run[best]

-----------------------------------------------------------------------------
\* baselines.py: it "ranks the whole test set at once" and is "held to the
\* budget".  At every tier the baseline spends no more than the allocator did,
\* and a row it leaves unchecked did not fit after the checked rows that are
\* riskier, or as risky and earlier.
BaselineAtMatchedSpend ==
  desk = "collecting" /\ rowsServed = RowsExpected =>
    \A k \in BaselineTiers :
      LET run == FixedRate(k, committed)
          before(j) == {i \in run.rows : RankedBefore(i, j)}
          cost(is) == MapThenSumSet(LAMBDA i : CheckCost(i, k), is)
      IN  /\ cost(run.rows) <= committed
          /\ \A j \in DOMAIN rows \ run.rows : cost(before(j)) + CheckCost(j, k) > committed

\* metrics.py: what a withheld response would have cost is averted whole, and
\* what a released one costs is averted axis by axis.  For the allocator and
\* the tuned baseline alike, averted and residual loss add up to all there was
\* to lose, and harm a user received with nothing caught stays in the residual.
LossIsAccounted ==
  desk = "collecting" /\ rowsServed = RowsExpected =>
    \A ts \in {traces, BestFixedRate(committed)} :
      /\ TotalAverted(ts) + Residual(ts)
           = MapThenSumSet(LAMBDA i : Loss(i, Axis), DOMAIN rows)
      /\ MapThenSumSet(LAMBDA i : Loss(i, Axis), {i \in DOMAIN ts : Escaped(i, ts[i])})
           <= Residual(ts)
=============================================================================
