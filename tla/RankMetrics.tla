---------------------------- MODULE RankMetrics -----------------------------
(***************************************************************************)
(* eval/benchmark_metrics.py: how well a score ranks harmful rows above    *)
(* clean ones, and what one threshold does.  Rows as in Calibration; their *)
(* weights play no part here.                                              *)
(***************************************************************************)
EXTENDS Calibration

Positive(sample) == {i \in DOMAIN sample : sample[i].label}
Negative(sample) == {i \in DOMAIN sample : ~sample[i].label}
BothClasses(sample) == Positive(sample) # {} /\ Negative(sample) # {}

\* Faulty variant: tied rows are ranked in the order they come.
RankByPosition(sample, i) ==
  2 * Cardinality({j \in DOMAIN sample :
        sample[j].score < sample[i].score \/ (sample[j].score = sample[i].score /\ j <= i)})

\* _mid_ranks, doubled: the mean of the first and the last rank of a tie.
MidRank(sample, i) ==
  LET below == Cardinality({j \in DOMAIN sample : sample[j].score < sample[i].score})
      tied == Cardinality({j \in DOMAIN sample : sample[j].score = sample[i].score})
  IN  (below + 1) + (below + tied)

\* rank_auc: what is left of the positives' ranks, over all pairs.
RankAuc(sample) ==
  LET p == Cardinality(Positive(sample))
      n == Cardinality(Negative(sample))
  IN  Frac(MapThenSumSet(LAMBDA i : MidRank(sample, i), Positive(sample)) - p * (p + 1),
           2 * p * n)

\* _auc of judge_probe.py and pii_probe.py: wins and half of the ties, pair by
\* pair.
PairAuc(sample) ==
  LET pairs == Positive(sample) \X Negative(sample)
      wins == {q \in pairs : sample[q[1]].score > sample[q[2]].score}
      ties == {q \in pairs : sample[q[1]].score = sample[q[2]].score}
  IN  Frac(2 * Cardinality(wins) + Cardinality(ties), 2 * Cardinality(pairs))

Flagged(sample, t) == {i \in DOMAIN sample : sample[i].score >= t}
Caught(sample, t) == Flagged(sample, t) \cap Positive(sample)

\* average_precision: a step per distinct score, every row of it at once.
AveragePrecision(sample) ==
  LET p == Cardinality(Positive(sample))
      step(t) ==
        LET before == Cardinality({i \in Caught(sample, t) : sample[i].score > t})
            hits == Cardinality(Caught(sample, t))
        IN  Times(Frac(hits, Cardinality(Flagged(sample, t))), Frac(hits - before, p))
  IN  Total(step, Scores(sample))

\* operating_point: 2PR/(P+R), which is 2TP over flagged and positive rows.
F1(sample, t) ==
  LET hits == Cardinality(Caught(sample, t))
  IN  IF hits = 0 THEN Zero
      ELSE Frac(2 * hits, Cardinality(Flagged(sample, t)) + Cardinality(Positive(sample)))

FalsePositives(sample, t) == Cardinality(Flagged(sample, t) \cap Negative(sample))

\* best_f1_threshold: max() keeps the first, so the lowest, of equals.
BestF1Threshold(sample) ==
  Min({t \in Scores(sample) : \A u \in Scores(sample) : AtMost(F1(sample, u), F1(sample, t))})

\* flag_everything_f1
FlagEverythingF1(sample) ==
  LET p == Cardinality(Positive(sample)) IN Frac(2 * p, Len(sample) + p)

\* false_positive_rate_at_recall: over the scores in order, kept if cheaper.
CheapestAtRecall(sample, recall) ==
  LET reaches(t) ==
        AtMost(recall, Frac(Cardinality(Caught(sample, t)), Cardinality(Positive(sample))))
      cheaper(best, t) ==
        IF reaches(t) /\ (best = {} \/ \E b \in best : FalsePositives(sample, t) < FalsePositives(sample, b))
        THEN {t} ELSE best
  IN  FoldLeft(cheaper, {}, Ascending(Scores(sample)))
=============================================================================
