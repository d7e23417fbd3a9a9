------------------------------ MODULE Samples -------------------------------
(***************************************************************************)
(* The statistics on a labelled sample that grows by a row at a time: the  *)
(* map that is fitted, the metrics that judge a score, and the threshold   *)
(* that is released.                                                       *)
(***************************************************************************)
EXTENDS RankMetrics, Conformal

CONSTANTS ScoreRange, Weights,  \* what a row may score and weigh
          MaxRows               \* bound: rows of a sample

ASSUME SamplesAssumption ==
  /\ ScoreRange \in SUBSET Nat /\ IsFiniteSet(ScoreRange) /\ ScoreRange # {}
  /\ Weights \in SUBSET (Nat \ {0}) /\ MaxRows \in Nat

VARIABLE sample

LabelledRow == [score : ScoreRange, label : BOOLEAN, weight : Weights]

AddRow ==
  /\ Len(sample) < MaxRows
  /\ \E r \in LabelledRow : sample' = Append(sample, r)

SamplesSpec == sample = <<>> /\ [][AddRow]_sample

-----------------------------------------------------------------------------
(* Properties.                                                             *)

\* The definition of the isotonic fit: at the i-th score, the highest over the
\* starts up to i of the lowest mean of a run from there to i or beyond.
Isotonic(i) ==
  LET x == Ascending(Scores(sample))
      in(j, k) == {r \in DOMAIN sample : x[j] <= sample[r].score /\ sample[r].score <= x[k]}
      mean(j, k) == Frac(Positives(sample, in(j, k)), Weight(sample, in(j, k)))
  IN  Largest({Smallest({mean(j, k) : k \in i..Len(x)}) : j \in 1..i})

\* calibration.py: "pair-adjacent violators" over tied and weighted rows gives
\* the isotonic regression of the labels, at every score of the sample.
FitIsIsotonic ==
  sample # <<>> =>
    \A i \in 1..Cardinality(Scores(sample)) :
      Predict(Fit(sample), Ascending(Scores(sample))[i]) = Isotonic(i)

\* The comment in fit: "a synthetic detector with raw AUC 0.9893 calibrated to
\* 0.5000".  On the rows that fitted it a map never ranks worse than the raw
\* score did.
CalibrationKeepsRanking ==
  BothClasses(sample) =>
    LET plain == [i \in DOMAIN sample |-> [sample[i] EXCEPT !.weight = 1]]
        map == Fit(plain)
        calibrated(i) == Predict(map, sample[i].score)
        rank(i) == Cardinality({calibrated(j) : j \in {j \in DOMAIN sample :
                     Below(calibrated(j), calibrated(i))}})
    IN  AtMost(RankAuc(plain),
               RankAuc([i \in DOMAIN sample |-> [plain[i] EXCEPT !.score = rank(i)]]))

\* The mean over the positives of the precision at their score.
MeanPrecision(s) ==
  LET precision(i) == Frac(Cardinality(Caught(s, s[i].score)),
                           Cardinality(Flagged(s, s[i].score)))
  IN  Times(Total(precision, Positive(s)), Frac(1, Cardinality(Positive(s))))

\* benchmark_metrics.py: "everything here uses mid-ranks or the pessimistic
\* convention".  The rank formula is the pair count of the probes, average
\* precision is the mean over the positives of the precision at their score,
\* the best threshold is no worse than flagging everything, and no threshold
\* that reaches a recall is cheaper than the one found.
MetricsAgree ==
  BothClasses(sample) =>
    /\ RankAuc(sample) = PairAuc(sample)
    /\ AveragePrecision(sample) = MeanPrecision(sample)
    /\ AtMost(FlagEverythingF1(sample), F1(sample, BestF1Threshold(sample)))
    /\ \A k \in 1..Cardinality(Positive(sample)) :
         {FalsePositives(sample, b) :
            b \in CheapestAtRecall(sample, Frac(k, Cardinality(Positive(sample))))}
           = {Cardinality({j \in Negative(sample) :
                Cardinality({i \in Positive(sample) : sample[i].score > sample[j].score}) < k})}

ScoreOf(s) == [i \in DOMAIN s |-> <<s[i].score, Max(ScoreRange) + 1>>]
Selected(s) == LearnThenTest(ScoreOf(s), [i \in DOMAIN s |-> s[i].label])

\* learn_then_test selects "the least checking that passes a finite-sample
\* escape-risk test": a clean row never tightens a threshold that released
\* something, a harmful row never loosens one.
LabelsMoveThreshold ==
  [][sample # <<>> =>
       IF Last(sample').label
       THEN AtMost(Selected(sample').threshold, Selected(sample).threshold)
       ELSE Selected(sample).released > 0
            => AtMost(Selected(sample).threshold, Selected(sample').threshold)]_sample
=============================================================================
