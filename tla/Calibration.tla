---------------------------- MODULE Calibration -----------------------------
(***************************************************************************)
(* risk/calibration.py: the map from a detector's raw score to a           *)
(* probability, fitted by pooling adjacent violators, and the error by     *)
(* which a map is judged.  A sample is a sequence of rows                  *)
(* [score, label, weight]; scores are integers, probabilities fractions.   *)
(***************************************************************************)
EXTENDS Ratio, Sequences, SequencesExt, TLC

Scores(sample) == {sample[i].score : i \in DOMAIN sample}

\* sorted() of distinct scores.
Ascending(S) ==
  [k \in 1..Cardinality(S) |-> CHOOSE x \in S : Cardinality({y \in S : y < x}) = k - 1]

Weight(sample, is) == MapThenSumSet(LAMBDA i : sample[i].weight, is)
Positives(sample, is) ==
  MapThenSumSet(LAMBDA i : IF sample[i].label THEN sample[i].weight ELSE 0, is)

\* _mean of a block.
Mean(block) == Frac(block.positives, block.count)

Block(sample, x, is) ==
  [low |-> x, high |-> x, positives |-> Positives(sample, is), count |-> Weight(sample, is)]

\* Faulty variant: tied rows enter one at a time, as in the code's comment.
SingletonsPerRow(sample) ==
  LET order == SortSeq([i \in DOMAIN sample |-> i],
                 LAMBDA i, j : \/ sample[i].score < sample[j].score
                               \/ sample[i].score = sample[j].score /\ i < j)
  IN  [k \in DOMAIN sample |-> Block(sample, sample[order[k]].score, {order[k]})]

\* A block per distinct score, the lowest first: tied rows enter as one.
Singletons(sample) ==
  LET x == Ascending(Scores(sample))
  IN  [k \in DOMAIN x |-> Block(sample, x[k], {i \in DOMAIN sample : sample[i].score = x[k]})]

Pooled(left, right) ==
  [low |-> left.low, high |-> right.high,
   positives |-> left.positives + right.positives, count |-> left.count + right.count]

\* A turn of the while loop: the last block swallows its neighbour if that exceeds it.
Pool(blocks) ==
  LET n == Len(blocks)
  IN  IF n >= 2 /\ Below(Mean(blocks[n]), Mean(blocks[n - 1]))
      THEN Append(SubSeq(blocks, 1, n - 2), Pooled(blocks[n - 1], blocks[n]))
      ELSE blocks

\* Faulty variant: a new block is pooled with its neighbour only.
PushOnce(blocks, block) == Pool(Append(blocks, block))

\* The while loop, which is over after a turn per block.
Push(blocks, block) ==
  LET turns[k \in 0..Len(blocks)] ==
        IF k = 0 THEN Append(blocks, block) ELSE Pool(turns[k - 1])
  IN  turns[Len(blocks)]

\* The loop over the scores.
Blocks(sample) ==
  LET singles == Singletons(sample)
      pushed[k \in 0..Len(singles)] ==
        IF k = 0 THEN <<>> ELSE Push(pushed[k - 1], singles[k])
  IN  pushed[Len(singles)]

\* IsotonicCalibrator.fit: the probability at each knot, which are the ends of the
\* blocks; where two knots meet, predict finds the first.
Fit(sample) ==
  LET blocks == Blocks(sample)
      ending(x) == {k \in DOMAIN blocks : x \in {blocks[k].low, blocks[k].high}}
  IN  [x \in UNION {{blocks[k].low, blocks[k].high} : k \in DOMAIN blocks} |->
         Mean(blocks[Min(ending(x))])]

\* predict: flat outside the knots, a ramp from one to the next between them.
Predict(map, x) ==
  LET knots == DOMAIN map
      left == Max({k \in knots : k < x})
      right == Min({k \in knots : x <= k})
  IN  IF x <= Min(knots) THEN map[Min(knots)]
      ELSE IF x >= Max(knots) THEN map[Max(knots)]
      ELSE Plus(map[left],
                Times(Minus(map[right], map[left]), Frac(x - left, right - left)))

-----------------------------------------------------------------------------
\* The bin of a probability, of ten; 1 belongs to the last one.
Bins == 10
BinOf(p) == Min({Bins - 1, (p[1] * Bins) \div p[2]})

\* expected_calibration_error of predictions about a sample.
CalibrationError(predicted, sample) ==
  LET total == Weight(sample, DOMAIN sample)
      members(b) == {i \in DOMAIN sample : BinOf(predicted[i]) = b}
      confidence(b) == Total(LAMBDA i : Times(predicted[i], <<sample[i].weight, 1>>), members(b))
      gap(b) == Absolute(Minus(confidence(b), <<Positives(sample, members(b)), 1>>))
  IN  Times(Total(gap, 0..(Bins - 1)), <<1, total>>)
=============================================================================
