------------------------------- MODULE Refit --------------------------------
(***************************************************************************)
(* learning/refit.py: reviewer labels joined to the raw scores of the      *)
(* decisions they are about, weighted by how they were sampled, and, route *)
(* by route, new maps and a new threshold or the reason for a refusal.     *)
(*                                                                         *)
(* The recorded chain holds one decision and at most one review of an      *)
(* interaction (the evaluation starts it afresh), so it is two functions   *)
(* of the interaction here and "the newest record" plays no part.  Every   *)
(* decision is recorded with its raw scores and every review with the axes *)
(* it observed (report.py), so no row is skipped for the lack of them.     *)
(***************************************************************************)
EXTENDS Calibration, Conformal

CONSTANTS
  Axis,                       \* HARM_AXES
  FittingFold,                \* the ids in_fitting_fold() is true of
  ScoreSteps,                 \* a raw score is one of 0..ScoreSteps
  MinFitting, MinSelection,   \* MIN_FITTING_ROWS, MIN_SELECTION_ROWS
  MaxEce, EceTolerance,       \* fractions
  AuditUnchecked, AuditChecked,   \* the audit's rates: a row in so many
  WeightUnit                  \* weights are in 1 / WeightUnit: whole numbers

ASSUME RefitAssumption ==
  /\ ScoreSteps \in Nat \ {0} /\ MinFitting \in Nat /\ MinSelection \in Nat
  /\ AuditUnchecked \in Nat \ {0} /\ AuditChecked \in Nat \ {0} /\ WeightUnit \in Nat \ {0}

Withheld == {"hold", "abstain", "block"}
NoTier == -1

\* _inclusion_rates, as the pair it divides: of the cases a route raised, how
\* many were reviewed in a random slot.
Raised(decisions, route) ==
  {i \in DOMAIN decisions : decisions[i].route = route /\ decisions[i].verdict \in Withheld}
Sampled(decisions, reviews, route) ==
  {i \in Raised(decisions, route) \cap DOMAIN reviews : reviews[i].random}

\* Faulty variant: what the serving rule chose counts like what was drawn.
WeightIfServed(decisions, reviews, i) ==
  LET route == decisions[i].route
  IN  IF reviews[i].withheld
      THEN (WeightUnit * Cardinality(Raised(decisions, route)))
             \div Cardinality(Raised(decisions, route) \cap DOMAIN reviews)
      ELSE WeightUnit * (IF reviews[i].tier = NoTier THEN AuditUnchecked ELSE AuditChecked)

\* 1 / _inclusion_probability; 0 where it cannot be computed.
InclusionWeight(decisions, reviews, i) ==
  LET route == decisions[i].route
      sampled == Cardinality(Sampled(decisions, reviews, route))
  IN  IF reviews[i].random
      THEN IF sampled = 0 THEN 0
           ELSE (WeightUnit * Cardinality(Raised(decisions, route))) \div sampled
      ELSE IF reviews[i].withheld THEN 0
      ELSE WeightUnit * (IF reviews[i].tier = NoTier THEN AuditUnchecked ELSE AuditChecked)

\* collect_labelled_scores: a function of the ids that can be used.
Collect(decisions, reviews) ==
  [i \in {j \in DOMAIN decisions \cap DOMAIN reviews :
            InclusionWeight(decisions, reviews, j) > 0} |->
     [route |-> decisions[i].route, raw |-> decisions[i].raw, by |-> decisions[i].by,
      axes |-> reviews[i].axes, harm |-> reviews[i].harm,
      weight |-> InclusionWeight(decisions, reviews, i)]]

Routes(rows) == {rows[i].route : i \in DOMAIN rows}
OfRoute(rows, route) == {i \in DOMAIN rows : rows[i].route = route}

\* Faulty variant: the rows that fitted a map also certify its threshold.
SelectionAll(rows, route) == OfRoute(rows, route)

Fitting(rows, route) == OfRoute(rows, route) \cap FittingFold
Selection(rows, route) == OfRoute(rows, route) \ FittingFold

Ordered(ids) == Ascending(ids)

\* _fit_axes
FitAxes(rows, ids) ==
  [a \in Axis |->
     Fit([k \in DOMAIN Ordered(ids) |->
            LET i == Ordered(ids)[k]
            IN  [score |-> rows[i].raw[a], label |-> rows[i].axes[a], weight |-> rows[i].weight]])]

\* _calibrated_max
CalibratedMax(maps, raw) == Largest({Predict(maps[a], raw[a]) : a \in Axis})

\* The selection fold through the maps that will serve it.
ScoresOf(maps, rows, ids) ==
  [k \in DOMAIN Ordered(ids) |-> CalibratedMax(maps, rows[Ordered(ids)[k]].raw)]
HarmedOf(rows, ids) == [k \in DOMAIN Ordered(ids) |-> rows[Ordered(ids)[k]].harm]

Certify(maps, rows, ids) == LearnThenTest(ScoresOf(maps, rows, ids), HarmedOf(rows, ids))

ErrorOf(maps, rows, ids) ==
  CalibrationError(ScoresOf(maps, rows, ids),
    [k \in DOMAIN Ordered(ids) |-> [score |-> 0, label |-> rows[Ordered(ids)[k]].harm,
                                    weight |-> rows[Ordered(ids)[k]].weight]])

-----------------------------------------------------------------------------
\* Why refit_calibration refuses a route, in the order it asks; "" if it does
\* not.  incumbent has the maps of the newest matching artifact, by route.
Refusal(rows, route, incumbent) ==
  LET fitting == Fitting(rows, route)
      selection == Selection(rows, route)
      maps == FitAxes(rows, fitting)
  IN  IF Cardinality(fitting) < MinFitting \/ Cardinality(selection) < MinSelection
        THEN "too few rows"
      ELSE IF Certify(maps, rows, selection).threshold[1] = 0 THEN "full coverage"
      ELSE LET error == ErrorOf(maps, rows, selection) IN
        IF Below(MaxEce, error) THEN "calibration error"
        ELSE IF /\ route \in DOMAIN incumbent
                /\ Below(Plus(ErrorOf(incumbent[route].maps, rows, selection), EceTolerance), error)
          THEN "worse than the incumbent"
        ELSE ""

RouteCalibration(rows, route) ==
  LET maps == FitAxes(rows, Fitting(rows, route))
  IN  [maps |-> maps, certificate |-> Certify(maps, rows, Selection(rows, route))]

\* refit_calibration: what is accepted, with its maps, and what is refused.
RefitOutcome(rows, incumbent) ==
  LET refusal == [r \in Routes(rows) |-> Refusal(rows, r, incumbent)]
  IN  [accepted |-> [r \in {r \in Routes(rows) : refusal[r] = ""} |-> RouteCalibration(rows, r)],
       refused |-> {r \in Routes(rows) : refusal[r] # ""}]
=============================================================================
