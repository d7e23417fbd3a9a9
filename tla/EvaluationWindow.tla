-------------------------- MODULE EvaluationWindow --------------------------
(***************************************************************************)
(* One budget of the evaluation, from the first row served to the labels   *)
(* (eval/report.py, eval/attention.py): _run_allocator streams the test    *)
(* rows under a governed budget, _run_review sends what was withheld to the*)
(* review desk and audits a slice of what was released, and the same rows  *)
(* go through the baselines.  The composition of Allocation, Budget and    *)
(* ReviewDesk.                                                             *)
(***************************************************************************)
EXTENDS Allocation, Budget, ReviewDesk, SequencesExt

CONSTANTS
  RowKind,          \* what a test row may be: see IsRow
  Threshold,        \* per route, its conformal threshold
  SlaMinutes,       \* per route, review_sla_minutes
  RowsPerHour,      \* INTERACTIONS_PER_HOUR
  ReviewerCorrect,  \* per row, does the reviewer's draw reach the error rate?
  AuditDraw,        \* per row, its audit draw in hundredths
  CatchDraw,        \* per row, its catch draw in hundredths, on every axis
  AuditUnchecked, AuditChecked   \* audit rates in hundredths

\* A row as assess() sees it: the calibrated vector of tiers 0 and 1, what it
\* would be with the judge's signal, and the truth, per axis a 0 or 100.
IsRow(x) ==
  /\ x.route \in DOMAIN Threshold
  /\ x.harm \in Vector /\ x.judged \in Vector /\ x.truth \in [Axis -> {0, 100}]
  /\ x.regime \in Regime
  /\ x.effect \in Effect \cup {NoEffect}

ASSUME WindowAssumption ==
  /\ \A x \in RowKind : IsRow(x)
  /\ RowsPerHour \in Nat \ {0}
  /\ SlaMinutes \in [DOMAIN Threshold -> Nat]
  /\ StableUniform \in [1..RowsExpected -> Nat]

\* What Budget leaves open of a row's spend is what its checks cost; the floor
\* buys tier 1.
ASSUME SpendsAssumption ==
  /\ Spends = {0} \cup {Cost[k][e] : k \in Tier, e \in Effect \cup {NoEffect}}
  /\ \A e \in Effect \cup {NoEffect} : Cost[1][e] <= FloorMax

VARIABLES
  rows,         \* the test rows served so far, in order
  traces,       \* their DecisionTraces
  records       \* the ReviewRecords, once the desk has drained

windowVars == <<budgetVars, deskVars, rows, traces, records>>

Init ==
  /\ BudgetInit /\ DeskInit
  /\ rows = <<>> /\ traces = <<>> /\ records = {}

-----------------------------------------------------------------------------
\* The controller's price, in the hundredths the allocator works in.
PriceInForce == (shadowPrice * LearningRate) \div (Scale * BudgetInr)

\* Faulty variant: a row served with nothing to spare is priced as any other.
AssessUngoverned(x, price, mandatory) ==
  Allocate(x.harm, x.regime, x.effect, price, Threshold[x.route])

\* AssessmentEngine.assess, without a session: both passes.
Assess(x, price, mandatory) ==
  LET p == IF mandatory THEN MandatoryOnlyPrice(x.harm, x.effect, price) ELSE price
      first == Allocate(x.harm, x.regime, x.effect, p, Threshold[x.route])
      second == Allocate(x.judged, x.regime, x.effect, p, Threshold[x.route])
  IN  IF first.tier # 2 THEN first
      ELSE [second EXCEPT !.tier = 2, !.spend = first.spend, !.forced = first.forced]

\* One turn of _run_allocator's loop.
AssessRow ==
  /\ desk = "collecting" /\ rowsServed < RowsExpected
  /\ \E x \in RowKind :
       LET t == Assess(x, PriceInForce, MandatoryOnly) IN
       /\ rows' = Append(rows, x)
       /\ traces' = Append(traces, t)
       /\ Account(t.spend)
  /\ UNCHANGED <<deskVars, records>>

\* expected_loss_inr
ExpectedLoss(t) == MapThenSumSet(LAMBDA a : t.harm[a] * Consequence[a], Axis)

ArrivedAt(i) == ((i - 1) * 60) \div RowsPerHour

\* The cases that verdicts raise, at the minute their row happened.
CasesOf(ts) ==
  {ReviewCase(i, ts[i].verdict, ExpectedLoss(ts[i]), SlaMinutes[rows[i].route], ArrivedAt(i)) :
     i \in {j \in DOMAIN ts : RaisesCase(ts[j].verdict)}}

\* _run_review: every case is submitted, then the queue is drained.
RaiseCases ==
  /\ rowsServed = RowsExpected
  /\ OpenDesk(CasesOf(traces))
  /\ UNCHANGED <<budgetVars, rows, traces, records>>

Drain == DeskStep /\ UNCHANGED <<budgetVars, rows, traces, records>>

-----------------------------------------------------------------------------
HasHarm(v) == \E a \in Axis : v[a] >= 50
NoHarm == [a \in Axis |-> 0]

\* _observed_axes: a reviewer who is wrong misses every axis that was there,
\* or invents the one that scored highest.
ObservedAxes(truth, correct) ==
  IF correct THEN [a \in Axis |-> IF truth[a] >= 50 THEN 100 ELSE 0]
  ELSE IF HasHarm(truth) THEN NoHarm
  ELSE LET nearest == CHOOSE a \in Axis : \A b \in Axis : truth[b] <= truth[a]
       IN  [NoHarm EXCEPT ![nearest] = 100]

\* review_case
Review(i, random) ==
  LET truth == HasHarm(rows[i].truth)
      observed == IF ReviewerCorrect[i] THEN truth ELSE ~truth
      withheld == RaisesCase(traces[i].verdict)
  IN  [id |-> i, harm |-> observed, withheld |-> withheld, random |-> random,
       axes |-> ObservedAxes(rows[i].truth, ReviewerCorrect[i]),
       verdict |-> IF observed = withheld THEN "upheld" ELSE "overturned",
       tier |-> traces[i].tier]

\* audit_sample
AuditSample(ids, rate) == {i \in ids : AuditDraw[i] < rate}

\* What the audit may draw from: what was released.
Auditable == {i \in DOMAIN traces : ~RaisesCase(traces[i].verdict)}

\* _audit_released: harder where no tier was bought.
AuditReleased ==
  LET unchecked == {i \in Auditable : traces[i].tier = NoTier} IN
  {Review(i, FALSE) : i \in AuditSample(unchecked, AuditUnchecked)
                              \cup AuditSample(Auditable \ unchecked, AuditChecked)}

\* The end of _run_review: the labels of what was served and audited.
Label ==
  /\ desk = "drained" /\ records = {}
  /\ records' = {Review(d.case.id, d.random) : d \in Served} \cup AuditReleased
  /\ UNCHANGED <<budgetVars, deskVars, rows, traces>>

Next == AssessRow \/ RaiseCases \/ Drain \/ Label

Spec == Init /\ [][Next]_windowVars

\* One thread runs the loops: once the rows are served nothing holds it.
FairSpec == Spec /\ WF_windowVars(RaiseCases) /\ WF_windowVars(Drain)
-----------------------------------------------------------------------------
(* Properties.                                                             *)

\* The rows' spend is what was committed.
Spent(n) == MapThenSumSet(LAMBDA i : traces[i].spend, 1..n)

\* Comment of the controller: a non-negative price moved by the observed
\* spend rate.  It remembers the worst stretch of rows that ends now, and
\* nothing before it: the price is what those rows were over the rate, summed.
PriceIsWorstStretch ==
  LET error(i) == RateError(Spent(i), i)
      stretch(k) == MapThenSumSet(error, k..rowsServed)
  IN  shadowPrice = Max({0} \cup {stretch(k) : k \in 1..rowsServed})

\* The governor is what makes the budget a budget: this implements Budget,
\* in which a row served with nothing to spare buys the floor's check at most.
HoldsBudget == BudgetSpec

\* drain() ends: an idle reviewer never waits for a case that does not come.
DeskDrains == (rowsServed = RowsExpected) ~> (desk = "drained")
=============================================================================
