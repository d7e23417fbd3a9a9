------------------------------- MODULE Budget -------------------------------
(***************************************************************************)
(* economics/budget_governor.py and economics/budget_controller.py as the  *)
(* loops of report.py and attention.py use them: one row is assessed, then *)
(* its spend is committed and the shadow price moved.                      *)
(*                                                                         *)
(* What a row may spend is left open: anything up to SpendMax, and no more *)
(* than FloorMax once only mandatory checks are bought.  EvaluationWindow  *)
(* implements this with the allocator.                                     *)
(***************************************************************************)
EXTENDS Integers

CONSTANTS
  BudgetInr, RowsExpected, FloorRate,   \* BudgetGovernor
  LearningRate,     \* controller_learning_rate, in hundredths
  Scale,            \* a multiple of 1..RowsExpected: averages are exact
  Spends, SpendMax, \* what the checks of a row may cost, and the most of it
  FloorMax          \* the most the floor's check of a row costs

ASSUME BudgetAssumption ==
  /\ BudgetInr \in Nat \ {0} /\ RowsExpected \in Nat \ {0} /\ FloorRate \in Nat
  /\ LearningRate \in Nat
  /\ Scale \in Nat \ {0} /\ \A n \in 1..RowsExpected : Scale % n = 0
  /\ SpendMax \in Nat /\ Spends \subseteq 0..SpendMax
  /\ FloorMax \in 0..SpendMax

VARIABLES
  committed,        \* committed_inr, and the loop's running sum
  rowsServed,       \* rows_served
  mandatoryRows,    \* rows_mandatory_only: rows served with nothing to spare
  shadowPrice       \* in LearningRate / (Scale * BudgetInr) hundredths

budgetVars == <<committed, rowsServed, mandatoryRows, shadowPrice>>

BudgetInit ==
  /\ committed = 0
  /\ rowsServed = 0
  /\ mandatoryRows = 0
  /\ shadowPrice = 0

Larger(a, b) == IF a >= b THEN a ELSE b

RowsRemaining == Larger(0, RowsExpected - rowsServed)
Reserved == FloorRate * RowsRemaining

\* An infeasible budget is served all the same.
Feasible == BudgetInr >= FloorRate * RowsExpected

\* Faulty variant: the floor still to come is not reserved.
MandatoryOnlyOnceSpent == committed >= BudgetInr

MandatoryOnly == committed + Reserved >= BudgetInr

\* Faulty variant: the price starts over with every row.
MovedAfresh(price, error) == Larger(0, error)

Moved(price, error) == Larger(0, price + error)

\* How far the average spend of n rows is from the budget's rate:
\* (rate - budget_rate) / budget_rate, in the unit of the shadow price.
RateError(spent, n) == RowsExpected * (Scale \div n) * spent - Scale * BudgetInr

\* governor.commit and controller.update, after a row that spent this much.
Account(spend) ==
  /\ committed' = committed + spend
  /\ rowsServed' = rowsServed + 1
  /\ mandatoryRows' = IF MandatoryOnly THEN mandatoryRows + 1 ELSE mandatoryRows
  /\ shadowPrice' = Moved(shadowPrice, RateError(committed + spend, rowsServed + 1))

ServeRow ==
  /\ rowsServed < RowsExpected
  /\ \E spend \in Spends :
       /\ MandatoryOnly => spend <= FloorMax
       /\ Account(spend)

BudgetSpec == BudgetInit /\ [][ServeRow]_budgetVars

-----------------------------------------------------------------------------
(* Properties.                                                             *)

BudgetTypeOK ==
  /\ committed \in Nat
  /\ rowsServed \in 0..RowsExpected
  /\ mandatoryRows \in 0..rowsServed
  /\ shadowPrice \in Nat

\* What the floor's checks cost above the rate they were reserved at.
Shortfall == mandatoryRows * Larger(0, FloorMax - FloorRate)

\* "Hold assurance spend to a budget": what is spent, with what is reserved
\* for the rows to come, exceeds the budget (or the floor's own cost, where
\* that is more) by at most one row's discretionary checks and by what the
\* reservation underestimated.
BudgetHeld ==
  committed + Reserved
    <= Larger(FloorRate * RowsExpected, BudgetInr + SpendMax - FloorRate) + Shortfall
=============================================================================
