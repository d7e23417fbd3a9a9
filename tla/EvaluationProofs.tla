-------------------------- MODULE EvaluationProofs --------------------------
(***************************************************************************)
(* Proofs about one budget of the evaluation, for every budget, rate, mix  *)
(* of rows, cost and serving rule: what the governor holds, that the       *)
(* window's rows are rows of the governed budget, and how the review desk  *)
(* is staffed.                                                             *)
(***************************************************************************)
EXTENDS EvaluationReport, AllocationProofs

-----------------------------------------------------------------------------
(* The governed budget.                                                     *)

\* Multiplication by a constant factor, one row less.
LEMMA OneLess ==
  ASSUME NEW a \in Nat, NEW n \in Nat
  PROVE  a * (n + 1) = a * n + a
  OBVIOUS

LEMMA BudgetInitTypes == BudgetInit => BudgetTypeOK
BY BudgetAssumption DEF BudgetInit, BudgetTypeOK

LEMMA BudgetStepTypes == BudgetTypeOK /\ [ServeRow]_budgetVars => BudgetTypeOK'
<1> SUFFICES ASSUME BudgetTypeOK, [ServeRow]_budgetVars PROVE BudgetTypeOK'
  OBVIOUS
<1>1. CASE ServeRow
  <2>1. PICK spend \in Spends : Account(spend)
    BY <1>1 DEF ServeRow
  <2>2. spend \in Nat /\ rowsServed + 1 \in 1..RowsExpected
    BY <1>1, BudgetAssumption DEF ServeRow, BudgetTypeOK
  <2>3. committed' \in Nat /\ rowsServed' \in 0..RowsExpected
    BY <2>1, <2>2 DEF Account, BudgetTypeOK
  <2>4. mandatoryRows' \in 0..rowsServed'
    BY <2>1, <2>2 DEF Account, BudgetTypeOK
  <2>5. shadowPrice' \in Nat
    <3>1. Scale \div (rowsServed + 1) \in Int
      BY <2>2, BudgetAssumption
    <3> DEFINE q == Scale \div (rowsServed + 1)
               s == committed + spend
    <3>2. s \in Int
      BY <2>2 DEF BudgetTypeOK
    <3>3. RowsExpected * q \in Int
      BY <3>1, BudgetAssumption
    <3>4. (RowsExpected * q) * s \in Int
      BY <3>2, <3>3
    <3>5. Scale * BudgetInr \in Int
      BY BudgetAssumption
    <3>6. RateError(s, rowsServed + 1) \in Int
      BY <3>4, <3>5 DEF RateError
    <3>7. shadowPrice' = Larger(0, shadowPrice + RateError(s, rowsServed + 1))
      BY <2>1 DEF Account, Moved
    <3> QED BY <3>6, <3>7 DEF Larger, BudgetTypeOK
  <2> QED BY <2>3, <2>4, <2>5 DEF BudgetTypeOK
<1>2. CASE UNCHANGED budgetVars
  BY <1>2 DEF budgetVars, BudgetTypeOK
<1> QED BY <1>1, <1>2

\* The governor counts rows and money that exist, whatever rows are served.
THEOREM GovernorTypes == BudgetSpec => []BudgetTypeOK
BY BudgetInitTypes, BudgetStepTypes, PTL DEF BudgetSpec

\* A row with something to spare starts below the budget, so it can only
\* overshoot by itself; a row with nothing to spare adds at most what its
\* check costs above the reserved rate.
LEMMA OneRow ==
  ASSUME BudgetTypeOK, BudgetHeld, NEW spend \in Spends,
         rowsServed < RowsExpected,
         MandatoryOnly => spend <= FloorMax, Account(spend)
  PROVE  BudgetHeld'
<1> DEFINE left == RowsExpected - rowsServed - 1
           gap == Larger(0, FloorMax - FloorRate)
           cap == Larger(FloorRate * RowsExpected, BudgetInr + SpendMax - FloorRate)
<1>1. /\ spend \in Nat /\ spend <= SpendMax /\ left \in Nat /\ gap \in Nat
      /\ committed \in Nat /\ mandatoryRows \in Nat /\ FloorRate \in Nat
      /\ BudgetInr \in Nat /\ SpendMax \in Nat /\ FloorMax \in Nat
  BY BudgetAssumption DEF BudgetTypeOK, Larger
<1>2. FloorRate * RowsExpected \in Nat /\ FloorRate * left \in Nat
      /\ mandatoryRows * gap \in Nat /\ gap * mandatoryRows = mandatoryRows * gap
  BY <1>1, ProductIsNat, BudgetAssumption
<1>3. cap \in Int /\ cap >= BudgetInr + SpendMax - FloorRate
  BY <1>1, <1>2 DEF Larger
<1>4. Reserved = FloorRate * left + FloorRate
  <2>1. RowsRemaining = left + 1
    BY <1>1, BudgetAssumption DEF RowsRemaining, Larger, BudgetTypeOK
  <2> QED BY <1>1, <2>1, OneLess DEF Reserved
<1>5. Reserved' = FloorRate * left
  <2>1. RowsRemaining' = left
    BY <1>1, BudgetAssumption DEF RowsRemaining, Larger, BudgetTypeOK, Account
  <2> QED BY <2>1 DEF Reserved
<1>6. committed + FloorRate * left + FloorRate <= cap + mandatoryRows * gap
  <2>1. committed + Reserved <= cap + mandatoryRows * gap
    BY Zenon DEF BudgetHeld, Shortfall
  <2> QED BY <1>1, <1>2, <1>3, <1>4, <2>1
<1> HIDE DEF cap
<1>7. CASE MandatoryOnly
  <2>1. Shortfall' = mandatoryRows * gap + gap
    <3>1. (mandatoryRows + 1) * gap = mandatoryRows * gap + gap
      BY <1>1, <1>2, OneLess
    <3> QED BY <1>7, <3>1 DEF Account, Shortfall
  <2>2. spend - FloorRate <= gap
    BY <1>1, <1>7 DEF Larger
  <2>3. committed + spend + FloorRate * left <= cap + mandatoryRows * gap + gap
    BY <1>1, <1>2, <1>3, <1>6, <2>2
  <2>4. committed' = committed + spend
    BY DEF Account
  <2>5. committed' + Reserved' <= cap + Shortfall'
    BY <1>1, <1>2, <1>3, <1>5, <2>1, <2>3, <2>4
  <2> QED BY <2>5, Zenon DEF BudgetHeld, cap
<1>8. CASE ~MandatoryOnly
  <2>1. Shortfall' = mandatoryRows * gap
    BY <1>8 DEF Account, Shortfall
  <2>2. committed + FloorRate * left + FloorRate < BudgetInr
    BY <1>1, <1>2, <1>4, <1>8 DEF MandatoryOnly
  <2>3. committed + spend + FloorRate * left <= cap + mandatoryRows * gap
    BY <1>1, <1>2, <1>3, <2>2
  <2>4. committed' = committed + spend
    BY DEF Account
  <2>5. committed' + Reserved' <= cap + Shortfall'
    BY <1>1, <1>2, <1>3, <1>5, <2>1, <2>3, <2>4
  <2> QED BY <2>5, Zenon DEF BudgetHeld, cap
<1> QED BY <1>7, <1>8

\* The governor holds the budget: whatever the rows are and however wrong the
\* floor's rate is, the overshoot is one row and what the rate fell short by.
THEOREM GovernorHoldsBudget == BudgetSpec => []BudgetHeld
<1>1. BudgetInit => BudgetHeld
  <2> SUFFICES ASSUME BudgetInit PROVE BudgetHeld
    OBVIOUS
  <2>1. Reserved = FloorRate * RowsExpected
    BY BudgetAssumption DEF BudgetInit, Reserved, RowsRemaining, Larger
  <2>2. Shortfall = 0
    <3>1. Larger(0, FloorMax - FloorRate) \in Nat
      BY BudgetAssumption DEF Larger
    <3> QED BY <3>1 DEF BudgetInit, Shortfall
  <2>3. FloorRate * RowsExpected \in Nat
    BY BudgetAssumption, ProductIsNat
  <2> QED BY <2>1, <2>2, <2>3, BudgetAssumption DEF BudgetInit, BudgetHeld, Larger
<1>2. BudgetTypeOK /\ BudgetHeld /\ [ServeRow]_budgetVars => BudgetHeld'
  <2> SUFFICES ASSUME BudgetTypeOK, BudgetHeld, [ServeRow]_budgetVars PROVE BudgetHeld'
    OBVIOUS
  <2>1. CASE ServeRow
    BY <2>1, OneRow DEF ServeRow
  <2>2. CASE UNCHANGED budgetVars
    BY <2>2 DEF budgetVars, BudgetHeld, Reserved, RowsRemaining, Shortfall
  <2> QED BY <2>1, <2>2
<1> QED BY <1>1, <1>2, GovernorTypes, PTL DEF BudgetSpec

-----------------------------------------------------------------------------
(* The window's rows are rows of the governed budget.                       *)

\* What a row spends was decided by its first pass, at the price it paid.
LEMMA FirstPassSpends ==
  ASSUME NEW x, NEW price, NEW mandatory
  PROVE  LET p == IF mandatory THEN MandatoryOnlyPrice(x.harm, x.effect, price) ELSE price
             forced == Maximum(x.harm) >= Threshold[x.route]
         IN  Assess(x, price, mandatory).spend
               = Spend(SelectTier(x.harm, x.effect, p, forced), x.effect)
BY DEF Assess, Allocate

\* A row that has nothing to spare buys the floor's check or none, and every
\* other row some check or none.
LEMMA RowSpends ==
  ASSUME NEW x \in RowKind, NEW price \in Int, NEW mandatory \in BOOLEAN
  PROVE  /\ Assess(x, price, mandatory).spend \in Spends
         /\ mandatory => Assess(x, price, mandatory).spend <= FloorMax
<1> DEFINE h == x.harm
           e == x.effect
           p == IF mandatory THEN MandatoryOnlyPrice(h, e, price) ELSE price
           forced == Maximum(h) >= Threshold[x.route]
           tier == SelectTier(h, e, p, forced)
<1>1. h \in Vector /\ e \in Effect \cup {NoEffect}
  BY WindowAssumption DEF IsRow
<1>2. Assess(x, price, mandatory).spend = Spend(tier, e)
  BY FirstPassSpends
<1>3. tier \in {NoTier, 0, 1, 2}
  BY BestIsATier DEF SelectTier
<1>4. Spend(tier, e) \in Spends
  <2> HIDE DEF tier, e
  <2> QED BY <1>1, <1>3, SpendsAssumption DEF Spend, Tier, NoTier
<1>5. CASE mandatory
  <2>1. \A k \in Tier : Benefit(h, k) \in Int
    <3>1. \A k \in Tier : Benefit(h, k) \in Nat
      BY <1>1, BenefitIsNat
    <3> HIDE DEF h
    <3> QED BY <3>1
  <2>2. Affordable(h, e, p) = {}
    <3>1. Affordable(h, e, MandatoryOnlyPrice(h, e, price)) = {}
      BY <1>1, <2>1, NothingAffordable
    <3> QED BY <1>5, <3>1
  <2>3. Best(h, e, p) = NoTier
    BY <2>2 DEF Best, Better
  <2>4. tier \in {NoTier, 1}
    BY <2>3 DEF SelectTier
  <2>5. Spend(tier, e) <= FloorMax
    <3>1. FloorMax \in Nat
      BY BudgetAssumption
    <3> HIDE DEF tier, e
    <3> QED BY <1>1, <2>4, <3>1, SpendsAssumption DEF Spend, NoTier
  <2> QED BY <1>2, <1>4, <2>5
<1>6. CASE ~mandatory
  BY <1>2, <1>4, <1>6
<1> QED BY <1>5, <1>6

\* Every step of the window is a row of the budget or leaves it alone.
LEMMA WindowServesRows ==
  BudgetTypeOK /\ [Next]_windowVars => [ServeRow]_budgetVars
<1> SUFFICES ASSUME BudgetTypeOK, [Next]_windowVars PROVE [ServeRow]_budgetVars
  OBVIOUS
<1>1. CASE AssessRow
  <2>1. PICK x \in RowKind : Account(Assess(x, PriceInForce, MandatoryOnly).spend)
    BY <1>1 DEF AssessRow
  <2>2. rowsServed < RowsExpected
    BY <1>1 DEF AssessRow
  <2>3. PriceInForce \in Int
    <3>1. shadowPrice * LearningRate \in Int
      BY BudgetAssumption, ProductIsNat DEF BudgetTypeOK
    <3>2. Scale * BudgetInr \in Nat \ {0}
      BY BudgetAssumption
    <3> QED BY <3>1, <3>2, QuotientBound DEF PriceInForce
  <2>4. MandatoryOnly \in BOOLEAN
    BY DEF MandatoryOnly
  <2> DEFINE spend == Assess(x, PriceInForce, MandatoryOnly).spend
  <2>5. spend \in Spends /\ (MandatoryOnly => spend <= FloorMax)
    BY <2>3, <2>4, RowSpends
  <2> HIDE DEF spend
  <2> QED BY <2>1, <2>2, <2>5 DEF ServeRow, spend
<1>2. CASE RaiseCases
  BY <1>2 DEF RaiseCases, budgetVars
<1>3. CASE Drain
  BY <1>3 DEF Drain, budgetVars
<1>4. CASE Label
  BY <1>4 DEF Label, budgetVars
<1>5. CASE UNCHANGED windowVars
  BY <1>5 DEF windowVars, budgetVars
<1> QED BY <1>1, <1>2, <1>3, <1>4, <1>5 DEF Next

\* The governor is what makes the budget a budget: a window of the evaluation
\* implements Budget, whose rows buy the floor's check at most once there is
\* nothing to spare.
THEOREM WindowHoldsBudget == Spec => HoldsBudget
<1>1. Init => BudgetInit /\ BudgetTypeOK
  BY BudgetInitTypes DEF Init
<1>2. BudgetTypeOK /\ [Next]_windowVars => BudgetTypeOK'
  BY WindowServesRows, BudgetStepTypes
<1> QED BY <1>1, <1>2, WindowServesRows, PTL DEF Spec, BudgetSpec, HoldsBudget

THEOREM WindowKeepsBudget == Spec => [](BudgetTypeOK /\ BudgetHeld)
BY WindowHoldsBudget, GovernorTypes, GovernorHoldsBudget, PTL DEF HoldsBudget

-----------------------------------------------------------------------------
(* The review desk.                                                         *)

Cases == [id : 1..RowsExpected, reason : {"unverifiable", "effect_held", "blocked"},
          loss : Nat, minutes : {MinutesPerCase}, cost : {CostPerCase}, sla : Nat,
          arrived : Nat]
Decisions == [case : Cases, wait : Int, spend : Nat, random : BOOLEAN, finished : Nat,
              outcome : {"breached_sla", "reviewed"}]

\* What the desk may be given: finitely many cases, each row's at most once.
Docket(cases) ==
  /\ cases \subseteq Cases /\ IsFiniteSet(cases)
  /\ \A c, d \in cases : c.id = d.id => c = d

\* Reviewer who[i] took the i-th review, and started none before the last one's end.
Shifts(who) ==
  /\ who \in [1..Len(served) -> Reviewer]
  /\ \A i \in 1..Len(served) : served[i].finished <= freeAt[who[i]]
  /\ \A i, j \in 1..Len(served) :
       i < j /\ who[i] = who[j] => served[i].finished <= Start(served[j])

\* What the property says of one decision alone.
Punctual(d) ==
  /\ Start(d) >= d.case.arrived /\ d.finished <= Window
  /\ (d.outcome = "breached_sla") <=> (d.finished > d.case.arrived + d.case.sla)

DeskInv ==
  /\ Docket(arrivals \cup waiting)
  /\ freeAt \in [Reviewer -> Nat]
  /\ served \in Seq(Decisions)
  /\ \A i \in 1..Len(served) : Punctual(served[i])
  /\ \E who : Shifts(who)

LEMMA ReviewersExist == Reviewers \in Nat \ {0} /\ IsFiniteSet(Reviewer) /\ Cardinality(Reviewer) = Reviewers
<1> DEFINE m == Max({60, CapacityPerHour})
           h == RoundedHours(m)
<1>1. m \in Int
  BY DeskAssumption, LargestOfTwo
<1> HIDE DEF m
<1>2. h \in Int
  BY <1>1 DEF RoundedHours
<1> HIDE DEF h
<1>3. Max({1, h}) \in Int /\ Max({1, h}) >= 1
  BY <1>2, LargestOfTwo
<1>4. Reviewers \in Nat \ {0}
  BY <1>3 DEF Reviewers, h, m
<1>5. IsFiniteSet(1..Reviewers) /\ Cardinality(1..Reviewers) = IF 1 > Reviewers THEN 0 ELSE Reviewers - 1 + 1
  BY <1>4, FS_Interval
<1> QED BY <1>4, <1>5 DEF Reviewer

\* Somebody is free first.
LEMMA FirstFreeIsReviewer ==
  ASSUME freeAt \in [Reviewer -> Nat]
  PROVE  FirstFree \in Reviewer /\ Now \in Nat /\ \A r \in Reviewer : Now <= freeAt[r]
<1> DEFINE before(r, s) == freeAt[r] < freeAt[s] \/ (freeAt[r] = freeAt[s] /\ r <= s)
           R == {p \in Reviewer \X Reviewer : before(p[1], p[2])}
<1>1. \A r, s \in Reviewer : <<r, s>> \in R <=> before(r, s)
  OBVIOUS
<1>2. \A r \in Reviewer : freeAt[r] \in Nat /\ r \in Nat
  BY ReviewersExist DEF Reviewer
<1>3. /\ \A r, s \in Reviewer : r # s => before(r, s) \/ before(s, r)
      /\ \A r, s, t \in Reviewer : before(r, s) /\ before(s, t) => before(r, t)
      /\ \A r \in Reviewer : before(r, r)
  BY <1>2
<1>4. 1 \in Reviewer /\ IsFiniteSet(Reviewer)
  BY ReviewersExist DEF Reviewer
<1> HIDE DEF R, before
<1>5. PICK m \in Reviewer : \A s \in Reviewer : s # m => <<m, s>> \in R
  <2>1. /\ \A r, s \in Reviewer : r # s => <<r, s>> \in R \/ <<s, r>> \in R
        /\ \A r, s, t \in Reviewer : <<r, s>> \in R /\ <<s, t>> \in R => <<r, t>> \in R
    BY <1>1, <1>3
  <2>2. Reviewer # {}
    BY <1>4
  <2> QED BY <1>4, <2>1, <2>2, FirstOfOrder
<1>6. \A s \in Reviewer : before(m, s)
  BY <1>1, <1>3, <1>5
<1>7. FirstFree \in Reviewer /\ \A r \in Reviewer : before(FirstFree, r)
  BY <1>6 DEF FirstFree, before
<1>8. \A r \in Reviewer : freeAt[FirstFree] <= freeAt[r]
  BY <1>2, <1>7 DEF before
<1> QED BY <1>2, <1>7, <1>8 DEF Now

\* Whatever the rule, it orders the cases of a docket.
LEMMA DenserIsLoss ==
  ASSUME NEW c \in Cases, NEW d \in Cases
  PROVE  Denser(c, d) <=> c.loss > d.loss
<1>1. c.minutes = MinutesPerCase /\ d.minutes = MinutesPerCase
      /\ c.loss \in Nat /\ d.loss \in Nat /\ MinutesPerCase \in Nat \ {0}
  BY DeskAssumption DEF Cases
<1>2. \A a, b \in Nat, m \in Nat \ {0} : a > b <=> a * m > b * m
  OBVIOUS
<1> QED BY <1>1, <1>2 DEF Denser

LEMMA RuleOrders ==
  ASSUME NEW c \in Cases, NEW d \in Cases, NEW e \in Cases
  PROVE  /\ c.id # d.id => Precedes(c, d) \/ Precedes(d, c)
         /\ Precedes(c, d) /\ Precedes(d, e) => Precedes(c, e)
         /\ c.id # d.id => Drawn(c, d) \/ Drawn(d, c)
         /\ Drawn(c, d) /\ Drawn(d, e) => Drawn(c, e)
<1>1. /\ c.id \in 1..RowsExpected /\ d.id \in 1..RowsExpected /\ e.id \in 1..RowsExpected
      /\ c.sla \in Nat /\ d.sla \in Nat /\ e.sla \in Nat
      /\ c.loss \in Nat /\ d.loss \in Nat /\ e.loss \in Nat
  BY DEF Cases
<1>2. /\ StableUniform[c.id] \in Nat /\ StableUniform[d.id] \in Nat
      /\ StableUniform[e.id] \in Nat
  BY <1>1, WindowAssumption
<1>3. /\ c.id # d.id => Drawn(c, d) \/ Drawn(d, c)
      /\ Drawn(c, d) /\ Drawn(d, e) => Drawn(c, e)
  BY <1>1, <1>2 DEF Drawn
<1>4. /\ Denser(c, d) <=> c.loss > d.loss
      /\ Denser(d, c) <=> d.loss > c.loss
      /\ Denser(d, e) <=> d.loss > e.loss
      /\ Denser(e, d) <=> e.loss > d.loss
      /\ Denser(c, e) <=> c.loss > e.loss
      /\ Denser(e, c) <=> e.loss > c.loss
  BY DenserIsLoss
<1>5. c.id # d.id => Precedes(c, d) \/ Precedes(d, c)
  BY <1>1, <1>3, <1>4 DEF Precedes
<1>6. Precedes(c, d) /\ Precedes(d, e) => Precedes(c, e)
  BY <1>1, <1>3, <1>4 DEF Precedes
<1> QED BY <1>3, <1>5, <1>6

LEMMA ChosenIsOne ==
  ASSUME NEW cases, Docket(cases), cases # {}
  PROVE  Chosen(cases) \in cases
<1> DEFINE before(c, d) == IF IsRandomSlot(Len(served)) THEN Drawn(c, d) ELSE Precedes(c, d)
           R == {p \in cases \X cases : before(p[1], p[2])}
<1>1. \A c, d \in cases : <<c, d>> \in R <=> before(c, d)
  OBVIOUS
<1>2. /\ \A c, d \in cases : c # d => before(c, d) \/ before(d, c)
      /\ \A c, d, e \in cases : before(c, d) /\ before(d, e) => before(c, e)
  BY RuleOrders DEF Docket
<1> HIDE DEF R, before
<1>3. PICK m \in cases : \A d \in cases : d # m => <<m, d>> \in R
  <2>1. /\ \A c, d \in cases : c # d => <<c, d>> \in R \/ <<d, c>> \in R
        /\ \A c, d, e \in cases : <<c, d>> \in R /\ <<d, e>> \in R => <<c, e>> \in R
    BY <1>1, <1>2
  <2>2. IsFiniteSet(cases)
    BY DEF Docket
  <2> QED BY <2>1, <2>2, FirstOfOrder, SMTT(30), ZenonT(30)
<1>4. \A d \in cases \ {m} : before(m, d)
  BY <1>1, <1>3
<1> QED BY <1>4 DEF Chosen, before

\* What a docket is left with, and what of it has landed.
LEMMA DocketPart ==
  ASSUME NEW cases, Docket(cases), NEW part \in SUBSET cases PROVE Docket(part)
BY FS_Subset DEF Docket

LEMMA LandedIsPart == Landed \subseteq arrivals \cup waiting
BY DEF Landed

LEMMA ServedTypes ==
  ASSUME DeskInv, NEW who, Shifts(who), NEW i \in 1..Len(served)
  PROVE  /\ served[i] \in Decisions /\ served[i].finished \in Nat
         /\ who[i] \in Reviewer /\ served[i].finished <= freeAt[who[i]]
         /\ freeAt[who[i]] \in Nat
<1>1. served[i] \in Decisions
  BY DEF DeskInv
<1>2. who[i] \in Reviewer /\ served[i].finished <= freeAt[who[i]]
  BY DEF Shifts
<1>3. freeAt[who[i]] \in Nat
  BY <1>2 DEF DeskInv
<1> QED BY <1>1, <1>2, <1>3 DEF Decisions

\* An idle reviewer waits for the first case to arrive, and no longer.
LEMMA IdleWaits ==
  ASSUME DeskInv, Idle
  PROVE  IdleUntil \in Nat /\ IdleUntil >= Now /\ \A c \in arrivals : IdleUntil <= c.arrived
<1> DEFINE S == {c.arrived : c \in arrivals}
<1>1. \A c \in arrivals : c.arrived \in Nat /\ ~(c.arrived <= Now)
  BY DEF Idle, DeskInv, Docket, Cases, Landed
<1>2. IsFiniteSet(arrivals)
  BY FS_Subset DEF DeskInv, Docket
<1>3. IsFiniteSet(S)
  <2> DEFINE f == [c \in arrivals |-> c.arrived]
  <2>1. f \in Surjection(arrivals, S)
    BY DEF Surjection
  <2> HIDE DEF f, S
  <2> QED BY <1>2, <2>1, FS_Surjection
<1>4. S \subseteq Int /\ S # {}
  BY <1>1 DEF Idle
<1>5. Min(S) \in S /\ \A n \in S : Min(S) <= n
  <2> HIDE DEF S
  <2> QED BY <1>3, <1>4, MinOfFinite
<1>6. IdleUntil = Min(S)
  BY DEF IdleUntil
<1>7. Now \in Nat
  BY FirstFreeIsReviewer DEF DeskInv
<1>8. \A n \in S : n \in Nat /\ n >= Now
  BY <1>1, <1>7
<1> QED BY <1>5, <1>6, <1>8

LEMMA IdleKeeps ==
  ASSUME DeskInv, Idle PROVE DeskInv'
<1> DEFINE r == FirstFree
<1>1. /\ freeAt' = [freeAt EXCEPT ![r] = IdleUntil]
      /\ UNCHANGED <<arrivals, waiting, served>>
  BY DEF Idle
<1>2. r \in Reviewer /\ Now = freeAt[r] /\ freeAt \in [Reviewer -> Nat]
  BY FirstFreeIsReviewer DEF DeskInv, Now
<1>3. IdleUntil \in Nat /\ IdleUntil >= freeAt[r]
  BY <1>2, IdleWaits
<1> HIDE DEF r
<1>4. freeAt' \in [Reviewer -> Nat] /\ \A q \in Reviewer : freeAt'[q] >= freeAt[q]
  BY <1>1, <1>2, <1>3
<1>5. PICK who : Shifts(who)
  BY DEF DeskInv
<1>6. Shifts(who)'
  <2>1. ASSUME NEW i \in 1..Len(served)
        PROVE  served[i].finished <= freeAt'[who[i]]
    <3>1. /\ served[i].finished \in Nat /\ freeAt[who[i]] \in Nat /\ who[i] \in Reviewer
          /\ served[i].finished <= freeAt[who[i]]
      BY <1>5, ServedTypes
    <3>2. freeAt'[who[i]] \in Nat /\ freeAt'[who[i]] >= freeAt[who[i]]
      BY <1>4, <3>1
    <3> QED BY <3>1, <3>2
  <2> QED BY <1>1, <1>5, <2>1 DEF Shifts, Start
<1>7. \A i \in 1..Len(served)' : Punctual(served[i])'
  BY <1>1 DEF DeskInv, Punctual, Start
<1> QED BY <1>1, <1>4, <1>6, <1>7 DEF DeskInv

LEMMA ReviewKeeps ==
  ASSUME DeskInv, ReviewOne PROVE DeskInv'
<1> DEFINE c == Chosen(Landed)
           r == FirstFree
           f == Finish(c)
           d == Decision(c, f)
           n == Len(served)
<1>1. /\ FitsWindow(c) /\ Landed # {}
      /\ arrivals' = arrivals \ Landed /\ waiting' = Landed \ {c}
      /\ freeAt' = [freeAt EXCEPT ![r] = f] /\ served' = Append(served, d)
  BY DEF ReviewOne
<1>2. r \in Reviewer /\ Now = freeAt[r] /\ freeAt \in [Reviewer -> Nat] /\ Now \in Nat
  BY FirstFreeIsReviewer DEF DeskInv, Now
<1>3. Docket(Landed) /\ Docket((arrivals \cup waiting)')
  BY <1>1, LandedIsPart, DocketPart DEF DeskInv
<1>4. c \in Landed /\ c \in Cases
  BY <1>1, <1>3, ChosenIsOne DEF Docket
<1>5. /\ c.arrived \in Nat /\ c.sla \in Nat /\ c.minutes \in Nat /\ c.cost \in Nat
  BY <1>4, DeskAssumption DEF Cases
<1>6. f = Max({Now, c.arrived}) + c.minutes
  BY DEF Finish
<1> DEFINE m == Max({Now, c.arrived})
<1> HIDE DEF c, r
<1>7. m \in Int /\ m >= Now /\ m >= c.arrived
  BY <1>2, <1>5, LargestOfTwo, SMTT(30), ZenonT(30)
<1> HIDE DEF m
<1>8. f \in Nat /\ f - c.minutes >= freeAt[r] /\ f - c.minutes >= c.arrived /\ f >= freeAt[r]
  BY <1>2, <1>5, <1>6, <1>7 DEF m
<1>9. f <= Window
  BY <1>1 DEF FitsWindow
<1> HIDE DEF f
<1>10. /\ d \in Decisions /\ d.finished = f /\ Start(d) = f - c.minutes
       /\ d.case = c /\ (d.outcome = "breached_sla" <=> f - c.arrived > c.sla)
  <2>1. IsRandomSlot(Len(served)) \in BOOLEAN
    BY DEF IsRandomSlot
  <2> QED BY <1>4, <1>5, <1>8, <2>1 DEF Decision, Decisions, Waited, Start
<1>11. Punctual(d)
  BY <1>5, <1>8, <1>9, <1>10 DEF Punctual
<1> HIDE DEF d
<1>12. /\ served' \in Seq(Decisions) /\ Len(served') = n + 1 /\ n \in Nat
       /\ served'[n + 1] = d /\ \A i \in 1..n : served'[i] = served[i]
  BY <1>1, <1>10 DEF DeskInv
<1>13. \A i \in 1..Len(served') : i \in 1..n \/ i = n + 1
  BY <1>12
<1>14. \A i \in 1..Len(served)' : Punctual(served[i])'
  <2>1. \A x : Punctual(x) <=> Punctual(x)'
    BY DEF Punctual, Start
  <2> QED BY <1>11, <1>12, <1>13, <2>1 DEF DeskInv, Punctual, Start
<1>15. PICK who : Shifts(who)
  BY DEF DeskInv
<1>16. freeAt' \in [Reviewer -> Nat]
       /\ freeAt'[r] = f /\ \A q \in Reviewer : q # r => freeAt'[q] = freeAt[q]
  BY <1>1, <1>2, <1>8
<1>17. \E w : /\ w \in [1..(n + 1) -> Reviewer] /\ w[n + 1] = r
              /\ \A i \in 1..n : w[i] = who[i]
  <2> DEFINE w == [i \in 1..(n + 1) |-> IF i = n + 1 THEN r ELSE who[i]]
  <2>1. \A i \in 1..n : who[i] \in Reviewer
    BY <1>15, ServedTypes
  <2>2. \A i \in 1..(n + 1) : i = n + 1 \/ i \in 1..n
    BY <1>12
  <2>3. \A i \in 1..n : i # n + 1 /\ i \in 1..(n + 1)
    BY <1>12
  <2>4. n + 1 \in 1..(n + 1)
    BY <1>12
  <2> HIDE DEF n
  <2>5. /\ w \in [1..(n + 1) -> Reviewer] /\ w[n + 1] = r
        /\ \A i \in 1..n : w[i] = who[i]
    BY <1>2, <2>1, <2>2, <2>3, <2>4
  <2> HIDE DEF w
  <2> QED BY <2>5
<1>18. PICK w : /\ w \in [1..(n + 1) -> Reviewer] /\ w[n + 1] = r
                /\ \A i \in 1..n : w[i] = who[i]
  BY <1>17
<1>19. ASSUME NEW i \in 1..n
       PROVE  /\ served[i].finished \in Nat /\ freeAt[who[i]] \in Nat /\ who[i] \in Reviewer
              /\ served[i].finished <= freeAt[who[i]]
  BY <1>15, ServedTypes
<1> HIDE DEF n
<1>20. ASSUME NEW i \in 1..Len(served')
       PROVE  served'[i].finished <= freeAt'[w[i]]
  <2>1. CASE i = n + 1
    BY <1>8, <1>10, <1>12, <1>16, <1>18, <2>1
  <2>2. CASE i \in 1..n
    <3>1. served'[i].finished <= freeAt[who[i]] /\ w[i] = who[i]
      BY <1>12, <1>18, <1>19, <2>2
    <3>2. CASE who[i] = r
      <4>1. served'[i].finished <= freeAt[r] /\ freeAt'[w[i]] = f
            /\ served'[i].finished \in Nat /\ freeAt[r] \in Nat
        BY <1>12, <1>16, <1>19, <2>2, <3>1, <3>2
      <4> QED BY <1>8, <4>1
    <3>3. CASE who[i] # r
      BY <1>16, <1>19, <2>2, <3>1, <3>3
    <3> QED BY <3>2, <3>3
  <2> QED BY <1>13, <2>1, <2>2
<1>21. ASSUME NEW i \in 1..Len(served'), NEW j \in 1..Len(served'), i < j, w[i] = w[j]
       PROVE  served'[i].finished <= Start(served'[j])
  <2>1. i \in 1..n
    BY <1>12, <1>21
  <2>2. CASE j = n + 1
    <3>1. who[i] = r /\ served'[j] = d /\ served'[i] = served[i]
      BY <1>12, <1>18, <1>21, <2>1, <2>2
    <3>2. served[i].finished <= freeAt[r] /\ served[i].finished \in Nat /\ freeAt[r] \in Nat
      BY <1>19, <2>1, <3>1
    <3>3. Start(d) = f - c.minutes /\ f - c.minutes >= freeAt[r] /\ f - c.minutes \in Int
      BY <1>5, <1>8, <1>10
    <3> QED BY <3>1, <3>2, <3>3
  <2>3. CASE j \in 1..n
    <3>1. served[i].finished <= Start(served[j])
      BY <1>15, <1>18, <1>21, <2>1, <2>3 DEF Shifts, n
    <3> QED BY <1>12, <2>1, <2>3, <3>1
  <2> QED BY <1>13, <2>2, <2>3
<1>22. Shifts(w)'
  BY <1>12, <1>18, <1>20, <1>21 DEF Shifts, Start
<1> QED BY <1>3, <1>12, <1>14, <1>16, <1>22 DEF DeskInv

LEMMA CloseKeeps ==
  ASSUME DeskInv, CloseDesk PROVE DeskInv' /\ desk' # "collecting"
<1>1. arrivals' = {} /\ waiting' = {} /\ UNCHANGED <<freeAt, served>> /\ desk' = "drained"
  BY DEF CloseDesk
<1>2. Docket({})
  BY FS_EmptySet DEF Docket
<1>3. ASSUME NEW who, Shifts(who) PROVE Shifts(who)'
  BY <1>1, <1>3 DEF Shifts, Start
<1>4. \A i \in 1..Len(served)' : Punctual(served[i])'
  BY <1>1 DEF DeskInv, Punctual, Start
<1> QED BY <1>1, <1>2, <1>3, <1>4 DEF DeskInv

\* The amount a withheld row might have lost.
LEMMA ExpectedLossIsNat ==
  ASSUME NEW t, t.harm \in Vector PROVE ExpectedLoss(t) \in Nat
<1> DEFINE v == [a \in Axis |-> t.harm[a] * Consequence[a]]
           Adds(g) == g = [s \in SUBSET Axis |-> IF s = {} THEN 0
             ELSE t.harm[CHOOSE x \in s : TRUE] * Consequence[CHOOSE x \in s : TRUE]
                  + g[s \ {CHOOSE x \in s : TRUE}]]
           e == CHOOSE g : Adds(g)
<1>1. ASSUME NEW a \in Axis PROVE v[a] \in Nat
  <2>1. t.harm[a] \in Score /\ Score \subseteq Nat
    BY DEF Vector, Score
  <2>2. t.harm[a] \in Nat /\ Consequence[a] \in Nat
    BY <2>1, AllocationAssumption
  <2> QED BY <2>2, ProductIsNat
<1>2. \E g : SumsUp(g, v, Axis)
  BY AllocationAssumption, SumExists
<1>3. ExpectedLoss(t) = e[Axis]
  BY DEF ExpectedLoss, MapThenSumSet, MapThenFoldSet
<1>4. \A g : SumsUp(g, v, Axis) <=> Adds(g)
  <2>1. \A s \in SUBSET Axis : s # {} => Some(s) \in Axis
    BY DEF Some
  <2> QED BY <2>1 DEF SumsUp, Some
<1> HIDE DEF Adds, v
<1>5. SumsUp(e, v, Axis)
  BY <1>2, <1>4
<1> HIDE DEF e
<1>6. e[Axis] \in Nat
  BY <1>1, <1>5, AllocationAssumption, SumIsNat
<1> QED BY <1>3, <1>6

Traced == {Assess(x, p, m) : x \in RowKind, p \in Int, m \in BOOLEAN}

LEMMA TracedHarm ==
  ASSUME NEW t \in Traced PROVE t.harm \in Vector
<1>1. PICK x \in RowKind, p \in Int, m \in BOOLEAN : t = Assess(x, p, m)
  BY DEF Traced
<1>2. t.harm = x.harm \/ t.harm = x.judged
  BY <1>1 DEF Assess, Allocate
<1> QED BY <1>2, WindowAssumption DEF IsRow

\* Every row served has its trace.
RowsInv ==
  /\ rows \in Seq(RowKind) /\ traces \in Seq(Traced)
  /\ Len(rows) = rowsServed /\ Len(traces) = rowsServed

LEMMA CasesAreDocket ==
  ASSUME BudgetTypeOK, RowsInv PROVE Docket(CasesOf(traces))
<1> DEFINE D == {i \in DOMAIN traces : RaisesCase(traces[i].verdict)}
           case(i) == ReviewCase(i, traces[i].verdict, ExpectedLoss(traces[i]),
                                 SlaMinutes[rows[i].route], ArrivedAt(i))
           f == [i \in D |-> case(i)]
<1>1. CasesOf(traces) = {case(i) : i \in D}
  BY DEF CasesOf
<1>2. D \subseteq 1..rowsServed /\ rowsServed \in 0..RowsExpected /\ RowsExpected \in Nat
  BY BudgetAssumption DEF RowsInv, BudgetTypeOK
<1>3. ASSUME NEW i \in D PROVE case(i) \in Cases /\ case(i).id = i
  <2>1. i \in 1..RowsExpected /\ i \in 1..Len(traces) /\ i \in 1..Len(rows)
    BY <1>2 DEF RowsInv
  <2>2. traces[i] \in Traced /\ rows[i] \in RowKind
    BY <2>1 DEF RowsInv
  <2>3. ExpectedLoss(traces[i]) \in Nat
    BY <2>2, TracedHarm, ExpectedLossIsNat
  <2>4. SlaMinutes[rows[i].route] \in Nat
    BY <2>2, WindowAssumption DEF IsRow
  <2>5. ArrivedAt(i) \in Nat
    <3>1. (i - 1) * 60 \in Nat /\ RowsPerHour \in Nat \ {0}
      BY <2>1, WindowAssumption
    <3>2. \A a \in Nat, b \in Nat \ {0} : a \div b \in Nat
      BY Z3
    <3> QED BY <3>1, <3>2 DEF ArrivedAt
  <2> QED BY <2>1, <2>3, <2>4, <2>5 DEF ReviewCase, Cases
<1> HIDE DEF case
<1>4. CasesOf(traces) \subseteq Cases
  BY <1>1, <1>3
<1>5. \A c, d \in CasesOf(traces) : c.id = d.id => c = d
  BY <1>1, <1>3
<1>6. IsFiniteSet(CasesOf(traces))
  <2>1. IsFiniteSet(1..rowsServed)
    BY <1>2, FS_Interval
  <2>2. IsFiniteSet(D)
    BY <1>2, <2>1, FS_Subset
  <2>3. f \in Surjection(D, CasesOf(traces))
    BY <1>1 DEF Surjection
  <2> HIDE DEF f, D
  <2> QED BY <2>2, <2>3, FS_Surjection
<1> QED BY <1>4, <1>5, <1>6 DEF Docket

WindowInv ==
  /\ BudgetTypeOK /\ RowsInv /\ DeskInv
  /\ desk = "collecting" => waiting = {}

LEMMA RowKeeps ==
  ASSUME WindowInv, AssessRow PROVE RowsInv'
<1>1. PICK x \in RowKind : /\ rows' = Append(rows, x)
                           /\ traces' = Append(traces, Assess(x, PriceInForce, MandatoryOnly))
                           /\ rowsServed' = rowsServed + 1
  BY DEF AssessRow, Account
<1>2. PriceInForce \in Int /\ MandatoryOnly \in BOOLEAN
  <2>1. shadowPrice * LearningRate \in Int
    BY BudgetAssumption, ProductIsNat DEF WindowInv, BudgetTypeOK
  <2>2. Scale * BudgetInr \in Nat \ {0}
    BY BudgetAssumption
  <2> QED BY <2>1, <2>2, QuotientBound DEF PriceInForce, MandatoryOnly
<1> DEFINE t == Assess(x, PriceInForce, MandatoryOnly)
<1>3. t \in Traced
  BY <1>2 DEF Traced
<1> HIDE DEF t
<1> QED BY <1>1, <1>3 DEF WindowInv, RowsInv, t

LEMMA WindowInvStep == WindowInv /\ [Next]_windowVars => WindowInv'
<1> SUFFICES ASSUME WindowInv, [Next]_windowVars PROVE WindowInv'
  OBVIOUS
<1>1. BudgetTypeOK'
  BY WindowServesRows, BudgetStepTypes DEF WindowInv
<1>2. ASSUME UNCHANGED deskVars PROVE DeskInv' /\ (desk' = "collecting" => waiting' = {})
  <2>1. UNCHANGED <<arrivals, waiting, freeAt, served, desk>>
    BY <1>2 DEF deskVars
  <2>2. ASSUME NEW who, Shifts(who) PROVE Shifts(who)'
    BY <2>1, <2>2 DEF Shifts, Start
  <2>3. \A i \in 1..Len(served)' : Punctual(served[i])'
    BY <2>1 DEF WindowInv, DeskInv, Punctual, Start
  <2> QED BY <2>1, <2>2, <2>3 DEF WindowInv, DeskInv
<1>3. CASE AssessRow
  BY <1>1, <1>2, <1>3, RowKeeps DEF AssessRow, WindowInv
<1>4. CASE RaiseCases
  <2>1. /\ arrivals' = CasesOf(traces) /\ UNCHANGED <<waiting, freeAt, served>>
        /\ waiting = {} /\ desk' # "collecting"
    BY <1>4 DEF RaiseCases, OpenDesk, WindowInv
  <2>2. Docket(arrivals' \cup waiting')
    BY <2>1, CasesAreDocket DEF WindowInv
  <2>3. ASSUME NEW who, Shifts(who) PROVE Shifts(who)'
    BY <2>1, <2>3 DEF Shifts, Start
  <2>4. \A i \in 1..Len(served)' : Punctual(served[i])'
    BY <2>1 DEF WindowInv, DeskInv, Punctual, Start
  <2>5. DeskInv'
    BY <2>1, <2>2, <2>3, <2>4 DEF WindowInv, DeskInv
  <2> QED BY <1>1, <1>4, <2>1, <2>5 DEF WindowInv, RowsInv, RaiseCases, budgetVars
<1>5. CASE Drain
  <2>1. DeskInv' /\ desk' # "collecting"
    <3>1. CASE Idle
      BY <3>1, IdleKeeps DEF WindowInv, Idle
    <3>2. CASE ReviewOne
      BY <3>2, ReviewKeeps DEF WindowInv, ReviewOne
    <3>3. CASE CloseDesk
      BY <3>3, CloseKeeps DEF WindowInv
    <3> QED BY <1>5, <3>1, <3>2, <3>3 DEF Drain, DeskStep
  <2> QED BY <1>1, <1>5, <2>1 DEF WindowInv, RowsInv, Drain, budgetVars
<1>6. CASE Label
  BY <1>1, <1>2, <1>6 DEF WindowInv, RowsInv, Label, budgetVars
<1>7. CASE UNCHANGED windowVars
  BY <1>1, <1>2, <1>7 DEF windowVars, budgetVars, WindowInv, RowsInv
<1> QED BY <1>3, <1>4, <1>5, <1>6, <1>7 DEF Next

LEMMA WindowInvInit == Init => WindowInv
<1> SUFFICES ASSUME Init PROVE WindowInv
  OBVIOUS
<1>1. BudgetTypeOK /\ rowsServed = 0
  BY BudgetInitTypes DEF Init, BudgetInit
<1>2. RowsInv
  BY <1>1 DEF Init, RowsInv
<1>3. arrivals = {} /\ waiting = {} /\ served = <<>> /\ freeAt = [r \in Reviewer |-> 0]
  BY DEF Init, DeskInit
<1>4. Docket(arrivals \cup waiting)
  BY <1>3, FS_EmptySet DEF Docket
<1>5. served \in Seq(Decisions) /\ Len(served) = 0
  BY <1>3
<1>6. Shifts(<<>>)
  <2>1. <<>> \in [1..0 -> Reviewer]
    OBVIOUS
  <2> QED BY <1>5, <2>1 DEF Shifts
<1> QED BY <1>1, <1>2, <1>3, <1>4, <1>5, <1>6 DEF WindowInv, DeskInv

\* No more cases are in hand at a time than there are reviewers: each has a
\* reviewer of its own.
LEMMA HandsForAll ==
  ASSUME DeskInv, NEW d \in Served
  PROVE  Cardinality({e \in Served : Start(e) <= Start(d) /\ Start(d) < e.finished}) <= Reviewers
<1> DEFINE H == {e \in Served : Start(e) <= Start(d) /\ Start(d) < e.finished}
           n == Len(served)
           at == [e \in Served |-> CHOOSE i \in 1..n : served[i] = e]
<1>1. n \in Nat /\ DOMAIN served = 1..n /\ \A i \in 1..n : served[i] \in Decisions
  BY DEF DeskInv
<1>2. \A e \in Served : at[e] \in 1..n /\ served[at[e]] = e /\ e \in Decisions
  BY <1>1 DEF Served
<1>3. IsFiniteSet(Served)
  <2> DEFINE f == [i \in 1..n |-> served[i]]
  <2>1. f \in Surjection(1..n, Served)
    BY <1>1 DEF Surjection, Served
  <2>2. IsFiniteSet(1..n)
    BY <1>1, FS_Interval
  <2> HIDE DEF f
  <2> QED BY <2>1, <2>2, FS_Surjection
<1>4. IsFiniteSet(H) /\ Cardinality(H) \in Nat
  BY <1>3, FS_Subset, FS_CardinalityType
<1>5. PICK who : Shifts(who)
  BY DEF DeskInv
<1> HIDE DEF at
<1>6. ASSUME NEW e \in H, NEW g \in H, who[at[e]] = who[at[g]], at[e] < at[g] PROVE FALSE
  <2>1. e.finished <= Start(g)
    BY <1>2, <1>5, <1>6 DEF Shifts
  <2>2. ASSUME NEW x \in Decisions PROVE x.finished \in Nat /\ Start(x) \in Int
    <3>1. x.finished \in Nat /\ x.case \in Cases
      BY DEF Decisions
    <3>2. x.case.minutes \in Nat
      BY <3>1, DeskAssumption DEF Cases
    <3> QED BY <3>1, <3>2 DEF Start
  <2>3. e.finished \in Nat /\ Start(g) \in Int /\ Start(d) \in Int
    BY <1>2, <2>2
  <2> QED BY <2>1, <2>3
<1>7. ASSUME Cardinality(Reviewer) < Cardinality(H) PROVE FALSE
  <2> DEFINE f == [e \in H |-> who[at[e]]]
  <2>1. f \in [H -> Reviewer]
    BY <1>2, <1>5 DEF Shifts
  <2>2. PICK e, g \in H : e # g /\ f[e] = f[g]
    <3> HIDE DEF f, H
    <3> QED BY <1>4, <1>7, <2>1, ReviewersExist, FS_PigeonHole
  <2>3. who[at[e]] = who[at[g]] /\ at[e] # at[g] /\ at[e] \in Nat /\ at[g] \in Nat
    BY <1>2, <2>2
  <2> HIDE DEF H, f
  <2>4. at[e] < at[g] \/ at[g] < at[e]
    BY <2>3
  <2> QED BY <1>6, <2>3, <2>4
<1> HIDE DEF H
<1>8. Cardinality(H) <= Reviewers
  BY <1>4, <1>7, ReviewersExist
<1> QED BY <1>8 DEF H

\* Whatever the rule serves first: no case is worked before it arrives or past
\* the window, there are never more cases in hand than reviewers, and a breach
\* is measured from the case's arrival.
THEOREM DeskAlwaysStaffed == Spec => []DeskIsStaffed
<1>1. WindowInv => DeskIsStaffed
  <2> SUFFICES ASSUME WindowInv, NEW d \in Served
               PROVE  Punctual(d) /\ Cardinality({e \in Served :
                        Start(e) <= Start(d) /\ Start(d) < e.finished}) <= Reviewers
    BY DEF DeskIsStaffed, Punctual
  <2>1. PICK i \in 1..Len(served) : served[i] = d
    BY DEF Served, WindowInv, DeskInv
  <2> QED BY <2>1, HandsForAll DEF WindowInv, DeskInv
<1> QED BY <1>1, WindowInvInit, WindowInvStep, PTL DEF Spec
-----------------------------------------------------------------------------
(* The rules serve as many.  Whatever is taken first, the reviews end when  *)
(* they would if cases were taken as they come: FinishOf(cases, i) is when  *)
(* the i-th of them does.                                                   *)

InOrder(cases, i) == CHOOSE c \in cases : Cardinality({d \in cases : d.id <= c.id}) = i
FinishOf(cases, i) == IF i <= 0 THEN 0 ELSE FifoFinish(cases)[i]

\* A docket whose cases arrive in the order of their rows.
Ordered(cases) ==
  Docket(cases) /\ \A c, d \in cases : c.id <= d.id => c.arrived <= d.arrived

\* There is an i-th case, for every i up to their number.
LEMMA InOrderIs ==
  ASSUME NEW cases, Docket(cases)
  PROVE  /\ Cardinality(cases) \in Nat
         /\ \A i \in 1..Cardinality(cases) :
              /\ InOrder(cases, i) \in cases
              /\ Cardinality({d \in cases : d.id <= InOrder(cases, i).id}) = i
<1> DEFINE upto(s, c) == {d \in s : d.id <= c.id}
           P == {s \in SUBSET cases : \A i \in 1..Cardinality(s) :
                   \E c \in s : Cardinality(upto(s, c)) = i}
<1>1. IsFiniteSet(cases) /\ \A c \in cases : c.id \in Int
  BY DEF Docket, Cases
<1>2. \A s \in SUBSET cases : IsFiniteSet(s) /\ Cardinality(s) \in Nat
  BY <1>1, FS_Subset, FS_CardinalityType
<1>3. ASSUME NEW s \in SUBSET cases, \A u \in SUBSET s : u # s => u \in P PROVE s \in P
  <2>1. CASE s = {}
    BY <2>1, FS_EmptySet
  <2>2. CASE s # {}
    <3> DEFINE R == {p \in s \X s : p[1].id >= p[2].id}
    <3>1. \A x, y \in s : <<x, y>> \in R <=> x.id >= y.id
      OBVIOUS
    <3> HIDE DEF R
    <3>2. /\ \A x, y \in s : x # y => <<x, y>> \in R \/ <<y, x>> \in R
          /\ \A x, y, z \in s : <<x, y>> \in R /\ <<y, z>> \in R => <<x, z>> \in R
      BY <1>1, <3>1
    <3>3. PICK m \in s : \A y \in s : y # m => <<m, y>> \in R
      BY <1>2, <2>2, <3>2, FirstOfOrder
    <3>4. \A y \in s : y.id <= m.id
      <4>1. \A y \in s : y = m \/ m.id >= y.id
        BY <3>1, <3>3
      <4> QED BY <1>1, <4>1
    <3> DEFINE u == s \ {m}
    <3>5. u \in P /\ Cardinality(u) = Cardinality(s) - 1 /\ Cardinality(s) \in Nat
      <4>1. u \in SUBSET s /\ u # s /\ IsFiniteSet(s) /\ Cardinality(s) \in Nat
        BY <1>2, <3>3
      <4>2. u \in P
        <5> HIDE DEF u, P
        <5> QED BY <1>3, <4>1
      <4>3. Cardinality(u) = Cardinality(s) - 1
        BY <3>3, <4>1, FS_RemoveElement
      <4> QED BY <4>1, <4>2, <4>3
    <3>6. \A c \in u : upto(s, c) = upto(u, c)
      <4>1. \A c \in u : c.id < m.id
        BY <1>1, <3>4 DEF Docket
      <4> QED BY <1>1, <3>3, <4>1
    <3>7. upto(s, m) = s
      BY <3>4
    <3> HIDE DEF upto
    <3>8. ASSUME NEW i \in 1..Cardinality(s) PROVE \E c \in s : Cardinality(upto(s, c)) = i
      <4>1. CASE i = Cardinality(s)
        BY <3>7, <4>1
      <4>2. CASE i # Cardinality(s)
        <5>1. i \in 1..Cardinality(u)
          BY <3>5, <4>2
        <5>2. PICK c \in u : Cardinality(upto(u, c)) = i
          BY <3>5, <5>1
        <5> QED BY <3>6, <5>2
      <4> QED BY <4>1, <4>2
    <3> QED BY <3>8
  <2> QED BY <2>1, <2>2
<1>4. SUBSET cases \subseteq P
  <2> HIDE DEF P
  <2> QED BY <1>1, <1>3, SubsetInduction
<1>5. \A i \in 1..Cardinality(cases) : \E c \in cases : Cardinality(upto(cases, c)) = i
  BY <1>4
<1> QED BY <1>2, <1>5 DEF InOrder

\* The i-th case has arrived when i cases have.
LEMMA ArrivedBy ==
  ASSUME NEW cases, Ordered(cases), NEW i \in 1..Cardinality(cases), NEW t \in Int
  PROVE  /\ InOrder(cases, i).arrived \in Nat
         /\ InOrder(cases, i).arrived <= t
              <=> i <= Cardinality({c \in cases : c.arrived <= t})
<1> DEFINE x == InOrder(cases, i)
           first == {d \in cases : d.id <= x.id}
           came == {c \in cases : c.arrived <= t}
<1>1. x \in cases /\ Cardinality(first) = i
  BY InOrderIs DEF Ordered
<1>2. /\ IsFiniteSet(cases) /\ \A c \in cases : c.id \in Int /\ c.arrived \in Nat
      /\ \A c, d \in cases : c.id <= d.id => c.arrived <= d.arrived
      /\ \A c, d \in cases : c.id = d.id => c = d
  BY DEF Ordered, Docket, Cases
<1> HIDE DEF x
<1>3. IsFiniteSet(first) /\ IsFiniteSet(came) /\ Cardinality(came) \in Nat /\ i \in Nat
  BY <1>2, FS_Subset, FS_CardinalityType
<1>4. CASE x.arrived <= t
  <2>1. first \in SUBSET came
    BY <1>1, <1>2, <1>4
  <2>2. Cardinality(first) <= Cardinality(came)
    BY <1>3, <2>1, FS_Subset
  <2> QED BY <1>1, <1>2, <1>4, <2>2 DEF x
<1>5. CASE ~(x.arrived <= t)
  <2>1. came \in SUBSET (first \ {x}) /\ x \in first
    BY <1>1, <1>2, <1>5
  <2>2. IsFiniteSet(first \ {x}) /\ Cardinality(first \ {x}) = i - 1
    BY <1>1, <1>3, <2>1, FS_RemoveElement
  <2>3. Cardinality(came) <= i - 1
    <3> HIDE DEF came, first
    <3> QED BY <2>1, <2>2, FS_Subset
  <2> QED BY <1>1, <1>2, <1>3, <1>5, <2>3 DEF x
<1> QED BY <1>4, <1>5

\* f is when the first n of the cases would end.
Ends(f, cases, n) ==
  f = [i \in 1..n |->
         Max({InOrder(cases, i).arrived, IF i > Reviewers THEN f[i - Reviewers] ELSE 0})
           + InOrder(cases, i).minutes]

LEMMA EndsExist ==
  ASSUME NEW cases, NEW m \in Nat PROVE \E f : Ends(f, cases, m)
<1> DEFINE body(f, i) ==
             Max({InOrder(cases, i).arrived, IF i > Reviewers THEN f[i - Reviewers] ELSE 0})
               + InOrder(cases, i).minutes
           P == {n \in Nat : \E f : f = [i \in 1..n |-> body(f, i)]}
<1>1. 0 \in P
  <2> DEFINE f == [i \in 1..0 |-> 0]
  <2>1. f = [i \in 1..0 |-> body(f, i)]
    <3> HIDE DEF body
    <3>1. 1..0 = {}
      OBVIOUS
    <3> QED BY <3>1
  <2> HIDE DEF f, body
  <2> QED BY <2>1
<1>2. ASSUME NEW n \in Nat, n \in P PROVE n + 1 \in P
  <2>1. PICK f : f = [i \in 1..n |-> body(f, i)]
    BY <1>2
  <2> DEFINE h == [i \in 1..(n + 1) |-> body(f, i)]
  <2>2. \A i \in 1..n : h[i] = f[i]
    <3> HIDE DEF body
    <3> QED BY <2>1
  <2>3. \A i \in 1..(n + 1) : i > Reviewers => i - Reviewers \in 1..n
    BY ReviewersExist
  <2>4. \A i \in 1..(n + 1) : body(f, i) = body(h, i)
    <3> HIDE DEF h
    <3> QED BY <2>2, <2>3
  <2>5. h = [i \in 1..(n + 1) |-> body(h, i)]
    <3> HIDE DEF body
    <3> QED BY <2>4
  <2> HIDE DEF h, body
  <2> QED BY <2>5
<1>3. Nat \subseteq P
  <2> HIDE DEF P
  <2> QED BY <1>1, <1>2, UpwardInduction
<1> QED BY <1>3 DEF Ends

\* The schedule of the property is that one.
LEMMA FifoFinishEnds ==
  ASSUME NEW cases, Docket(cases)
  PROVE  /\ DOMAIN FifoFinish(cases) = 1..Cardinality(cases)
         /\ \A i \in 1..Cardinality(cases) :
              FinishOf(cases, i)
                = Max({InOrder(cases, i).arrived, FinishOf(cases, i - Reviewers)})
                    + MinutesPerCase
<1> DEFINE n == Cardinality(cases)
           F == FifoFinish(cases)
           nth == [i \in 1..n |-> CHOOSE c \in cases : Cardinality({d \in cases : d.id <= c.id}) = i]
           Adds(f) == f = [i \in 1..n |->
             Max({nth[i].arrived, IF i > Reviewers THEN f[i - Reviewers] ELSE 0}) + nth[i].minutes]
<1>1. n \in Nat /\ \A i \in 1..n : InOrder(cases, i) \in cases
  BY InOrderIs
<1>2. F = CHOOSE f : Adds(f)
  BY DEF FifoFinish
<1>3. \A f : Adds(f) <=> Ends(f, cases, n)
  <2>1. \A i \in 1..n : nth[i] = InOrder(cases, i)
    BY DEF InOrder
  <2> HIDE DEF nth
  <2> QED BY <2>1 DEF Ends
<1> HIDE DEF Adds, F, n
<1>4. Ends(F, cases, n)
  BY <1>1, <1>2, <1>3, EndsExist
<1>5. ASSUME NEW i \in 1..n
      PROVE  FinishOf(cases, i)
               = Max({InOrder(cases, i).arrived, FinishOf(cases, i - Reviewers)})
                   + MinutesPerCase
  <2>1. InOrder(cases, i).minutes = MinutesPerCase
    BY <1>1 DEF Docket, Cases
  <2>2. FinishOf(cases, i) = F[i]
    BY <1>1 DEF FinishOf, F
  <2>3. FinishOf(cases, i - Reviewers) = IF i > Reviewers THEN F[i - Reviewers] ELSE 0
    BY <1>1, ReviewersExist DEF FinishOf, F
  <2>4. F[i] = Max({InOrder(cases, i).arrived, IF i > Reviewers THEN F[i - Reviewers] ELSE 0})
                 + InOrder(cases, i).minutes
    BY <1>4 DEF Ends
  <2> QED BY <2>1, <2>2, <2>3, <2>4
<1>6. DOMAIN F = 1..n
  BY <1>4 DEF Ends
<1> QED BY <1>5, <1>6 DEF n, F

\* Later cases arrive later.
LEMMA ArrivalsGrow ==
  ASSUME NEW cases, Ordered(cases),
         NEW i \in 1..Cardinality(cases), NEW j \in 1..Cardinality(cases), i <= j
  PROVE  InOrder(cases, i).arrived <= InOrder(cases, j).arrived
<1> DEFINE t == InOrder(cases, j).arrived
           came == {c \in cases : c.arrived <= t}
<1>1. t \in Int /\ (t <= t <=> j <= Cardinality(came))
  <2>1. t \in Int
    <3>1. 0 \in Int
      OBVIOUS
    <3> HIDE DEF t, came
    <3>2. InOrder(cases, j).arrived \in Nat
      BY <3>1, ArrivedBy
    <3> QED BY <3>2 DEF t
  <2> QED BY <2>1, ArrivedBy
<1>2. Cardinality(came) \in Nat
  <2>1. IsFiniteSet(came)
    BY FS_Subset DEF Ordered, Docket
  <2> HIDE DEF came
  <2> QED BY <2>1, FS_CardinalityType
<1>3. i <= Cardinality(came)
  BY <1>1, <1>2
<1> QED BY <1>1, <1>3, ArrivedBy

\* It is in natural numbers, and later for later cases.
LEMMA FinishGrows ==
  ASSUME NEW cases, Ordered(cases)
  PROVE  /\ \A i \in Int : i <= Cardinality(cases) => FinishOf(cases, i) \in Nat
         /\ \A i, j \in Int : i <= j /\ j <= Cardinality(cases)
              => FinishOf(cases, i) <= FinishOf(cases, j)
<1> DEFINE N == Cardinality(cases)
           F(i) == FinishOf(cases, i)
           A(i) == InOrder(cases, i).arrived
<1>1. N \in Nat /\ Reviewers \in Nat \ {0} /\ MinutesPerCase \in Nat \ {0}
  BY InOrderIs, ReviewersExist, DeskAssumption DEF Ordered
<1>2. \A i \in 1..N : F(i) = Max({A(i), F(i - Reviewers)}) + MinutesPerCase
  BY FifoFinishEnds DEF Ordered
<1>3. \A i \in Int : i <= 0 => F(i) = 0
  BY DEF FinishOf
<1>4. \A i \in 1..N : A(i) \in Nat
  <2> SUFFICES ASSUME NEW i \in 1..N PROVE A(i) \in Nat
    OBVIOUS
  <2>1. 0 \in Int
    OBVIOUS
  <2> QED BY <2>1, ArrivedBy
<1>5. \A i, j \in 1..N : i <= j => A(i) <= A(j)
  BY ArrivalsGrow
<1> HIDE DEF F, A, N
<1>6. \A i \in Int : i <= N => F(i) \in Nat
  <2> DEFINE P == {n \in Nat : \A i \in Int : i <= n /\ i <= N => F(i) \in Nat}
  <2>1. 0 \in P
    BY <1>3
  <2>2. ASSUME NEW n \in Nat, n \in P, n + 1 <= N PROVE F(n + 1) \in Nat
    <3>1. n + 1 \in 1..N /\ (n + 1) - Reviewers \in Int
          /\ (n + 1) - Reviewers <= n /\ (n + 1) - Reviewers <= N
      BY <1>1, <2>2
    <3>2. A(n + 1) \in Nat /\ F((n + 1) - Reviewers) \in Nat
      BY <1>1, <1>4, <2>2, <3>1
    <3>3. Max({A(n + 1), F((n + 1) - Reviewers)}) \in {A(n + 1), F((n + 1) - Reviewers)}
      <4>1. A(n + 1) \in Int /\ F((n + 1) - Reviewers) \in Int
        BY <3>2
      <4> QED BY <4>1, LargestIsEither, Zenon
    <3> QED BY <1>1, <1>2, <3>1, <3>2, <3>3
  <2>3. ASSUME NEW n \in Nat, n \in P PROVE n + 1 \in P
    <3>1. \A i \in Int : i <= n + 1 /\ i <= N => i <= n \/ (i = n + 1 /\ n + 1 <= N)
      BY <1>1
    <3> QED BY <2>2, <2>3, <3>1
  <2>4. Nat \subseteq P
    <3> HIDE DEF P
    <3> QED BY <2>1, <2>3, UpwardInduction
  <2> QED BY <1>1, <2>4
<1>7. \A i \in Int : i + 1 <= N => F(i) <= F(i + 1)
  <2> DEFINE P == {n \in Nat : \A i \in Int : i <= n /\ i + 1 <= N => F(i) <= F(i + 1)}
  <2>1. 0 \in P
    <3> SUFFICES ASSUME NEW i \in Int, i <= 0, i + 1 <= N PROVE F(i) <= F(i + 1)
      OBVIOUS
    <3>1. F(i) = 0 /\ F(i + 1) \in Nat
      BY <1>3, <1>6
    <3> QED BY <3>1
  <2>2. ASSUME NEW n \in Nat, n \in P, (n + 1) + 1 <= N PROVE F(n + 1) <= F((n + 1) + 1)
    <3> DEFINE r == (n + 1) - Reviewers
    <3>1. n + 1 \in 1..N /\ (n + 1) + 1 \in 1..N /\ r \in Int /\ r <= n /\ r + 1 <= N /\ r <= N
          /\ ((n + 1) + 1) - Reviewers = r + 1
      BY <1>1, <2>2
    <3> HIDE DEF r
    <3>2. F(r) <= F(r + 1) /\ F(r) \in Nat /\ F(r + 1) \in Nat
      BY <1>6, <2>2, <3>1
    <3>3. A(n + 1) <= A((n + 1) + 1) /\ A(n + 1) \in Nat /\ A((n + 1) + 1) \in Nat
      BY <1>4, <1>5, <3>1
    <3>4. /\ Max({A(n + 1), F(r)}) \in {A(n + 1), F(r)}
          /\ Max({A((n + 1) + 1), F(r + 1)}) \in Int
          /\ Max({A((n + 1) + 1), F(r + 1)}) >= A((n + 1) + 1)
          /\ Max({A((n + 1) + 1), F(r + 1)}) >= F(r + 1)
      <4>1. /\ A(n + 1) \in Int /\ F(r) \in Int
            /\ A((n + 1) + 1) \in Int /\ F(r + 1) \in Int
        BY <3>2, <3>3
      <4> QED BY <4>1, LargestOfTwo, LargestIsEither, Zenon
    <3>5. Max({A(n + 1), F(r)}) <= Max({A((n + 1) + 1), F(r + 1)}) /\ Max({A(n + 1), F(r)}) \in Int
      BY <3>2, <3>3, <3>4
    <3>6. /\ F(n + 1) = Max({A(n + 1), F(r)}) + MinutesPerCase
          /\ F((n + 1) + 1) = Max({A((n + 1) + 1), F(r + 1)}) + MinutesPerCase
      BY <1>2, <3>1 DEF r
    <3> QED BY <1>1, <3>4, <3>5, <3>6
  <2>3. ASSUME NEW n \in Nat, n \in P PROVE n + 1 \in P
    <3>1. \A i \in Int : i <= n + 1 /\ i + 1 <= N => i <= n \/ (i = n + 1 /\ (n + 1) + 1 <= N)
      BY <1>1
    <3> QED BY <2>2, <2>3, <3>1
  <2>4. Nat \subseteq P
    <3> HIDE DEF P
    <3> QED BY <2>1, <2>3, UpwardInduction
  <2> QED BY <1>1, <2>4
<1>8. \A i, j \in Int : i <= j /\ j <= N => F(i) <= F(j)
  <2> DEFINE P == {n \in Nat : \A i \in Int : i + n <= N => F(i) <= F(i + n)}
  <2>1. 0 \in P
    <3>1. \A i \in Int : i + 0 = i /\ (i <= N => F(i) \in Nat)
      BY <1>6
    <3> QED BY <3>1
  <2>2. ASSUME NEW n \in Nat, n \in P PROVE n + 1 \in P
    <3> SUFFICES ASSUME NEW i \in Int, i + (n + 1) <= N PROVE F(i) <= F(i + (n + 1))
      OBVIOUS
    <3>1. i + (n + 1) = (i + n) + 1 /\ i + n <= N /\ i <= N /\ i + n \in Int
      BY <1>1
    <3>2. F(i) <= F(i + n) /\ F(i + n) <= F((i + n) + 1)
      BY <1>7, <2>2, <3>1
    <3>3. F(i) \in Nat /\ F(i + n) \in Nat /\ F((i + n) + 1) \in Nat
      BY <1>6, <3>1
    <3> QED BY <3>1, <3>2, <3>3
  <2>3. Nat \subseteq P
    <3> HIDE DEF P
    <3> QED BY <2>1, <2>2, UpwardInduction
  <2> SUFFICES ASSUME NEW i \in Int, NEW j \in Int, i <= j, j <= N PROVE F(i) <= F(j)
    OBVIOUS
  <2>4. j - i \in Nat /\ i + (j - i) = j
    OBVIOUS
  <2>5. j - i \in P
    BY <2>3, <2>4
  <2> QED BY <2>4, <2>5
<1> QED BY <1>6, <1>8 DEF F, N

\* As many end in time as do up to the last that does.
LEMMA EndsInTime ==
  ASSUME NEW cases, Ordered(cases), NEW k \in 0..Cardinality(cases),
         FinishOf(cases, k) <= Window,
         k < Cardinality(cases) => ~(FinishOf(cases, k + 1) <= Window)
  PROVE  LET finish == FifoFinish(cases)
         IN  Cardinality({i \in DOMAIN finish : finish[i] <= Window}) = k
<1> DEFINE N == Cardinality(cases)
           F == FifoFinish(cases)
<1>1. N \in Nat /\ DOMAIN F = 1..N
  BY InOrderIs, FifoFinishEnds DEF Ordered
<1>2. \A i \in 1..N : FinishOf(cases, i) = F[i]
  BY <1>1 DEF FinishOf
<1>3. Window \in Int
  BY ReviewersExist, DeskAssumption, QuotientBound DEF Window, MinutesAvailable
<1>4. \A i \in 1..N : F[i] <= Window <=> i <= k
  <2> SUFFICES ASSUME NEW i \in 1..N PROVE F[i] <= Window <=> i <= k
    OBVIOUS
  <2>1. F[i] \in Nat /\ FinishOf(cases, k) \in Nat
    BY <1>1, <1>2, FinishGrows
  <2>2. CASE i <= k
    <3>1. F[i] <= FinishOf(cases, k)
      BY <1>1, <1>2, <2>2, FinishGrows
    <3> QED BY <1>3, <2>1, <2>2, <3>1
  <2>3. CASE ~(i <= k)
    <3>1. k + 1 <= i /\ k < N /\ k + 1 <= N
      BY <1>1, <2>3
    <3>2. FinishOf(cases, k + 1) <= F[i] /\ FinishOf(cases, k + 1) \in Nat
      BY <1>1, <1>2, <3>1, FinishGrows
    <3> QED BY <1>3, <2>1, <2>3, <3>1, <3>2
  <2> QED BY <2>2, <2>3
<1> HIDE DEF F
<1>5. {i \in DOMAIN F : F[i] <= Window} = 1..k
  BY <1>1, <1>4
<1>6. Cardinality(1..k) = k
  BY <1>1, FS_Interval
<1> QED BY <1>5, <1>6 DEF F

\* The cases of the window, and those of them that were served.
ServedCases == {served[i].case : i \in 1..Len(served)}
Docketed == arrivals \cup waiting \cup ServedCases

\* k cases were served of those on the docket.  A reviewer is free when one of
\* the last as many cases as there are reviewers ends, each when another does, or
\* has waited since for the next case to arrive.
Slots(slot, cases, k, free) ==
  /\ \A r \in Reviewer : slot[r] \in (k - Reviewers + 1)..k
  /\ \A r, s \in Reviewer : slot[r] = slot[s] => r = s
  /\ \A i \in (k - Reviewers + 1)..k : \E r \in Reviewer : slot[r] = i
  /\ \A r \in Reviewer : FinishOf(cases, slot[r]) <= free[r]
  /\ k < Cardinality(cases) => \A r \in Reviewer :
       \/ free[r] <= FinishOf(cases, slot[r])
       \/ free[r] <= InOrder(cases, k + 1).arrived

Queued ==
  /\ Ordered(Docketed)
  /\ \A i, j \in 1..Len(served) : served[i].case = served[j].case => i = j
  /\ ServedCases \cap (arrivals \cup waiting) = {}
  /\ \A c \in waiting \cup ServedCases : \A r \in Reviewer : c.arrived <= freeAt[r]
  /\ FinishOf(Docketed, Len(served)) <= Window
  /\ \E slot : Slots(slot, Docketed, Len(served), freeAt)

\* As many cases were served as reviews were made.
LEMMA ServedCount ==
  ASSUME DeskInv, Queued
  PROVE  /\ Len(served) \in Nat /\ Cardinality(Docketed) \in Nat
         /\ IsFiniteSet(Docketed) /\ IsFiniteSet(ServedCases)
         /\ Cardinality(ServedCases) = Len(served)
         /\ Len(served) <= Cardinality(Docketed)
         /\ arrivals \cup waiting = {} => Len(served) = Cardinality(Docketed)
<1> DEFINE k == Len(served)
           f == [i \in 1..k |-> served[i].case]
<1>1. k \in Nat /\ IsFiniteSet(Docketed)
  BY DEF DeskInv, Queued, Ordered, Docket
<1>2. ServedCases \in SUBSET Docketed
  BY DEF Docketed
<1>3. IsFiniteSet(ServedCases)
  BY <1>1, <1>2, FS_Subset
<1>4. f \in Surjection(1..k, ServedCases) /\ f \in Injection(1..k, ServedCases)
  BY DEF Queued, ServedCases, Surjection, Injection, IsInjective
<1>5. IsFiniteSet(1..k) /\ Cardinality(1..k) = k
  <2> HIDE DEF k
  <2> QED BY <1>1, FS_Interval
<1>6. Cardinality(ServedCases) = k
  <2> HIDE DEF f, k
  <2> QED BY <1>4, <1>5, FS_Surjection
<1>7. k <= Cardinality(Docketed) /\ Cardinality(Docketed) \in Nat
  BY <1>1, <1>2, <1>6, FS_Subset, FS_CardinalityType
<1>8. arrivals \cup waiting = {} => Docketed = ServedCases
  BY DEF Docketed
<1> QED BY <1>1, <1>3, <1>6, <1>7, <1>8

\* What a case that has landed is reviewed after: it ends when the next case
\* would, and so would any reviewer whose turn that is start now.
LEMMA NextTurn ==
  ASSUME DeskInv, Queued, Landed # {}
  PROVE  LET k == Len(served) IN
         /\ k + 1 \in 1..Cardinality(Docketed)
         /\ InOrder(Docketed, k + 1).arrived <= Now
         /\ FinishOf(Docketed, k + 1) = Now + MinutesPerCase
         /\ Finish(Chosen(Landed)) = Now + MinutesPerCase
         /\ Chosen(Landed) \in Landed
         /\ \A slot : Slots(slot, Docketed, k, freeAt) =>
              \A r \in Reviewer : slot[r] = (k + 1) - Reviewers => freeAt[r] = Now
<1> DEFINE k == Len(served)
           N == Cardinality(Docketed)
           A == InOrder(Docketed, k + 1).arrived
           F(i) == FinishOf(Docketed, i)
           c == Chosen(Landed)
<1>1. /\ k \in Nat /\ N \in Nat /\ IsFiniteSet(Docketed) /\ IsFiniteSet(ServedCases)
      /\ Cardinality(ServedCases) = k /\ Reviewers \in Nat \ {0} /\ MinutesPerCase \in Nat \ {0}
  BY ServedCount, ReviewersExist, DeskAssumption
<1>2. FirstFree \in Reviewer /\ Now \in Nat /\ Now = freeAt[FirstFree]
      /\ \A r \in Reviewer : Now <= freeAt[r] /\ freeAt[r] \in Nat
  BY FirstFreeIsReviewer DEF DeskInv, Now
<1>3. c \in Landed /\ c \in arrivals \cup waiting /\ c \in Cases /\ c.arrived <= Now
  <2>1. Docket(Landed)
    BY LandedIsPart, DocketPart DEF DeskInv
  <2>2. c \in Landed
    BY <2>1, ChosenIsOne
  <2> HIDE DEF c
  <2>3. c.arrived <= Now
    BY <1>2, <2>2 DEF Landed, Queued
  <2> QED BY <2>1, <2>2, <2>3, LandedIsPart DEF Docket
<1>4. Finish(c) = Now + MinutesPerCase
  <2>1. c.arrived \in Int /\ c.minutes = MinutesPerCase /\ Now \in Int
    BY <1>2, <1>3 DEF Cases
  <2>2. Max({Now, c.arrived}) = Now
    <3> HIDE DEF c
    <3>1. Max({Now, c.arrived}) \in {Now, c.arrived} /\ Max({Now, c.arrived}) >= Now
      BY <2>1, LargestOfTwo, LargestIsEither, Zenon
    <3> QED BY <1>3, <2>1, <3>1
  <2> QED BY <2>1, <2>2 DEF Finish
<1> HIDE DEF c
<1>5. k + 1 \in 1..N /\ A <= Now /\ A \in Nat
  <2> DEFINE came == {x \in Docketed : x.arrived <= Now}
             T == ServedCases \cup {c}
  <2>1. T \in SUBSET came
    BY <1>2, <1>3 DEF Docketed, Queued
  <2>2. c \notin ServedCases
    BY <1>3 DEF Queued
  <2>3. Cardinality(T) = k + 1
    BY <1>1, <2>2, FS_AddElement
  <2>4. came \in SUBSET Docketed
    OBVIOUS
  <2>5. IsFiniteSet(came) /\ Cardinality(came) <= N /\ Cardinality(came) \in Nat
    <3> HIDE DEF came
    <3> QED BY <1>1, <2>4, FS_Subset, FS_CardinalityType
  <2>6. k + 1 <= Cardinality(came)
    <3> HIDE DEF came, T
    <3> QED BY <2>1, <2>3, <2>5, FS_Subset
  <2>7. k + 1 \in 1..N /\ Now \in Int
    BY <1>1, <1>2, <2>5, <2>6
  <2>8. Ordered(Docketed)
    BY DEF Queued
  <2> QED BY <2>6, <2>7, <2>8, ArrivedBy
<1>6. F(k + 1) = Max({A, F((k + 1) - Reviewers)}) + MinutesPerCase
  BY <1>5, FifoFinishEnds DEF Queued, Ordered
<1>7. \A i \in (k - Reviewers + 1)..k : F(i) \in Nat /\ F((k + 1) - Reviewers) <= F(i)
  <2> SUFFICES ASSUME NEW i \in (k - Reviewers + 1)..k
               PROVE  F(i) \in Nat /\ F((k + 1) - Reviewers) <= F(i)
    OBVIOUS
  <2>1. i \in Int /\ (k + 1) - Reviewers \in Int /\ (k + 1) - Reviewers <= i /\ i <= N
    BY <1>1, <1>5
  <2> QED BY <2>1, FinishGrows DEF Queued
<1> DEFINE first == (k + 1) - Reviewers
<1>8. first \in (k - Reviewers + 1)..k
  BY <1>1
<1> HIDE DEF A, F, k, N, first
<1>9. ASSUME NEW slot, Slots(slot, Docketed, k, freeAt), NEW r \in Reviewer, slot[r] = first
      PROVE  /\ freeAt[r] = Now
             /\ (F(first) = Now /\ A <= Now) \/ (A = Now /\ F(first) <= Now)
  <2>1. k < N
    BY <1>1, <1>5
  <2>2. freeAt[r] <= F(first) \/ freeAt[r] <= A
    BY <1>9, <2>1 DEF Slots, F, A, N
  <2>3. F(slot[FirstFree]) <= Now /\ slot[FirstFree] \in (k - Reviewers + 1)..k
    BY <1>2, <1>9 DEF Slots, F
  <2>4. F(first) <= F(slot[FirstFree]) /\ F(slot[FirstFree]) \in Nat /\ F(first) \in Nat
    BY <1>7, <1>8, <2>3 DEF first
  <2>5. Now <= freeAt[r] /\ freeAt[r] \in Nat /\ Now \in Nat /\ A \in Nat /\ A <= Now
    BY <1>2, <1>5
  <2> QED BY <2>2, <2>3, <2>4, <2>5
<1>10. Max({A, F(first)}) = Now
  <2>1. PICK slot : Slots(slot, Docketed, k, freeAt)
    BY DEF Queued, k
  <2>2. PICK r \in Reviewer : slot[r] = first
    BY <1>8, <2>1 DEF Slots
  <2>3. (F(first) = Now /\ A <= Now) \/ (A = Now /\ F(first) <= Now)
    BY <1>9, <2>1, <2>2
  <2>4. A \in Int /\ F(first) \in Int
    BY <1>5, <1>7, <1>8
  <2>5. /\ Max({A, F(first)}) \in {A, F(first)}
        /\ Max({A, F(first)}) >= A /\ Max({A, F(first)}) >= F(first)
    BY <2>4, LargestOfTwo, LargestIsEither, Zenon
  <2> QED BY <2>3, <2>4, <2>5
<1>11. F(k + 1) = Now + MinutesPerCase
  BY <1>6, <1>10 DEF first
<1> QED BY <1>3, <1>4, <1>5, <1>9, <1>11 DEF A, F, k, N, c, first

LEMMA IdleQueued ==
  ASSUME DeskInv, Queued, Idle PROVE Queued'
<1> DEFINE k == Len(served)
           N == Cardinality(Docketed)
           r == FirstFree
<1>1. /\ arrivals # {} /\ Landed = {} /\ freeAt' = [freeAt EXCEPT ![r] = IdleUntil]
      /\ UNCHANGED <<arrivals, waiting, served>>
  BY DEF Idle
<1>2. /\ r \in Reviewer /\ Now = freeAt[r] /\ Now \in Nat /\ freeAt \in [Reviewer -> Nat]
      /\ \A c \in arrivals \cup waiting : c.arrived \in Nat
  BY FirstFreeIsReviewer DEF DeskInv, Docket, Cases, Now
<1>3. waiting = {} /\ \A c \in arrivals : c.arrived > Now
  BY <1>1, <1>2 DEF Landed
<1>4. /\ k \in Nat /\ N \in Nat /\ IsFiniteSet(Docketed) /\ IsFiniteSet(ServedCases)
      /\ Cardinality(ServedCases) = k /\ k <= N
  BY ServedCount
<1>5. \A c \in ServedCases : c.arrived <= Now
  BY <1>2 DEF Queued
<1>6. k + 1 \in 1..N
  <2>1. PICK c \in arrivals : TRUE
    BY <1>1
  <2>2. ServedCases \in SUBSET Docketed /\ c \in Docketed \ ServedCases
    BY <2>1 DEF Docketed, Queued
  <2>3. k # N
    BY <1>4, <2>2, FS_Subset
  <2> QED BY <1>4, <2>3
<1>7. IdleUntil <= InOrder(Docketed, k + 1).arrived
  <2> DEFINE came == {c \in Docketed : c.arrived <= Now}
             x == InOrder(Docketed, k + 1)
  <2>1. came \in SUBSET ServedCases
    BY <1>2, <1>3 DEF Docketed
  <2>2. Cardinality(came) <= k /\ Cardinality(came) \in Nat
    <3> HIDE DEF came
    <3> QED BY <1>4, <2>1, FS_Subset, FS_CardinalityType
  <2>3. Ordered(Docketed) /\ Docket(Docketed)
    BY DEF Queued, Ordered
  <2>4. x.arrived <= Now <=> k + 1 <= Cardinality(came)
    <3>1. Now \in Int
      BY <1>2
    <3> QED BY <1>6, <2>3, <3>1, ArrivedBy
  <2>5. x \in Docketed /\ ~(x.arrived <= Now)
    <3>1. x \in Docketed
      BY <1>6, <2>3, InOrderIs
    <3> QED BY <1>4, <2>2, <2>4, <3>1
  <2> HIDE DEF x, came
  <2>6. x \in arrivals
    BY <1>3, <1>5, <2>5 DEF Docketed
  <2> QED BY <2>6, IdleWaits DEF x
<1>8. IdleUntil \in Nat /\ IdleUntil >= freeAt[r]
  BY <1>2, IdleWaits
<1> HIDE DEF r
<1>9. freeAt' \in [Reviewer -> Nat] /\ freeAt'[r] = IdleUntil
      /\ \A q \in Reviewer : freeAt'[q] >= freeAt[q] /\ (q # r => freeAt'[q] = freeAt[q])
  BY <1>1, <1>2, <1>8
<1>10. PICK slot : Slots(slot, Docketed, k, freeAt)
  BY DEF Queued
<1>11. Slots(slot, Docketed, k, freeAt')
  <2>1. ASSUME NEW q \in Reviewer PROVE FinishOf(Docketed, slot[q]) <= freeAt'[q]
    <3>1. FinishOf(Docketed, slot[q]) <= freeAt[q] /\ slot[q] \in (k - Reviewers + 1)..k
      BY <1>10 DEF Slots
    <3>2. FinishOf(Docketed, slot[q]) \in Nat
      <4>1. slot[q] \in Int /\ slot[q] <= N
        BY <1>4, <3>1, ReviewersExist
      <4> QED BY <4>1, FinishGrows DEF Queued
    <3>3. freeAt'[q] \in Nat /\ freeAt[q] \in Nat /\ freeAt'[q] >= freeAt[q]
      BY <1>2, <1>9
    <3> QED BY <3>1, <3>2, <3>3
  <2>2. ASSUME NEW q \in Reviewer, k < N
        PROVE  \/ freeAt'[q] <= FinishOf(Docketed, slot[q])
               \/ freeAt'[q] <= InOrder(Docketed, k + 1).arrived
    BY <1>7, <1>9, <1>10, <2>2 DEF Slots
  <2> QED BY <1>10, <2>1, <2>2 DEF Slots
<1>12. \A c \in waiting \cup ServedCases : \A q \in Reviewer : c.arrived <= freeAt'[q]
  <2> SUFFICES ASSUME NEW c \in ServedCases, NEW q \in Reviewer PROVE c.arrived <= freeAt'[q]
    BY <1>3
  <2>1. c.arrived <= freeAt[q] /\ c.arrived \in Nat
    BY DEF Queued, Docketed, Ordered, Docket, Cases
  <2>2. freeAt'[q] \in Nat /\ freeAt[q] \in Nat /\ freeAt'[q] >= freeAt[q]
    BY <1>2, <1>9
  <2> QED BY <2>1, <2>2
<1>13. Docketed' = Docketed /\ ServedCases' = ServedCases
  BY <1>1 DEF Docketed, ServedCases
<1> QED BY <1>1, <1>11, <1>12, <1>13 DEF Queued

LEMMA ReviewQueued ==
  ASSUME DeskInv, Queued, ReviewOne PROVE Queued'
<1> DEFINE k == Len(served)
           N == Cardinality(Docketed)
           F(i) == FinishOf(Docketed, i)
           A(i) == InOrder(Docketed, i).arrived
           first == (k + 1) - Reviewers
           f == FirstFree
           c == Chosen(Landed)
           e == Finish(c)
<1>1. /\ Landed # {} /\ FitsWindow(c)
      /\ arrivals' = arrivals \ Landed /\ waiting' = Landed \ {c}
      /\ freeAt' = [freeAt EXCEPT ![f] = e] /\ served' = Append(served, Decision(c, e))
  BY DEF ReviewOne
<1>2. /\ f \in Reviewer /\ Now = freeAt[f] /\ Now \in Nat /\ freeAt \in [Reviewer -> Nat]
      /\ \A r \in Reviewer : Now <= freeAt[r]
  BY FirstFreeIsReviewer DEF DeskInv, Now
<1>3. /\ k + 1 \in 1..N /\ A(k + 1) <= Now /\ F(k + 1) = Now + MinutesPerCase
      /\ e = Now + MinutesPerCase /\ c \in Landed
  BY <1>1, NextTurn
<1>4. /\ k \in Nat /\ N \in Nat /\ Reviewers \in Nat \ {0} /\ MinutesPerCase \in Nat \ {0}
  BY ServedCount, ReviewersExist, DeskAssumption
<1>5. PICK slot : Slots(slot, Docketed, k, freeAt)
  BY DEF Queued
<1>6. PICK q \in Reviewer : slot[q] = first
  <2>1. first \in (k - Reviewers + 1)..k
    BY <1>4
  <2> QED BY <1>5, <2>1 DEF Slots
<1>7. freeAt[q] = Now
  BY <1>1, <1>5, <1>6, NextTurn
<1>8. c \in arrivals \cup waiting /\ c \notin ServedCases
  BY <1>3, LandedIsPart DEF Queued
<1>9. e \in Nat /\ e >= Now /\ e <= Window
  BY <1>1, <1>2, <1>3, <1>4 DEF FitsWindow
<1>10. \A x \in Landed : \A r \in Reviewer : x.arrived <= freeAt[r]
  <2> SUFFICES ASSUME NEW x \in Landed, NEW r \in Reviewer PROVE x.arrived <= freeAt[r]
    OBVIOUS
  <2>1. CASE x \in waiting
    BY <2>1 DEF Queued
  <2>2. CASE x \in arrivals /\ x.arrived <= Now
    <3>1. x.arrived \in Nat /\ freeAt[r] \in Nat /\ Now <= freeAt[r]
      BY <1>2, <2>2 DEF DeskInv, Docket, Cases
    <3> QED BY <1>2, <2>2, <3>1
  <2> QED BY <2>1, <2>2 DEF Landed
<1> HIDE DEF c, e, f
<1>11. Len(served') = k + 1 /\ served'[k + 1].case = c /\ \A i \in 1..k : served'[i] = served[i]
  BY <1>1, <1>4 DEF DeskInv, Decision
<1>12. freeAt' \in [Reviewer -> Nat] /\ freeAt'[f] = e
       /\ \A r \in Reviewer : r # f => freeAt'[r] = freeAt[r]
  BY <1>1, <1>2, <1>9
<1>13. ServedCases' = ServedCases \cup {c}
  <2>1. 1..(k + 1) = (1..k) \cup {k + 1}
    BY <1>4
  <2>2. ServedCases' = {served'[i].case : i \in 1..(k + 1)}
    BY <1>11 DEF ServedCases
  <2> QED BY <1>11, <2>1, <2>2 DEF ServedCases
<1>14. Docketed' = Docketed
  <2>1. Docketed' = (arrivals \ Landed) \cup (Landed \ {c}) \cup (ServedCases \cup {c})
    BY <1>1, <1>13 DEF Docketed
  <2> QED BY <1>3, <2>1, LandedIsPart DEF Docketed, Landed
<1> DEFINE new == [r \in Reviewer |-> IF r = f THEN k + 1 ELSE IF r = q THEN slot[f] ELSE slot[r]]
<1>15. /\ \A r \in Reviewer : slot[r] \in (k - Reviewers + 1)..k
       /\ \A r, s \in Reviewer : slot[r] = slot[s] => r = s
       /\ \A i \in (k - Reviewers + 1)..k : \E r \in Reviewer : slot[r] = i
       /\ \A r \in Reviewer : F(slot[r]) <= freeAt[r]
       /\ \A r \in Reviewer : freeAt[r] <= F(slot[r]) \/ freeAt[r] <= A(k + 1)
  <2>1. k < N
    BY <1>3, <1>4
  <2> QED BY <1>5, <2>1 DEF Slots
<1>16. k + 1 < N => A(k + 1) <= A((k + 1) + 1) /\ A(k + 1) \in Nat /\ A((k + 1) + 1) \in Nat
  <2> SUFFICES ASSUME k + 1 < N
               PROVE  A(k + 1) <= A((k + 1) + 1) /\ A(k + 1) \in Nat /\ A((k + 1) + 1) \in Nat
    OBVIOUS
  <2>1. (k + 1) + 1 \in 1..N /\ k + 1 <= (k + 1) + 1 /\ Ordered(Docketed) /\ 0 \in Int
    BY <1>3, <1>4 DEF Queued
  <2>2. A(k + 1) <= A((k + 1) + 1)
    BY <1>3, <2>1, ArrivalsGrow
  <2>3. A(k + 1) \in Nat
    BY <1>3, <2>1, ArrivedBy
  <2>4. A((k + 1) + 1) \in Nat
    BY <2>1, ArrivedBy
  <2> QED BY <2>2, <2>3, <2>4
<1> HIDE DEF F, A, k, N
<1>17. \A r \in Reviewer : new[r] \in ((k + 1) - Reviewers + 1)..(k + 1)
  BY <1>2, <1>4, <1>6, <1>15
<1>18. \A r, s \in Reviewer : new[r] = new[s] => r = s
  BY <1>2, <1>4, <1>6, <1>15
<1>19. \A i \in ((k + 1) - Reviewers + 1)..(k + 1) : \E r \in Reviewer : new[r] = i
  <2> SUFFICES ASSUME NEW i \in ((k + 1) - Reviewers + 1)..(k + 1)
               PROVE  \E r \in Reviewer : new[r] = i
    OBVIOUS
  <2>1. CASE i = k + 1
    BY <1>2, <2>1
  <2>2. CASE i # k + 1
    <3>1. i \in (k - Reviewers + 1)..k /\ i # first
      BY <1>4, <2>2
    <3>2. PICK r \in Reviewer : slot[r] = i
      BY <1>15, <3>1
    <3>3. r # q
      BY <1>6, <3>1, <3>2
    <3>4. CASE r = f
      <4>1. new[q] = i
        BY <3>2, <3>3, <3>4
      <4> QED BY <4>1
    <3>5. CASE r # f
      <4>1. new[r] = i
        BY <3>2, <3>3, <3>5
      <4> QED BY <4>1
    <3> QED BY <3>4, <3>5
  <2> QED BY <2>1, <2>2
<1>20. \A r \in Reviewer : F(new[r]) <= freeAt'[r]
  <2> SUFFICES ASSUME NEW r \in Reviewer PROVE F(new[r]) <= freeAt'[r]
    OBVIOUS
  <2>1. CASE r = f
    BY <1>2, <1>3, <1>4, <1>12, <2>1
  <2>2. CASE r # f /\ r = q
    BY <1>2, <1>7, <1>12, <1>15, <2>2
  <2>3. CASE r # f /\ r # q
    BY <1>12, <1>15, <2>3
  <2> QED BY <2>1, <2>2, <2>3
<1>21. k + 1 < N => \A r \in Reviewer :
         freeAt'[r] <= F(new[r]) \/ freeAt'[r] <= A((k + 1) + 1)
  <2> SUFFICES ASSUME k + 1 < N, NEW r \in Reviewer
               PROVE  freeAt'[r] <= F(new[r]) \/ freeAt'[r] <= A((k + 1) + 1)
    OBVIOUS
  <2>1. A(k + 1) <= A((k + 1) + 1) /\ A(k + 1) \in Nat /\ A((k + 1) + 1) \in Nat
    BY <1>16
  <2>2. freeAt[r] \in Nat /\ freeAt[f] \in Nat
    BY <1>2
  <2>3. CASE r = f
    BY <1>2, <1>3, <1>4, <1>12, <2>3
  <2>4. CASE r # f /\ r = q
    <3>1. freeAt'[r] = freeAt[f] /\ new[r] = slot[f]
      BY <1>2, <1>7, <1>12, <2>4
    <3>2. freeAt[f] <= F(slot[f]) \/ freeAt[f] <= A(k + 1)
      BY <1>2, <1>15
    <3> QED BY <2>1, <2>2, <3>1, <3>2
  <2>5. CASE r # f /\ r # q
    <3>1. freeAt'[r] = freeAt[r] /\ new[r] = slot[r]
      BY <1>12, <2>5
    <3>2. freeAt[r] <= F(slot[r]) \/ freeAt[r] <= A(k + 1)
      BY <1>15
    <3> QED BY <2>1, <2>2, <3>1, <3>2
  <2> QED BY <2>3, <2>4, <2>5
<1>22. Slots(new, Docketed, k + 1, freeAt')
  <2> HIDE DEF new
  <2> QED BY <1>17, <1>18, <1>19, <1>20, <1>21 DEF Slots, F, A, N
<1>23. \A i, j \in 1..(k + 1) : served'[i].case = served'[j].case => i = j
  <2>1. \A i \in 1..(k + 1) : i = k + 1 \/ i \in 1..k
    BY <1>4
  <2>2. \A i \in 1..k : served'[i].case \in ServedCases
    BY <1>11 DEF ServedCases, k
  <2>3. \A i, j \in 1..k : served'[i].case = served'[j].case => i = j
    BY <1>11 DEF Queued, k
  <2> QED BY <1>8, <1>11, <2>1, <2>2, <2>3
<1>24. ServedCases' \cap (arrivals' \cup waiting') = {}
  <2>1. arrivals' \cup waiting' \subseteq (arrivals \cup waiting) \ {c}
    BY <1>1, <1>3, LandedIsPart
  <2> QED BY <1>13, <2>1 DEF Queued
<1>25. \A x \in waiting' \cup ServedCases' : \A r \in Reviewer : x.arrived <= freeAt'[r]
  <2> SUFFICES ASSUME NEW x \in waiting' \cup ServedCases', NEW r \in Reviewer
               PROVE  x.arrived <= freeAt'[r]
    OBVIOUS
  <2>1. x \in Landed \/ x \in ServedCases
    BY <1>1, <1>3, <1>13
  <2>2. x.arrived <= freeAt[r] /\ x.arrived <= Now
    BY <1>2, <1>10, <2>1 DEF Queued
  <2>3. x.arrived \in Nat
    BY <2>1, LandedIsPart DEF Queued, Docketed, Ordered, Docket, Cases
  <2> QED BY <1>2, <1>9, <1>12, <2>2, <2>3
<1>26. FinishOf(Docketed, k + 1) <= Window
  BY <1>3, <1>9 DEF F
<1>27. Ordered(Docketed')
  BY <1>14 DEF Queued
<1>28. Len(served') = k + 1
  BY <1>11
<1> HIDE DEF new
<1> QED BY <1>14, <1>22, <1>23, <1>24, <1>25, <1>26, <1>27, <1>28 DEF Queued

LEMMA CloseServesAsMany ==
  ASSUME DeskInv, Queued, CloseDesk PROVE RuleServesAsMany'
<1> DEFINE k == Len(served)
<1>1. /\ IF Landed = {} THEN arrivals = {} ELSE ~FitsWindow(Chosen(Landed))
      /\ shed' = {Shed(c) : c \in Landed \cup arrivals} /\ served' = served
  BY DEF CloseDesk
<1>2. {d.case : d \in Served' \cup shed'} = Docketed
  <2>1. {d.case : d \in shed'} = arrivals \cup waiting
    <3>1. {d.case : d \in shed'} = Landed \cup arrivals
      <4>1. \A c : Shed(c).case = c
        BY DEF Shed
      <4> QED BY <1>1, <4>1
    <3>2. Landed \cup arrivals = arrivals \cup waiting
      BY DEF Landed
    <3> QED BY <3>1, <3>2
  <2>2. {d.case : d \in Served'} = ServedCases
    <3>1. DOMAIN served = 1..k
      BY DEF DeskInv
    <3> QED BY <1>1, <3>1 DEF Served, ServedCases
  <2> QED BY <2>1, <2>2 DEF Docketed
<1>3. k \in 0..Cardinality(Docketed)
  BY ServedCount
<1>4. k < Cardinality(Docketed) => ~(FinishOf(Docketed, k + 1) <= Window)
  <2>1. CASE Landed = {}
    <3>1. arrivals \cup waiting = {}
      BY <1>1, <2>1 DEF Landed
    <3> QED BY <3>1, ServedCount
  <2>2. CASE Landed # {}
    BY <1>1, <2>2, NextTurn DEF FitsWindow
  <2> QED BY <2>1, <2>2
<1>5. LET finish == FifoFinish(Docketed)
      IN  Cardinality({i \in DOMAIN finish : finish[i] <= Window}) = k
  BY <1>3, <1>4, EndsInTime DEF Queued
<1> QED BY <1>1, <1>2, <1>5 DEF RuleServesAsMany, Served

\* The desk opens on an ordered docket with every reviewer free.
LEMMA OpenQueued ==
  ASSUME BudgetTypeOK, RowsInv, arrivals = {}, waiting = {}, served = <<>>,
         freeAt = [r \in Reviewer |-> 0], RaiseCases
  PROVE  Queued'
<1> DEFINE cases == CasesOf(traces)
<1>1. /\ arrivals' = cases /\ waiting' = {} /\ served' = <<>>
      /\ freeAt' = [r \in Reviewer |-> 0]
  BY DEF RaiseCases, OpenDesk
<1>2. Docketed' = cases /\ ServedCases' = {} /\ Len(served') = 0
  BY <1>1 DEF Docketed, ServedCases
<1>3. Docket(cases)
  BY CasesAreDocket
<1>4. \A c \in cases : c.arrived = ArrivedAt(c.id) /\ c.id \in Nat
  <2>1. \A c \in cases : c.arrived = ArrivedAt(c.id)
    BY DEF CasesOf, ReviewCase
  <2> QED BY <1>3, <2>1 DEF Docket, Cases
<1>5. \A i, j \in Nat : i <= j => ArrivedAt(i) <= ArrivedAt(j)
  <2>1. \A a, b \in Int, d \in Nat \ {0} : a <= b => a \div d <= b \div d
    BY Z3
  <2> SUFFICES ASSUME NEW i \in Nat, NEW j \in Nat, i <= j PROVE ArrivedAt(i) <= ArrivedAt(j)
    OBVIOUS
  <2>2. (i - 1) * 60 <= (j - 1) * 60 /\ (i - 1) * 60 \in Int /\ (j - 1) * 60 \in Int
    OBVIOUS
  <2> QED BY <2>1, <2>2, WindowAssumption DEF ArrivedAt
<1> HIDE DEF cases
<1>6. Ordered(cases)
  BY <1>3, <1>4, <1>5 DEF Ordered
<1>7. FinishOf(cases, 0) = 0 /\ \A i \in Int : i <= 0 => FinishOf(cases, i) = 0
  BY DEF FinishOf
<1>8. 0 <= Window
  <2>1. MinutesAvailable \in Nat
    BY DeskAssumption, ProductIsNat DEF MinutesAvailable
  <2>2. \A a \in Nat, d \in Nat \ {0} : 0 <= a \div d
    BY Z3
  <2> QED BY <2>1, <2>2, ReviewersExist DEF Window
<1> DEFINE slot == [r \in Reviewer |-> r - Reviewers]
<1>9. /\ \A r \in Reviewer : slot[r] \in (0 - Reviewers + 1)..0 /\ slot[r] \in Int /\ slot[r] <= 0
      /\ \A r, s \in Reviewer : slot[r] = slot[s] => r = s
  BY ReviewersExist DEF Reviewer
<1>10. \A i \in (0 - Reviewers + 1)..0 : \E r \in Reviewer : slot[r] = i
  <2> SUFFICES ASSUME NEW i \in (0 - Reviewers + 1)..0 PROVE \E r \in Reviewer : slot[r] = i
    OBVIOUS
  <2>1. i + Reviewers \in Reviewer /\ (i + Reviewers) - Reviewers = i
    BY ReviewersExist DEF Reviewer
  <2>2. slot[i + Reviewers] = i
    BY <2>1
  <2> QED BY <2>1, <2>2
<1> HIDE DEF slot
<1>11. \A r \in Reviewer : FinishOf(cases, slot[r]) = 0 /\ freeAt'[r] = 0
  BY <1>1, <1>7, <1>9
<1>12. Slots(slot, cases, 0, freeAt')
  BY <1>9, <1>10, <1>11 DEF Slots
<1> QED BY <1>1, <1>2, <1>6, <1>7, <1>8, <1>12 DEF Queued

QueueInv ==
  /\ desk = "collecting" =>
       arrivals = {} /\ waiting = {} /\ served = <<>> /\ freeAt = [r \in Reviewer |-> 0]
  /\ desk = "draining" => Queued
  /\ RuleServesAsMany

LEMMA QueueInvStep == WindowInv /\ QueueInv /\ [Next]_windowVars => QueueInv'
<1> SUFFICES ASSUME WindowInv, QueueInv, [Next]_windowVars PROVE QueueInv'
  OBVIOUS
<1>1. DeskInv /\ BudgetTypeOK /\ RowsInv
  BY DEF WindowInv
<1>2. ASSUME UNCHANGED deskVars PROVE QueueInv'
  <2>1. UNCHANGED <<arrivals, waiting, freeAt, served, shed, desk>>
    BY <1>2 DEF deskVars
  <2>2. Docketed' = Docketed /\ ServedCases' = ServedCases
    BY <2>1 DEF Docketed, ServedCases
  <2>3. Queued' <=> Queued
    BY <2>1, <2>2 DEF Queued
  <2>4. RuleServesAsMany' <=> RuleServesAsMany
    BY <2>1 DEF RuleServesAsMany, Served
  <2> QED BY <2>1, <2>3, <2>4 DEF QueueInv
<1>3. CASE AssessRow
  BY <1>2, <1>3 DEF AssessRow
<1>4. CASE RaiseCases
  <2>1. desk = "collecting" /\ desk' = "draining"
    BY <1>4 DEF RaiseCases, OpenDesk
  <2>2. Queued'
    BY <1>1, <1>4, <2>1, OpenQueued DEF QueueInv
  <2> QED BY <2>1, <2>2 DEF QueueInv, RuleServesAsMany
<1>5. CASE Drain
  <2>1. desk = "draining" /\ Queued
    BY <1>5 DEF Drain, DeskStep, Idle, ReviewOne, CloseDesk, QueueInv
  <2>2. CASE Idle
    <3>1. desk' = "draining"
      BY <2>1, <2>2 DEF Idle
    <3> QED BY <1>1, <2>1, <2>2, <3>1, IdleQueued DEF QueueInv, RuleServesAsMany
  <2>3. CASE ReviewOne
    <3>1. desk' = "draining"
      BY <2>1, <2>3 DEF ReviewOne
    <3> QED BY <1>1, <2>1, <2>3, <3>1, ReviewQueued DEF QueueInv, RuleServesAsMany
  <2>4. CASE CloseDesk
    <3>1. desk' = "drained"
      BY <2>4 DEF CloseDesk
    <3> QED BY <1>1, <2>1, <2>4, <3>1, CloseServesAsMany DEF QueueInv
  <2> QED BY <1>5, <2>2, <2>3, <2>4 DEF Drain, DeskStep
<1>6. CASE Label
  BY <1>2, <1>6 DEF Label
<1>7. CASE UNCHANGED windowVars
  BY <1>2, <1>7 DEF windowVars
<1> QED BY <1>3, <1>4, <1>5, <1>6, <1>7 DEF Next

LEMMA QueueInvInit == Init => QueueInv
BY DEF Init, DeskInit, QueueInv, RuleServesAsMany

\* attention.py compares rules "at identical capacity on identical raised cases":
\* for any number of reviewers, cases and minutes each of the five rules serves
\* as many, namely those that would end in the window if taken as they come.
THEOREM RulesServeAsMany == Spec => []RuleServesAsMany
<1>1. QueueInv => RuleServesAsMany
  BY DEF QueueInv
<1> QED BY <1>1, WindowInvInit, WindowInvStep, QueueInvInit, QueueInvStep, PTL DEF Spec
-----------------------------------------------------------------------------
(* The price.  It moves by the error of the rows served so far, so that the *)
(* worst stretch that ends with a row is that row's error alone, or added   *)
(* to the worst stretch that ended before it.                               *)

Spending(ts) == [i \in DOMAIN ts |-> ts[i].spend]
SpentOn(ts, n) == SumOf(Spending(ts), 1..n)
Errors(ts) == [i \in DOMAIN ts |-> RateError(SpentOn(ts, i), i)]
Stretches(ts) == {SumOf(Errors(ts), k..Len(ts)) : k \in 1..Len(ts)}

\* What the sums of the properties add up.
LEMMA SpendingSum ==
  ASSUME NEW ts, NEW n \in Nat, 1..n \subseteq DOMAIN ts
  PROVE  MapThenSumSet(LAMBDA i : ts[i].spend, 1..n) = SpentOn(ts, n)
<1> DEFINE v == Spending(ts)
           Adds(g) == g = [s \in SUBSET (1..n) |-> IF s = {} THEN 0
             ELSE ts[CHOOSE i \in s : TRUE].spend + g[s \ {CHOOSE i \in s : TRUE}]]
<1>1. \A g : SumsUp(g, v, 1..n) <=> Adds(g)
  <2>1. \A s \in SUBSET (1..n) : s # {} => Some(s) \in DOMAIN ts
    BY DEF Some
  <2> QED BY <2>1 DEF SumsUp, Some, Spending
<1>2. MapThenSumSet(LAMBDA i : ts[i].spend, 1..n) = (CHOOSE g : Adds(g))[1..n]
  BY DEF MapThenSumSet, MapThenFoldSet
<1> HIDE DEF Adds, v
<1>3. (CHOOSE g : Adds(g)) = (CHOOSE g : SumsUp(g, v, 1..n))
  BY <1>1
<1> QED BY <1>2, <1>3 DEF SumOf, SpentOn, v

LEMMA SpentIsSum ==
  ASSUME RowsInv, rowsServed \in Nat, NEW n \in 0..rowsServed
  PROVE  Spent(n) = SpentOn(traces, n)
<1>1. n \in Nat /\ 1..n \subseteq DOMAIN traces
  BY DEF RowsInv
<1> QED BY <1>1, SpendingSum DEF Spent

LEMMA StretchIsSum ==
  ASSUME RowsInv, rowsServed \in Nat, NEW k \in 1..rowsServed
  PROVE  MapThenSumSet(LAMBDA i : RateError(Spent(i), i), k..rowsServed)
           = SumOf(Errors(traces), k..Len(traces))
<1> DEFINE D == k..rowsServed
           v == Errors(traces)
           Adds(g) == g = [s \in SUBSET D |-> IF s = {} THEN 0
             ELSE RateError(Spent(CHOOSE i \in s : TRUE), CHOOSE i \in s : TRUE)
                  + g[s \ {CHOOSE i \in s : TRUE}]]
<1>1. \A g : SumsUp(g, v, D) <=> Adds(g)
  <2>1. \A s \in SUBSET D : s # {} => Some(s) \in D
    BY DEF Some
  <2>2. \A i \in D : i \in DOMAIN traces /\ v[i] = RateError(Spent(i), i)
    BY SpentIsSum DEF Errors, RowsInv
  <2> HIDE DEF v, D
  <2> QED BY <2>1, <2>2 DEF SumsUp, Some
<1>2. MapThenSumSet(LAMBDA i : RateError(Spent(i), i), D) = (CHOOSE g : Adds(g))[D]
  BY DEF MapThenSumSet, MapThenFoldSet
<1> HIDE DEF Adds, v
<1>3. (CHOOSE g : Adds(g)) = (CHOOSE g : SumsUp(g, v, D))
  BY <1>1
<1> QED BY <1>2, <1>3 DEF SumOf, v, RowsInv

LEMMA WorstIsOfStretches ==
  ASSUME RowsInv, rowsServed \in Nat
  PROVE  PriceIsWorstStretch <=> shadowPrice = Max({0} \cup Stretches(traces))
<1> DEFINE stretch(k) == MapThenSumSet(LAMBDA i : RateError(Spent(i), i), k..rowsServed)
<1>1. PriceIsWorstStretch <=> shadowPrice = Max({0} \cup {stretch(k) : k \in 1..rowsServed})
  BY DEF PriceIsWorstStretch
<1>2. \A k \in 1..rowsServed : stretch(k) = SumOf(Errors(traces), k..Len(traces))
  BY StretchIsSum
<1> HIDE DEF stretch
<1>3. {stretch(k) : k \in 1..rowsServed} = Stretches(traces)
  BY <1>2 DEF Stretches, RowsInv
<1> QED BY <1>1, <1>3

LEMMA TracedSpends == ASSUME NEW t \in Traced PROVE t.spend \in Int
<1>1. PICK x \in RowKind, price \in Int, mandatory \in BOOLEAN :
        t = Assess(x, price, mandatory)
  BY DEF Traced
<1>2. t.spend \in Spends
  BY <1>1, RowSpends
<1>3. Spends \subseteq Int
  BY BudgetAssumption
<1> QED BY <1>2, <1>3

LEMMA ErrorIsInt ==
  ASSUME NEW spent \in Int, NEW n \in Nat \ {0} PROVE RateError(spent, n) \in Int
<1> DEFINE q == Scale \div n
<1>1. q \in Int
  BY BudgetAssumption, QuotientBound
<1> HIDE DEF q
<1>2. RowsExpected * q \in Int
  BY <1>1, BudgetAssumption
<1>3. (RowsExpected * q) * spent \in Int
  BY <1>2
<1>4. Scale * BudgetInr \in Int
  BY BudgetAssumption
<1> QED BY <1>3, <1>4 DEF RateError, q

\* The largest of the numbers a price is compared with, moved by an error.
LEMMA WorstMoves ==
  ASSUME NEW S \in SUBSET Int, IsFiniteSet(S), 0 \in S, NEW e \in Int,
         NEW p, p = Max(S)
  PROVE  Moved(p, e) = Max({0} \cup {x + e : x \in S})
<1> DEFINE T == {0} \cup {x + e : x \in S}
<1>1. p \in S /\ p \in Int /\ \A y \in S : p >= y
  BY MaxOfFinite
<1>2. Moved(p, e) \in T /\ Moved(p, e) \in Int
  BY <1>1 DEF Moved, Larger
<1>3. \A y \in T : y \in Int /\ Moved(p, e) >= y
  BY <1>1 DEF Moved, Larger
<1> HIDE DEF T
<1>4. \A y \in T : (\A z \in T : y >= z) => y = Moved(p, e)
  BY <1>2, <1>3
<1>5. Max(T) = Moved(p, e)
  BY <1>2, <1>3, <1>4 DEF Max
<1> QED BY <1>5 DEF T

\* One more row leaves what was spent before, and ends every stretch with it.
LEMMA OneMoreRow ==
  ASSUME NEW ts \in Seq(Traced), NEW t \in Traced
  PROVE  LET us == Append(ts, t)
             n == Len(ts)
             e == RateError(SpentOn(us, n + 1), n + 1)
         IN  /\ SpentOn(us, n + 1) = SpentOn(ts, n) + t.spend
             /\ e \in Int /\ Stretches(ts) \in SUBSET Int /\ IsFiniteSet(Stretches(ts))
             /\ Stretches(us) = {x + e : x \in {0} \cup Stretches(ts)}
<1> DEFINE us == Append(ts, t)
           n == Len(ts)
           e == RateError(SpentOn(us, n + 1), n + 1)
<1>1. /\ n \in Nat /\ DOMAIN ts = 1..n /\ DOMAIN us = 1..(n + 1) /\ Len(us) = n + 1
      /\ \A i \in 1..n : us[i] = ts[i] /\ ts[i] \in Traced
      /\ us[n + 1] = t
  OBVIOUS
<1> HIDE DEF us, n
<1>2. \A i \in 1..(n + 1) : Spending(us)[i] \in Int
  <2> SUFFICES ASSUME NEW i \in 1..(n + 1) PROVE Spending(us)[i] \in Int
    OBVIOUS
  <2>1. us[i] \in Traced
    BY <1>1
  <2> QED BY <1>1, <2>1, TracedSpends DEF Spending
<1>3. \A i \in 1..n : Spending(us)[i] = Spending(ts)[i]
  BY <1>1 DEF Spending
<1>4. ASSUME NEW i \in 0..n PROVE SpentOn(us, i) = SpentOn(ts, i) /\ SpentOn(us, i) \in Int
  <2>1. IsFiniteSet(1..i)
    BY FS_Interval
  <2>2. \A j \in 1..i : Spending(us)[j] = Spending(ts)[j] /\ Spending(us)[j] \in Int
    BY <1>1, <1>2, <1>3
  <2> QED BY <2>1, <2>2, SumOfSame, SumOfInts DEF SpentOn
<1>5. SpentOn(us, n + 1) = SpentOn(ts, n) + t.spend /\ SpentOn(us, n + 1) \in Int
  <2>1. 1..(n + 1) = (1..n) \cup {n + 1} /\ n + 1 \notin 1..n /\ n \in 0..n
    BY <1>1
  <2>2. IsFiniteSet(1..n)
    BY <1>1, FS_Interval
  <2>3. Spending(us)[n + 1] = t.spend
    BY <1>1 DEF Spending
  <2>4. /\ SumOf(Spending(us), (1..n) \cup {n + 1})
             = Spending(us)[n + 1] + SumOf(Spending(us), 1..n)
    BY <1>2, <2>1, <2>2, SumOfMore
  <2>5. SpentOn(us, n) = SpentOn(ts, n) /\ SpentOn(us, n) \in Int
    BY <1>4, <2>1
  <2>6. t.spend \in Int
    BY TracedSpends
  <2>7. SpentOn(us, n + 1) = t.spend + SpentOn(us, n)
    BY <2>1, <2>3, <2>4 DEF SpentOn
  <2> QED BY <2>5, <2>6, <2>7
<1>6. \A i \in 1..(n + 1) : Errors(us)[i] \in Int
  <2> SUFFICES ASSUME NEW i \in 1..(n + 1) PROVE Errors(us)[i] \in Int
    OBVIOUS
  <2>1. SpentOn(us, i) \in Int
    <3>1. i \in 0..n \/ i = n + 1
      BY <1>1
    <3> QED BY <1>4, <1>5, <3>1
  <2>2. i \in Nat \ {0}
    BY <1>1
  <2> QED BY <1>1, <2>1, <2>2, ErrorIsInt DEF Errors
<1>7. e \in Int /\ Errors(us)[n + 1] = e
  BY <1>1, <1>5, ErrorIsInt DEF Errors
<1>8. \A i \in 1..n : Errors(us)[i] = Errors(ts)[i]
  <2> SUFFICES ASSUME NEW i \in 1..n PROVE Errors(us)[i] = Errors(ts)[i]
    OBVIOUS
  <2>1. i \in 0..n
    BY <1>1
  <2> QED BY <1>1, <1>4, <2>1 DEF Errors
<1> HIDE DEF e
<1>9. ASSUME NEW k \in 1..(n + 1)
      PROVE  /\ SumOf(Errors(us), k..(n + 1)) = e + SumOf(Errors(us), k..n)
             /\ SumOf(Errors(us), k..n) = SumOf(Errors(ts), k..n)
             /\ SumOf(Errors(us), k..n) \in Int
  <2>1. k..(n + 1) = (k..n) \cup {n + 1} /\ n + 1 \notin k..n /\ k \in Int /\ n \in Int
    BY <1>1
  <2>2. IsFiniteSet(k..n)
    BY <2>1, FS_Interval
  <2>3. \A i \in (k..n) \cup {n + 1} : Errors(us)[i] \in Int
    BY <1>1, <1>6
  <2>4. \A i \in k..n : Errors(us)[i] = Errors(ts)[i]
    BY <1>1, <1>8
  <2>5. SumOf(Errors(us), (k..n) \cup {n + 1}) = Errors(us)[n + 1] + SumOf(Errors(us), k..n)
        /\ SumOf(Errors(us), k..n) \in Int
    BY <2>1, <2>2, <2>3, SumOfMore
  <2>6. SumOf(Errors(us), k..n) = SumOf(Errors(ts), k..n)
    BY <2>2, <2>4, SumOfSame
  <2> QED BY <1>7, <2>1, <2>5, <2>6
<1>10. SumOf(Errors(ts), (n + 1)..n) = 0
  <2>1. (n + 1)..n = {}
    BY <1>1
  <2> QED BY <2>1, SumOfNone
<1> DEFINE at(k) == SumOf(Errors(ts), k..n)
<1>11. Stretches(ts) = {at(k) : k \in 1..n} /\ Stretches(us) = {e + at(k) : k \in 1..(n + 1)}
  <2>1. Stretches(ts) = {at(k) : k \in 1..n}
    BY DEF Stretches, n
  <2>2. Stretches(us) = {SumOf(Errors(us), k..(n + 1)) : k \in 1..(n + 1)}
    BY <1>1 DEF Stretches
  <2>3. \A k \in 1..(n + 1) : SumOf(Errors(us), k..(n + 1)) = e + at(k)
    BY <1>9
  <2> HIDE DEF at
  <2> QED BY <2>1, <2>2, <2>3
<1>12. (\A k \in 1..(n + 1) : at(k) \in Int) /\ at(n + 1) = 0
  BY <1>9, <1>10
<1> HIDE DEF at
<1>13. Stretches(ts) \in SUBSET Int /\ IsFiniteSet(Stretches(ts))
  <2> DEFINE f == [k \in 1..n |-> at(k)]
  <2>1. f \in Surjection(1..n, Stretches(ts))
    BY <1>11 DEF Surjection
  <2>2. IsFiniteSet(1..n)
    BY <1>1, FS_Interval
  <2>3. Stretches(ts) \in SUBSET Int
    BY <1>1, <1>11, <1>12
  <2> HIDE DEF f
  <2> QED BY <2>1, <2>2, <2>3, FS_Surjection
<1>14. Stretches(us) = {x + e : x \in {0} \cup Stretches(ts)}
  <2>1. 1..(n + 1) = (1..n) \cup {n + 1}
    BY <1>1
  <2>2. \A k \in 1..(n + 1) : e + at(k) = at(k) + e
    BY <1>7, <1>12
  <2>3. e + at(n + 1) = 0 + e
    BY <1>7, <1>12
  <2>4. Stretches(us) \subseteq {x + e : x \in {0} \cup Stretches(ts)}
    BY <1>11, <2>1, <2>2, <2>3
  <2>5. {x + e : x \in {0} \cup Stretches(ts)} \subseteq Stretches(us)
    BY <1>11, <2>1, <2>2, <2>3
  <2> QED BY <2>4, <2>5
<1> QED BY <1>5, <1>7, <1>13, <1>14 DEF us, n, e

PriceInv ==
  /\ committed = SpentOn(traces, Len(traces))
  /\ shadowPrice = Max({0} \cup Stretches(traces))

LEMMA PriceStep ==
  WindowInv /\ PriceInv /\ [Next]_windowVars => PriceInv'
<1> SUFFICES ASSUME WindowInv, PriceInv, [Next]_windowVars PROVE PriceInv'
  OBVIOUS
<1>1. CASE AssessRow
  <2>1. RowsInv /\ RowsInv'
    BY <1>1, RowKeeps DEF WindowInv
  <2>2. PICK x \in RowKind :
          LET t == Assess(x, PriceInForce, MandatoryOnly) IN
          /\ traces' = Append(traces, t) /\ Account(t.spend)
    BY <1>1 DEF AssessRow
  <2> DEFINE t == Assess(x, PriceInForce, MandatoryOnly)
             n == Len(traces)
             e == RateError(SpentOn(traces', n + 1), n + 1)
             S == {0} \cup Stretches(traces)
  <2>3. traces' = Append(traces, t) /\ Account(t.spend)
    BY <2>2
  <2> HIDE DEF t
  <2>4. t \in Traced
    <3>1. traces \in Seq(Traced) /\ traces' \in Seq(Traced)
      BY <2>1 DEF RowsInv
    <3>2. n + 1 \in 1..Len(traces') /\ traces'[n + 1] = t
      BY <2>3, <3>1
    <3> QED BY <3>1, <3>2
  <2>5. n = rowsServed /\ traces \in Seq(Traced)
    BY <2>1 DEF RowsInv
  <2>6. /\ SpentOn(traces', n + 1) = SpentOn(traces, n) + t.spend
        /\ e \in Int /\ Stretches(traces) \in SUBSET Int /\ IsFiniteSet(Stretches(traces))
        /\ Stretches(traces') = {y + e : y \in S}
    BY <2>3, <2>4, <2>5, OneMoreRow
  <2>7. committed' = committed + t.spend
        /\ shadowPrice' = Moved(shadowPrice, RateError(committed + t.spend, rowsServed + 1))
    BY <2>3 DEF Account
  <2>8. Len(traces') = n + 1
    BY <2>3, <2>5
  <2>9. committed' = SpentOn(traces', Len(traces'))
    BY <2>6, <2>7, <2>8 DEF PriceInv
  <2>10. shadowPrice' = Moved(shadowPrice, e)
    BY <2>5, <2>6, <2>7 DEF PriceInv
  <2>11. S \in SUBSET Int /\ IsFiniteSet(S) /\ 0 \in S /\ shadowPrice = Max(S)
    <3>1. S = Stretches(traces) \cup {0} /\ shadowPrice = Max(S)
      BY DEF PriceInv
    <3>2. IsFiniteSet(Stretches(traces) \cup {0})
      BY <2>6, FS_AddElement
    <3>3. S \in SUBSET Int /\ 0 \in S
      BY <2>6
    <3> HIDE DEF S
    <3> QED BY <3>1, <3>2, <3>3
  <2> HIDE DEF e, S
  <2>12. shadowPrice' = Max({0} \cup {y + e : y \in S})
    BY <2>6, <2>10, <2>11, WorstMoves
  <2>13. shadowPrice' = Max({0} \cup Stretches(traces'))
    BY <2>6, <2>12
  <2> QED BY <2>9, <2>13 DEF PriceInv
<1>2. CASE RaiseCases
  BY <1>2 DEF RaiseCases, budgetVars, PriceInv
<1>3. CASE Drain
  BY <1>3 DEF Drain, budgetVars, PriceInv
<1>4. CASE Label
  BY <1>4 DEF Label, budgetVars, PriceInv
<1>5. CASE UNCHANGED windowVars
  BY <1>5 DEF windowVars, budgetVars, PriceInv
<1> QED BY <1>1, <1>2, <1>3, <1>4, <1>5 DEF Next

LEMMA PriceInit == Init => PriceInv
<1> SUFFICES ASSUME Init PROVE PriceInv
  OBVIOUS
<1>1. committed = 0 /\ shadowPrice = 0 /\ traces = <<>> /\ Len(traces) = 0
  BY DEF Init, BudgetInit
<1>2. 1..0 = {}
  OBVIOUS
<1>3. SpentOn(traces, Len(traces)) = 0
  BY <1>1, <1>2, SumOfNone DEF SpentOn
<1>4. Stretches(traces) = {}
  BY <1>1, <1>2 DEF Stretches
<1>5. Max({0} \cup {}) = 0
  BY DEF Max
<1> QED BY <1>1, <1>3, <1>4, <1>5 DEF PriceInv

\* Comment of the controller: a non-negative price moved by the observed spend
\* rate.  For any rows it is what the worst stretch of them that ends now was
\* over the rate, and remembers nothing of the rows before that stretch.
THEOREM PriceIsAlwaysWorst == Spec => []PriceIsWorstStretch
<1>1. WindowInv /\ PriceInv => PriceIsWorstStretch
  <2> SUFFICES ASSUME WindowInv, PriceInv PROVE PriceIsWorstStretch
    OBVIOUS
  <2>1. RowsInv /\ rowsServed \in Nat
    BY DEF WindowInv, BudgetTypeOK
  <2> QED BY <2>1, WorstIsOfStretches DEF PriceInv
<1> QED BY <1>1, WindowInvInit, WindowInvStep, PriceInit, PriceStep, PTL DEF Spec
-----------------------------------------------------------------------------
(* What is lost.  Row by row, what a run averts and what it leaves are all  *)
(* there was to lose; the sums over the rows follow.                        *)

\* What the sums over the axes and over the rows add up.
LossTerms(i) == [a \in Axis |-> rows[i].truth[a] * Consequence[a]]
AllLoss == [i \in DOMAIN rows |-> Loss(i, Axis)]
AvertedBy(ts) == [i \in DOMAIN rows |-> Averted(i, ts[i])]
LeftBy(ts) == [i \in DOMAIN rows |-> Loss(i, Axis) - Averted(i, ts[i])]

LEMMA LossIsSum ==
  ASSUME NEW i, NEW axes \in SUBSET Axis
  PROVE  Loss(i, axes) = SumOf(LossTerms(i), axes)
<1> DEFINE v == LossTerms(i)
           Adds(g) == g = [s \in SUBSET axes |-> IF s = {} THEN 0
             ELSE rows[i].truth[CHOOSE a \in s : TRUE] * Consequence[CHOOSE a \in s : TRUE]
                  + g[s \ {CHOOSE a \in s : TRUE}]]
<1>1. \A g : SumsUp(g, v, axes) <=> Adds(g)
  <2>1. \A s \in SUBSET axes : s # {} => Some(s) \in Axis
    BY DEF Some
  <2> QED BY <2>1 DEF SumsUp, Some, LossTerms
<1>2. Loss(i, axes) = (CHOOSE g : Adds(g))[axes]
  BY DEF Loss, MapThenSumSet, MapThenFoldSet
<1> HIDE DEF Adds, v
<1>3. (CHOOSE g : Adds(g)) = (CHOOSE g : SumsUp(g, v, axes))
  BY <1>1
<1> QED BY <1>2, <1>3 DEF SumOf, v

LEMMA AllLossIsSum ==
  ASSUME NEW D \in SUBSET DOMAIN rows
  PROVE  MapThenSumSet(LAMBDA i : Loss(i, Axis), D) = SumOf(AllLoss, D)
<1> DEFINE v == AllLoss
           Adds(g) == g = [s \in SUBSET D |-> IF s = {} THEN 0
             ELSE Loss(CHOOSE i \in s : TRUE, Axis) + g[s \ {CHOOSE i \in s : TRUE}]]
<1>1. \A g : SumsUp(g, v, D) <=> Adds(g)
  <2>1. \A s \in SUBSET D : s # {} => Some(s) \in DOMAIN rows
    BY DEF Some
  <2> QED BY <2>1 DEF SumsUp, Some, AllLoss
<1>2. MapThenSumSet(LAMBDA i : Loss(i, Axis), D) = (CHOOSE g : Adds(g))[D]
  BY DEF MapThenSumSet, MapThenFoldSet
<1> HIDE DEF Adds, v
<1>3. (CHOOSE g : Adds(g)) = (CHOOSE g : SumsUp(g, v, D))
  BY <1>1
<1> QED BY <1>2, <1>3 DEF SumOf, v

LEMMA AvertedIsSum ==
  ASSUME NEW ts, DOMAIN ts = DOMAIN rows
  PROVE  TotalAverted(ts) = SumOf(AvertedBy(ts), DOMAIN rows)
<1> DEFINE v == AvertedBy(ts)
           D == DOMAIN rows
           Adds(g) == g = [s \in SUBSET D |-> IF s = {} THEN 0
             ELSE Averted(CHOOSE i \in s : TRUE, ts[CHOOSE i \in s : TRUE])
                  + g[s \ {CHOOSE i \in s : TRUE}]]
<1>1. \A g : SumsUp(g, v, D) <=> Adds(g)
  <2>1. \A s \in SUBSET D : s # {} => Some(s) \in DOMAIN rows
    BY DEF Some
  <2> QED BY <2>1 DEF SumsUp, Some, AvertedBy
<1>2. TotalAverted(ts) = (CHOOSE g : Adds(g))[D]
  BY DEF TotalAverted, MapThenSumSet, MapThenFoldSet
<1> HIDE DEF Adds, v
<1>3. (CHOOSE g : Adds(g)) = (CHOOSE g : SumsUp(g, v, D))
  BY <1>1
<1> QED BY <1>2, <1>3 DEF SumOf, v

LEMMA ResidualIsSum ==
  ASSUME NEW ts, DOMAIN ts = DOMAIN rows
  PROVE  Residual(ts) = SumOf(LeftBy(ts), {i \in DOMAIN rows : Released(ts[i])})
<1> DEFINE v == LeftBy(ts)
           D == {i \in DOMAIN rows : Released(ts[i])}
           Adds(g) == g = [s \in SUBSET D |-> IF s = {} THEN 0
             ELSE (Loss(CHOOSE i \in s : TRUE, Axis)
                     - Averted(CHOOSE i \in s : TRUE, ts[CHOOSE i \in s : TRUE]))
                  + g[s \ {CHOOSE i \in s : TRUE}]]
<1>1. \A g : SumsUp(g, v, D) <=> Adds(g)
  <2>1. \A s \in SUBSET D : s # {} => Some(s) \in DOMAIN rows
    BY DEF Some
  <2> HIDE DEF D
  <2> QED BY <2>1 DEF SumsUp, Some, LeftBy
<1>2. Residual(ts) = (CHOOSE g : Adds(g))[D]
  BY DEF Residual, MapThenSumSet, MapThenFoldSet
<1> HIDE DEF Adds, v, D
<1>3. (CHOOSE g : Adds(g)) = (CHOOSE g : SumsUp(g, v, D))
  BY <1>1
<1> QED BY <1>2, <1>3 DEF SumOf, v, D

\* What there is to lose on a row, and any part of it, is an amount of money.
LEMMA LossFacts ==
  ASSUME NEW i, rows[i] \in RowKind, NEW axes \in SUBSET Axis
  PROVE  /\ Loss(i, axes) \in Int /\ Loss(i, Axis) \in Int
         /\ 0 <= Loss(i, axes) /\ Loss(i, axes) <= Loss(i, Axis) /\ Loss(i, {}) = 0
<1> DEFINE v == LossTerms(i)
<1>1. \A a \in Axis : v[a] \in Int /\ v[a] >= 0
  <2> SUFFICES ASSUME NEW a \in Axis PROVE v[a] \in Nat
    OBVIOUS
  <2>1. rows[i].truth[a] \in Nat /\ Consequence[a] \in Nat
    <3>1. rows[i].truth \in [Axis -> {0, 100}]
      BY WindowAssumption DEF IsRow
    <3> QED BY <3>1, AllocationAssumption
  <2> QED BY <2>1, ProductIsNat DEF LossTerms
<1>2. IsFiniteSet(Axis) /\ IsFiniteSet(axes) /\ {} \in SUBSET axes /\ Axis \in SUBSET Axis
      /\ {} \in SUBSET Axis
  BY AllocationAssumption, FS_Subset
<1>3. Loss(i, axes) = SumOf(v, axes) /\ Loss(i, Axis) = SumOf(v, Axis) /\ Loss(i, {}) = SumOf(v, {})
  BY <1>2, LossIsSum
<1> HIDE DEF v
<1>4. SumOf(v, axes) <= SumOf(v, Axis) /\ SumOf(v, Axis) \in Int /\ SumOf(v, axes) \in Int
  <2>1. \A a \in axes : v[a] \in Int /\ v[a] <= v[a]
    BY <1>1
  <2> QED BY <1>1, <1>2, <2>1, SumOfPart
<1>5. SumOf(v, {}) <= SumOf(v, axes) /\ SumOf(v, {}) = 0
  <2>1. \A a \in axes : v[a] \in Int /\ v[a] >= 0
    BY <1>1
  <2>2. \A a \in {} : v[a] \in Int /\ v[a] <= v[a]
    OBVIOUS
  <2>3. SumOf(v, {}) <= SumOf(v, axes)
    BY <1>2, <2>1, <2>2, SumOfPart
  <2> QED BY <2>3, SumOfNone
<1> QED BY <1>3, <1>4, <1>5

\* A row's loss is averted or left, all of it averted if it was withheld and
\* all of it left if it escaped.
LEMMA RowIsAccounted ==
  ASSUME NEW i, rows[i] \in RowKind, NEW t
  PROVE  /\ Averted(i, t) \in Int /\ Loss(i, Axis) - Averted(i, t) \in Int
         /\ Loss(i, Axis) - Averted(i, t) >= 0
         /\ ~Released(t) => Loss(i, Axis) - Averted(i, t) = 0
         /\ Escaped(i, t) => Loss(i, Axis) - Averted(i, t) = Loss(i, Axis)
<1> DEFINE axes == IF Released(t) THEN CaughtAxes(i, t) ELSE Axis
<1>1. axes \in SUBSET Axis
  BY DEF CaughtAxes
<1>2. Averted(i, t) = Loss(i, axes)
  BY DEF Averted
<1>3. Escaped(i, t) => axes = {} /\ Released(t)
  BY DEF Escaped
<1>4. ~Released(t) => axes = Axis
  OBVIOUS
<1> HIDE DEF axes
<1>5. /\ Loss(i, axes) \in Int /\ Loss(i, Axis) \in Int
      /\ 0 <= Loss(i, axes) /\ Loss(i, axes) <= Loss(i, Axis) /\ Loss(i, {}) = 0
  BY <1>1, LossFacts
<1>6. Escaped(i, t) => Averted(i, t) = 0
  BY <1>2, <1>3, <1>5
<1>7. ~Released(t) => Averted(i, t) = Loss(i, Axis)
  BY <1>2, <1>4
<1> QED BY <1>2, <1>5, <1>6, <1>7

\* Any run over the rows, of the allocator or a baseline, adds up.
LEMMA RunIsAccounted ==
  ASSUME RowsInv, NEW ts, DOMAIN ts = DOMAIN rows
  PROVE  /\ TotalAverted(ts) \in Int
         /\ TotalAverted(ts) + Residual(ts) = SumOf(AllLoss, DOMAIN rows)
         /\ SumOf(AllLoss, {i \in DOMAIN ts : Escaped(i, ts[i])}) <= Residual(ts)
<1> DEFINE D == DOMAIN rows
           R == {i \in D : Released(ts[i])}
           E == {i \in D : Escaped(i, ts[i])}
           u == AvertedBy(ts)
           v == LeftBy(ts)
           w == AllLoss
<1>1. IsFiniteSet(D) /\ \A i \in D : rows[i] \in RowKind
  <2>1. D = 1..Len(rows) /\ Len(rows) \in Nat /\ \A i \in D : rows[i] \in RowKind
    BY DEF RowsInv
  <2>2. IsFiniteSet(1..Len(rows))
    BY <2>1, FS_Interval
  <2> QED BY <2>1, <2>2
<1>2. \A i \in D : u[i] = Averted(i, ts[i]) /\ v[i] = Loss(i, Axis) - Averted(i, ts[i])
                   /\ w[i] = Loss(i, Axis)
  BY DEF AvertedBy, LeftBy, AllLoss
<1>3. \A i \in D : u[i] \in Int /\ v[i] \in Int /\ v[i] >= 0 /\ w[i] \in Int /\ w[i] = u[i] + v[i]
  <2> SUFFICES ASSUME NEW i \in D
               PROVE  u[i] \in Int /\ v[i] \in Int /\ v[i] >= 0 /\ w[i] \in Int
                      /\ w[i] = u[i] + v[i]
    OBVIOUS
  <2>1. /\ Averted(i, ts[i]) \in Int /\ Loss(i, Axis) - Averted(i, ts[i]) \in Int
        /\ Loss(i, Axis) - Averted(i, ts[i]) >= 0
    BY <1>1, RowIsAccounted
  <2>2. Loss(i, Axis) \in Int
    <3>1. Axis \in SUBSET Axis
      OBVIOUS
    <3> QED BY <1>1, <3>1, LossFacts
  <2> HIDE DEF u, v, w
  <2> QED BY <1>2, <2>1, <2>2
<1>4. \A i \in D \ R : v[i] = 0
  BY <1>1, <1>2, RowIsAccounted
<1>5. \A i \in E : w[i] \in Int /\ w[i] <= v[i]
  <2>1. \A i \in E : v[i] = w[i]
    BY <1>1, <1>2, RowIsAccounted
  <2> HIDE DEF v, w
  <2> QED BY <1>3, <2>1
<1>6. E \subseteq R /\ R \subseteq D
  BY DEF Escaped
<1>7. TotalAverted(ts) = SumOf(u, D) /\ Residual(ts) = SumOf(v, R)
  BY AvertedIsSum, ResidualIsSum
<1>8. {i \in DOMAIN ts : Escaped(i, ts[i])} = E
  OBVIOUS
<1> HIDE DEF u, v, w, D, R, E
<1>9. SumOf(u, D) \in Int /\ SumOf(v, R) \in Int
  <2>1. IsFiniteSet(R) /\ \A i \in R : v[i] \in Int
    BY <1>1, <1>3, <1>6, FS_Subset
  <2> QED BY <1>1, <1>3, <2>1, SumOfInts
<1>10. SumOf(u, D) + SumOf(v, R) = SumOf(w, D)
  <2>1. SumOf(w, D) = SumOf(u, D) + SumOf(v, D)
    BY <1>1, <1>3, SumOfAll
  <2>2. SumOf(v, R) = SumOf(v, D)
    BY <1>1, <1>3, <1>4, <1>6, SumOfRest
  <2> QED BY <2>1, <2>2
<1>11. SumOf(w, E) <= SumOf(v, R)
  <2>1. IsFiniteSet(R) /\ E \in SUBSET R /\ \A i \in R : v[i] \in Int /\ v[i] >= 0
    BY <1>1, <1>3, <1>6, FS_Subset
  <2> QED BY <1>5, <2>1, SumOfPart
<1> QED BY <1>7, <1>8, <1>9, <1>10, <1>11 DEF w, D

\* One of the two tiers is the better, so the tuned baseline is one of its runs.
LEMMA BestIsARun ==
  ASSUME RowsInv, NEW limit
  PROVE  DOMAIN BestFixedRate(limit) = DOMAIN rows
<1> DEFINE run == [k \in BaselineTiers |-> BaselineTraces(FixedRate(k, limit).rows, k)]
           better(k, j) == \/ TotalAverted(run[k]) > TotalAverted(run[j])
                           \/ TotalAverted(run[k]) = TotalAverted(run[j]) /\ k <= j
           best == CHOOSE k \in BaselineTiers : \A j \in BaselineTiers : better(k, j)
<1>1. \A k \in BaselineTiers : DOMAIN run[k] = DOMAIN rows
  BY DEF BaselineTraces
<1>2. BestFixedRate(limit) = run[best]
  BY DEF BestFixedRate
<1> HIDE DEF run
<1>3. \A k \in BaselineTiers : TotalAverted(run[k]) \in Int
  BY <1>1, RunIsAccounted
<1>4. \E k \in BaselineTiers : \A j \in BaselineTiers : better(k, j)
  <2>1. TotalAverted(run[1]) \in Int /\ TotalAverted(run[2]) \in Int /\ BaselineTiers = {1, 2}
    BY <1>3 DEF BaselineTiers
  <2>2. CASE TotalAverted(run[2]) > TotalAverted(run[1])
    BY <2>1, <2>2
  <2>3. CASE ~(TotalAverted(run[2]) > TotalAverted(run[1]))
    BY <2>1, <2>3
  <2> QED BY <2>2, <2>3
<1> HIDE DEF better
<1>5. best \in BaselineTiers
  BY <1>4
<1> QED BY <1>1, <1>2, <1>5

\* metrics.py: for any rows, scores, catch rates and draws, averted and residual
\* loss add up to all there was to lose, for the allocator and for the tuned
\* baseline, and harm a user received with nothing caught is in the residual.
THEOREM LossIsAlwaysAccounted == Spec => []LossIsAccounted
<1>1. WindowInv => LossIsAccounted
  <2> SUFFICES ASSUME WindowInv, NEW ts \in {traces, BestFixedRate(committed)}
               PROVE  /\ TotalAverted(ts) + Residual(ts)
                           = MapThenSumSet(LAMBDA i : Loss(i, Axis), DOMAIN rows)
                      /\ MapThenSumSet(LAMBDA i : Loss(i, Axis),
                                       {i \in DOMAIN ts : Escaped(i, ts[i])})
                           <= Residual(ts)
    BY DEF LossIsAccounted
  <2>1. RowsInv
    BY DEF WindowInv
  <2>2. DOMAIN ts = DOMAIN rows
    <3>1. DOMAIN traces = DOMAIN rows
      BY <2>1 DEF RowsInv
    <3> QED BY <2>1, <3>1, BestIsARun
  <2>3. MapThenSumSet(LAMBDA i : Loss(i, Axis), DOMAIN rows) = SumOf(AllLoss, DOMAIN rows)
    BY AllLossIsSum
  <2> DEFINE E == {i \in DOMAIN ts : Escaped(i, ts[i])}
  <2>4. MapThenSumSet(LAMBDA i : Loss(i, Axis), E) = SumOf(AllLoss, E)
    BY <2>2, AllLossIsSum
  <2>5. /\ TotalAverted(ts) + Residual(ts) = SumOf(AllLoss, DOMAIN rows)
        /\ SumOf(AllLoss, E) <= Residual(ts)
    BY <2>1, <2>2, RunIsAccounted
  <2> QED BY <2>3, <2>4, <2>5
<1> QED BY <1>1, WindowInvInit, WindowInvStep, PTL DEF Spec
-----------------------------------------------------------------------------
(* The baseline.  Whatever candidates it was shown, those it took fit the   *)
(* limit and the others did not fit after the ones before them; one more at *)
(* the end of the order keeps both.                                         *)

CostOf(k) == [i \in DOMAIN rows |-> CheckCost(i, k)]

LEMMA CostIsSum ==
  ASSUME NEW k, NEW D \in SUBSET DOMAIN rows
  PROVE  MapThenSumSet(LAMBDA i : CheckCost(i, k), D) = SumOf(CostOf(k), D)
<1> DEFINE v == CostOf(k)
           Adds(g) == g = [s \in SUBSET D |-> IF s = {} THEN 0
             ELSE CheckCost(CHOOSE i \in s : TRUE, k) + g[s \ {CHOOSE i \in s : TRUE}]]
<1>1. \A g : SumsUp(g, v, D) <=> Adds(g)
  <2>1. \A s \in SUBSET D : s # {} => Some(s) \in DOMAIN rows
    BY DEF Some
  <2> QED BY <2>1 DEF SumsUp, Some, CostOf
<1>2. MapThenSumSet(LAMBDA i : CheckCost(i, k), D) = (CHOOSE g : Adds(g))[D]
  BY DEF MapThenSumSet, MapThenFoldSet
<1> HIDE DEF Adds, v
<1>3. (CHOOSE g : Adds(g)) = (CHOOSE g : SumsUp(g, v, D))
  BY <1>1
<1> QED BY <1>2, <1>3 DEF SumOf, v

\* What the candidates are ranked and charged by.
LEMMA CandidateFacts ==
  ASSUME RowsInv, rowsServed \in Nat
  PROVE  /\ IsFiniteSet(DOMAIN rows) /\ DOMAIN rows \subseteq Int
         /\ \A i \in DOMAIN rows : Maximum(rows[i].harm) \in Int
         /\ \A k \in BaselineTiers : \A i \in DOMAIN rows : CostOf(k)[i] \in Nat
<1>1. DOMAIN rows = 1..rowsServed /\ \A i \in DOMAIN rows : rows[i] \in RowKind
  BY DEF RowsInv
<1>2. IsFiniteSet(DOMAIN rows) /\ DOMAIN rows \subseteq Int
  BY <1>1, FS_Interval
<1>3. ASSUME NEW i \in DOMAIN rows PROVE Maximum(rows[i].harm) \in Int
  <2> DEFINE h == rows[i].harm
             f == [a \in Axis |-> h[a]]
             S == {h[a] : a \in Axis}
  <2>1. h \in [Axis -> Score]
    BY <1>1, <1>3, WindowAssumption DEF IsRow, Vector
  <2>2. S \in SUBSET Int /\ S # {}
    BY <2>1, AllocationAssumption, SMTT(30), ZenonT(30) DEF Score
  <2>3. f \in Surjection(Axis, S)
    BY DEF Surjection
  <2>4. IsFiniteSet(S)
    <3> HIDE DEF f, S
    <3> QED BY <2>3, AllocationAssumption, FS_Surjection
  <2>5. Max(S) \in Int
    <3> HIDE DEF S
    <3> QED BY <2>2, <2>4, MaxOfFinite
  <2> QED BY <2>5 DEF Maximum
<1>4. ASSUME NEW k \in BaselineTiers, NEW i \in DOMAIN rows PROVE CostOf(k)[i] \in Nat
  <2>1. rows[i].effect \in Effect \cup {NoEffect}
    BY <1>1, <1>4, WindowAssumption DEF IsRow
  <2>2. k \in Tier
    BY DEF BaselineTiers, Tier
  <2>3. Cost[k][rows[i].effect] \in Nat
    BY <2>1, <2>2, AllocationAssumption
  <2> QED BY <1>4, <2>3 DEF CostOf, CheckCost
<1> QED BY <1>2, <1>3, <1>4

\* The ranking is an order, so that any candidates have a last one.
LEMMA RankedLastIs ==
  ASSUME RowsInv, rowsServed \in Nat, NEW s \in SUBSET DOMAIN rows, s # {}
  PROVE  /\ RankedLast(s) \in s
         /\ \A j \in s \ {RankedLast(s)} : /\ RankedBefore(j, RankedLast(s))
                                         /\ ~RankedBefore(RankedLast(s), j)
<1> DEFINE R == {p \in s \X s : RankedBefore(p[2], p[1])}
<1>1. \A i \in s : Maximum(rows[i].harm) \in Int /\ i \in Int
  BY CandidateFacts
<1>2. \A x, y \in s : <<x, y>> \in R <=> RankedBefore(y, x)
  OBVIOUS
<1> HIDE DEF R
<1>3. /\ \A x, y \in s : x # y => RankedBefore(x, y) \/ RankedBefore(y, x)
      /\ \A x, y \in s : RankedBefore(x, y) => ~RankedBefore(y, x)
      /\ \A x, y, z \in s : RankedBefore(x, y) /\ RankedBefore(y, z) => RankedBefore(x, z)
  <2> DEFINE m(i) == Maximum(rows[i].harm)
  <2>1. \A x, y \in s : RankedBefore(x, y) <=> m(x) > m(y) \/ (m(x) = m(y) /\ x < y)
    BY DEF RankedBefore
  <2>2. \A i \in s : m(i) \in Int /\ i \in Int
    BY <1>1
  <2> HIDE DEF m
  <2> QED BY <2>1, <2>2
<1>4. IsFiniteSet(s)
  BY CandidateFacts, FS_Subset
<1>5. \E m \in s : \A y \in s : y # m => <<m, y>> \in R
  BY <1>2, <1>3, <1>4, FirstOfOrder
<1>6. \E m \in s : \A y \in s \ {m} : RankedBefore(y, m)
  BY <1>2, <1>5
<1>7. RankedLast(s) \in s /\ \A y \in s \ {RankedLast(s)} : RankedBefore(y, RankedLast(s))
  BY <1>6 DEF RankedLast
<1> QED BY <1>3, <1>7

\* g says what the baseline has taken of any candidates, the way it folds.
With(acc, i, k, limit) ==
  IF acc.spent + CheckCost(i, k) <= limit
  THEN [spent |-> acc.spent + CheckCost(i, k), rows |-> acc.rows \cup {i}]
  ELSE acc

Taken(g, s, k, limit) ==
  IF s = {} THEN [spent |-> 0, rows |-> {}]
  ELSE With(g[s \ {RankedLast(s)}], RankedLast(s), k, limit)

Takes(g, k, limit) == g = [s \in SUBSET DOMAIN rows |-> Taken(g, s, k, limit)]

LEMMA FixedRateTakes ==
  ASSUME NEW k, NEW limit
  PROVE  FixedRate(k, limit) = (CHOOSE g : Takes(g, k, limit))[DOMAIN rows]
  BY DEF FixedRate, MapThenFoldSet, Takes, Taken, With

\* There is such a g: on the sets of at most n candidates, for every n.
LEMMA TakesExists ==
  ASSUME RowsInv, rowsServed \in Nat, NEW k, NEW limit
  PROVE  \E g : Takes(g, k, limit)
<1> DEFINE S == DOMAIN rows
           D(n) == {s \in SUBSET S : Cardinality(s) <= n}
           body(g, s) == Taken(g, s, k, limit)
           Upto(g, n) == g = [s \in D(n) |-> body(g, s)]
           P == {n \in Nat : n <= Cardinality(S) => \E g : Upto(g, n)}
<1>0. IsFiniteSet(S)
  BY CandidateFacts
<1>1. \A s \in SUBSET S : IsFiniteSet(s) /\ Cardinality(s) \in Nat /\ Cardinality(s) <= Cardinality(S)
  <2> HIDE DEF S
  <2> QED BY <1>0, FS_Subset, FS_CardinalityType
<1>2. Cardinality(S) \in Nat
  BY <1>0, FS_CardinalityType
<1>3. \A s \in SUBSET S : s # {} => /\ RankedLast(s) \in s
                                    /\ Cardinality(s \ {RankedLast(s)}) = Cardinality(s) - 1
  BY <1>1, FS_RemoveElement, RankedLastIs
<1>4. \A s \in SUBSET S : Cardinality(s) = 0 <=> s = {}
  BY <1>1, FS_EmptySet
<1> HIDE DEF S
<1>5. 0 \in P
  <2> DEFINE g == [s \in D(0) |-> [spent |-> 0, rows |-> {}]]
  <2>1. Upto(g, 0)
    BY <1>1, <1>4 DEF Taken
  <2> HIDE DEF g, Upto
  <2> QED BY <2>1
<1>6. ASSUME NEW n \in Nat, n + 1 <= Cardinality(S), NEW g, Upto(g, n)
      PROVE  n + 1 \in P
  <2> DEFINE h == [s \in D(n + 1) |-> body(g, s)]
  <2>1. \A s \in D(n) : s \in D(n + 1)
    BY <1>1
  <2>2. \A s \in D(n) : h[s] = g[s]
    <3>1. \A s \in D(n) : g[s] = body(g, s)
      <4> HIDE DEF body, D
      <4> QED BY <1>6
    <3> HIDE DEF body, D
    <3> QED BY <2>1, <3>1
  <2>3. \A s \in D(n + 1) : s # {} => s \ {RankedLast(s)} \in D(n)
    BY <1>1, <1>3
  <2>4. \A s \in D(n + 1) : body(g, s) = body(h, s)
    <3> HIDE DEF h, D
    <3> QED BY <2>2, <2>3 DEF Taken
  <2>5. Upto(h, n + 1)
    <3> HIDE DEF body, D
    <3> QED BY <2>4
  <2> HIDE DEF Upto, h
  <2> QED BY <2>5
<1>7. Nat \subseteq P
  <2>1. ASSUME NEW n \in Nat, n \in P PROVE n + 1 \in P
    <3> SUFFICES ASSUME n + 1 <= Cardinality(S) PROVE n + 1 \in P
      <4> HIDE DEF Upto
      <4> QED OBVIOUS
    <3>1. n <= Cardinality(S)
      BY <1>2
    <3>2. PICK g : Upto(g, n)
      <4> HIDE DEF Upto
      <4> QED BY <2>1, <3>1
    <3> HIDE DEF P
    <3> QED BY <1>6, <3>2
  <2> HIDE DEF P
  <2> QED BY <1>5, <2>1, UpwardInduction
<1>8. PICK g : Upto(g, Cardinality(S))
  <2> HIDE DEF Upto
  <2> QED BY <1>2, <1>7
<1>9. D(Cardinality(S)) = SUBSET S
  BY <1>1
<1>10. Takes(g, k, limit)
  <2> HIDE DEF D
  <2> QED BY <1>8, <1>9 DEF Takes, S
<1> QED BY <1>10

\* A run of the baseline over the candidates in s that fits the limit and left
\* out only what did not fit.
Earlier(rs, j) == {i \in rs : RankedBefore(i, j)}
FairRun(run, s, k, limit) ==
  /\ run.rows \subseteq s /\ run.spent = SumOf(CostOf(k), run.rows)
  /\ run.spent <= limit
  /\ \A j \in s \ run.rows :
       SumOf(CostOf(k), Earlier(run.rows, j)) + CheckCost(j, k) > limit

\* Of no candidates nothing is taken, and the last one keeps a run fair.
LEMMA OneMoreCandidate ==
  ASSUME RowsInv, rowsServed \in Nat, NEW k \in BaselineTiers, NEW limit \in Nat,
         NEW s \in SUBSET DOMAIN rows, s # {},
         NEW acc, FairRun(acc, s \ {RankedLast(s)}, k, limit)
  PROVE  FairRun(With(acc, RankedLast(s), k, limit), s, k, limit)
<1> DEFINE x == RankedLast(s)
           v == CostOf(k)
<1>1. x \in s /\ \A j \in s \ {x} : RankedBefore(j, x) /\ ~RankedBefore(x, j)
  BY RankedLastIs
<1>2. IsFiniteSet(acc.rows) /\ \A i \in DOMAIN rows : v[i] \in Int
  BY CandidateFacts, FS_Subset DEF FairRun
<1>3. CheckCost(x, k) = v[x] /\ v[x] \in Int
  BY <1>1, <1>2 DEF CostOf
<1> HIDE DEF x, v
<1>4. /\ acc.rows \subseteq s \ {x} /\ acc.spent = SumOf(v, acc.rows) /\ acc.spent <= limit
      /\ \A j \in (s \ {x}) \ acc.rows :
           SumOf(v, Earlier(acc.rows, j)) + CheckCost(j, k) > limit
  BY DEF FairRun, x, v
<1>5. /\ SumOf(v, acc.rows \cup {x}) = v[x] + SumOf(v, acc.rows)
      /\ SumOf(v, acc.rows) \in Int
  <2>1. x \notin acc.rows /\ \A i \in acc.rows \cup {x} : v[i] \in Int
    BY <1>1, <1>2, <1>4
  <2> QED BY <1>2, <2>1, SumOfMore
<1>6. CASE acc.spent + CheckCost(x, k) <= limit
  <2> DEFINE run == [spent |-> acc.spent + CheckCost(x, k), rows |-> acc.rows \cup {x}]
  <2>1. With(acc, x, k, limit) = run
    BY <1>6 DEF With
  <2>2. \A j \in s \ run.rows : Earlier(run.rows, j) = Earlier(acc.rows, j)
    BY <1>1 DEF Earlier
  <2>3. run.rows \subseteq s /\ run.spent = SumOf(v, run.rows) /\ run.spent <= limit
    BY <1>1, <1>3, <1>4, <1>5, <1>6
  <2>4. FairRun(run, s, k, limit)
    BY <1>4, <2>2, <2>3 DEF FairRun, v
  <2> QED BY <2>1, <2>4 DEF x
<1>7. CASE ~(acc.spent + CheckCost(x, k) <= limit)
  <2>1. With(acc, x, k, limit) = acc
    BY <1>7 DEF With
  <2>2. Earlier(acc.rows, x) = acc.rows
    BY <1>1, <1>4 DEF Earlier
  <2>3. SumOf(v, Earlier(acc.rows, x)) + CheckCost(x, k) > limit
    BY <1>3, <1>4, <1>5, <1>7, <2>2
  <2>4. FairRun(acc, s, k, limit)
    BY <1>4, <2>3 DEF FairRun, v
  <2> QED BY <2>1, <2>4 DEF x
<1> QED BY <1>6, <1>7

LEMMA FixedRateIsFair ==
  ASSUME RowsInv, rowsServed \in Nat, NEW k \in BaselineTiers, NEW limit \in Nat
  PROVE  FairRun(FixedRate(k, limit), DOMAIN rows, k, limit)
<1> DEFINE g == CHOOSE f : Takes(f, k, limit)
           P == {s \in SUBSET DOMAIN rows : FairRun(g[s], s, k, limit)}
<1>1. Takes(g, k, limit)
  BY TakesExists
<1>2. FixedRate(k, limit) = g[DOMAIN rows]
  BY FixedRateTakes
<1> HIDE DEF g
<1>3. \A s \in SUBSET DOMAIN rows : g[s] = Taken(g, s, k, limit)
  BY <1>1 DEF Takes
<1>4. ASSUME NEW s \in SUBSET DOMAIN rows, \A u \in SUBSET s : u # s => u \in P
      PROVE  s \in P
  <2>1. CASE s = {}
    <3>1. g[s] = [spent |-> 0, rows |-> {}]
      BY <1>3, <2>1 DEF Taken
    <3> QED BY <2>1, <3>1, SumOfNone DEF FairRun
  <2>2. CASE s # {}
    <3> DEFINE u == s \ {RankedLast(s)}
    <3>1. u \in P
      BY <1>4, <2>2, RankedLastIs
    <3>2. FairRun(g[u], u, k, limit)
      BY <3>1
    <3>3. g[s] = With(g[u], RankedLast(s), k, limit)
      BY <1>3, <2>2 DEF Taken
    <3>4. FairRun(g[s], s, k, limit)
      BY <2>2, <3>2, <3>3, OneMoreCandidate
    <3> QED BY <3>4
  <2> QED BY <2>1, <2>2
<1>5. SUBSET DOMAIN rows \subseteq P
  <2> HIDE DEF P
  <2> QED BY <1>4, CandidateFacts, SubsetInduction
<1> QED BY <1>2, <1>5

\* baselines.py: for any rows and scores, ties included, and any costs, the
\* baseline spends at most what the allocator did at every tier, and a row it
\* leaves unchecked did not fit after the checked rows that rank before it.
THEOREM BaselineIsMatched == Spec => []BaselineAtMatchedSpend
<1>1. WindowInv => BaselineAtMatchedSpend
  <2> SUFFICES ASSUME WindowInv, NEW k \in BaselineTiers
               PROVE  LET run == FixedRate(k, committed)
                          before(j) == {i \in run.rows : RankedBefore(i, j)}
                          cost(is) == MapThenSumSet(LAMBDA i : CheckCost(i, k), is)
                      IN  /\ cost(run.rows) <= committed
                          /\ \A j \in DOMAIN rows \ run.rows :
                               cost(before(j)) + CheckCost(j, k) > committed
    BY DEF BaselineAtMatchedSpend
  <2> DEFINE run == FixedRate(k, committed)
             cost(is) == MapThenSumSet(LAMBDA i : CheckCost(i, k), is)
  <2>1. FairRun(run, DOMAIN rows, k, committed)
    BY FixedRateIsFair DEF WindowInv, BudgetTypeOK
  <2>2. \A is \in SUBSET DOMAIN rows : cost(is) = SumOf(CostOf(k), is)
    BY CostIsSum
  <2> HIDE DEF run, cost
  <2>3. run.rows \in SUBSET DOMAIN rows /\ cost(run.rows) <= committed
    BY <2>1, <2>2 DEF FairRun
  <2>4. \A j : Earlier(run.rows, j) \in SUBSET DOMAIN rows
    BY <2>3 DEF Earlier
  <2>5. \A j \in DOMAIN rows \ run.rows :
          cost({i \in run.rows : RankedBefore(i, j)}) + CheckCost(j, k) > committed
    BY <2>1, <2>2, <2>4 DEF FairRun, Earlier
  <2> QED BY <2>3, <2>5 DEF run, cost
<1> QED BY <1>1, WindowInvInit, WindowInvStep, PTL DEF Spec
=============================================================================
