SPECIFICATION MCSpec
CONSTANTS
  Hallucination = Hallucination
  Unsafe = Unsafe
  Axis = {Hallucination, Unsafe}
  Financial = Financial
  NoEffect = NoEffect
  Effect = {Financial}
  HumanReview = {Financial}
  Consequence <- MCConsequence
  CatchRate <- MCCatchRate
  Cost <- MCCost
  BudgetInr = 660
  RowsExpected = 5
  FloorRate = 16
  LearningRate = 35
  Scale = 60
  Spends = {0, 2, 18, 320, 640}
  SpendMax = 640
  FloorMax = 18
  MinutesPerCase = 25
  CapacityPerHour = 120
  CostPerCase = 120
  Hours = 1
  Strategies = {"deadline_density", "deadline", "density", "fifo", "random"}
  Spacing = 2
  StableUniform <- MCDraw
  RowKind <- MCRows
  Threshold <- MCThreshold
  SlaMinutes <- MCSla
  RowsPerHour = 5
  ReviewerCorrect <- MCCorrect
  AuditDraw <- MCAuditDraw
  CatchDraw <- MCCatchDraw
  AuditUnchecked = 40
  AuditChecked = 4
  ScoreRange = {0, 1, 3}
  Weights = {1, 2}
  MaxRows = 4
  Alpha <- MCAlpha
  Delta <- MCDelta
  GridSize = 5
  Bits = 5
  One = 256
  Benefits <- MCBenefits
  Costs <- MCCosts
  Prices <- MCPrices
INVARIANT BudgetHeld
INVARIANT PriceIsWorstStretch
INVARIANT DeskIsStaffed
INVARIANT RuleServesAsMany
INVARIANT BaselineAtMatchedSpend
INVARIANT LossIsAccounted
INVARIANT PricedOutUpToRounding
INVARIANT FitIsIsotonic
INVARIANT CalibrationKeepsRanking
INVARIANT MetricsAgree
PROPERTY LabelsMoveThreshold
PROPERTY HoldsBudget
PROPERTY DeskDrains
CHECK_DEADLOCK FALSE
