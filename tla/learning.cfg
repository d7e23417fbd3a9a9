SPECIFICATION LearningSpec
CONSTANTS
  Axis <- MCAxis
  Alpha <- MCAlpha
  Delta <- MCDelta
  GridSize = 3
  FittingFold <- MCFittingFold
  ScoreSteps = 2
  MinFitting = 2
  MinSelection = 2
  MaxEce <- MCMaxEce
  EceTolerance <- MCEceTolerance
  AuditUnchecked = 4
  AuditChecked = 2
  WeightUnit = 6
  Chains <- MCChains
  Corpus <- MCCorpus
  MaxDetector = 2
  MaxRuns = 2
INVARIANT ServedIsCertified
PROPERTY WeightsRestorePopulation
PROPERTY LoadsLastRelease
CHECK_DEADLOCK FALSE
