SPECIFICATION Spec
CONSTANTS
  Hallucination = Hallucination
  Unsafe = Unsafe
  Axis = {Hallucination, Unsafe}
  Read = Read
  Financial = Financial
  NoEffect = NoEffect
  Effect = {Read, Financial}
  HumanReview = {Financial}
  Consequence <- MCConsequence
  CatchRate <- MCCatchRate
  Cost <- MCCost
  Watched = t1
  Turn = {t1, t2, t3}
  Session = {s1}
  NoSession = NoSession
  Calls <- MCCalls
  Judgement <- AllJudgements
  JudgeFails = TRUE
  UnavailableScore = 100
  Calibration <- MCCalibration
  Threshold = 40
  RiskUnit = 100
  Overlapping = FALSE
INVARIANT FloorIsChecked
INVARIANT DegradedBuysFloorOnly
INVARIANT EffectsWaitForChecks
INVARIANT PurchaseIsFinal
INVARIANT EarlierTurnsCount
SYMMETRY Others
CHECK_DEADLOCK FALSE
