SPECIFICATION Spec
CONSTANTS
  Hallucination = Hallucination
  Unsafe = Unsafe
  Axis = {Hallucination, Unsafe}
  Read = Read
  Financial = Financial
  NoEffect = NoEffect
  Effect = {}
  HumanReview = {}
  Consequence <- MCConsequence
  CatchRate <- MCCatchRate
  Cost <- MCCost
  Watched = t1
  Turn = {t1, t2, t3}
  Session = {s1}
  NoSession = NoSession
  Calls <- LightCalls
  Judgement <- AllJudgements
  JudgeFails = FALSE
  UnavailableScore = 100
  Calibration <- MCCalibration
  Threshold = 40
  RiskUnit = 100
  Overlapping = TRUE
INVARIANT EarlierTurnsCount
CHECK_DEADLOCK FALSE
