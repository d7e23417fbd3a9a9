SPECIFICATION Spec
CONSTANTS
  Tab = {"patient", "hasty"}
  Patient = {"patient"}
  Linked = {"hasty"}
  LinkAsks = "attack"
  Prompt = {"attack", "vague", "leak"}
  Refused = {"attack"}
  Peak <- MCPeak
  Fitted = 50
  RiskMax = 40
  JudgePrice <- MCJudgePrice
  Ruling <- MCRuling
  Fold <- MCFold
  TierCost <- MCTierCost
  FloorCost = 1
  BudgetRate = 2
  LearningRate = 1
  StartPrice = 1
  MaxAsks = 2
  MaxClears = 1
  MaxTouches = 1
  Worker = {w1, w2}
  MaxSaves = 2
  MaxResolves = 4
  Loader = {p1, p2}
  MaxLoads = 3
  MaxCrashes = 2
  MaxEdits = 1
  MaxCommands = 2
  MaxKills = 1
  MaxViews = 2
INVARIANT ShownWasReleased
INVARIANT RailMatchesTrace
INVARIANT NoOlderThanAsked
INVARIANT ReturnedIsPinned
INVARIANT ConsoleShowsOneRun
INVARIANT LabReachesChain
PROPERTY PatientIsAnswered
CHECK_DEADLOCK FALSE
