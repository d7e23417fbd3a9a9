SPECIFICATION Spec
CONSTANTS
  Request = {r1, r2, r3, r4, r5}
  Discretionary = Discretionary
  Mandatory = Mandatory
  NoLane = NoLane
  Concurrency <- MCConcurrency
  QueueCapacity <- MCQueueCapacity
  Burst <- MCBurst
INVARIANT LaneAccounts
INVARIANT NoLostWakeup
SYMMETRY AnyRequest
CHECK_DEADLOCK FALSE
