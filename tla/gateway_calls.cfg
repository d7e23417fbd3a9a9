SPECIFICATION FairGateway
CONSTANTS
  Request = {json, s1}
  Streaming = {s1}
  Disruptions = {"cancel", "gone_before_body", "gone_mid_body"}
  Discretionary = Discretionary
  Mandatory = Mandatory
  NoLane = NoLane
  Concurrency <- OneEach
  QueueCapacity <- OneEach
  Burst <- TokenBurst
INVARIANT LaneBoundsAssessments
PROPERTY ServedLeaseReturns
PROPERTY AttendedSpendReachesController
PROPERTY QueuedIsDecided
CHECK_DEADLOCK FALSE
