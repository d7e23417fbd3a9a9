SPECIFICATION FairGateway
CONSTANTS
  Request = {json, s1}
  Streaming = {s1}
  Disruptions = {"gone_before_body"}
  Discretionary = Discretionary
  Mandatory = Mandatory
  NoLane = NoLane
  Concurrency <- OneEach
  QueueCapacity <- OneQueue
  Burst <- TokenBurst
PROPERTY EveryLeaseReturns
CHECK_DEADLOCK FALSE
