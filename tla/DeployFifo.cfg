SPECIFICATION FairSpec
CONSTANTS
  d1 = d1
  d2 = d2
  d3 = d3
  Delivery = {d1, d2, d3}
  Expiring = {d3}
  LatestArrival = FALSE
  MaxQueue = 1
  MaxStamp = 3
  None = None
CHECK_DEADLOCK FALSE
INVARIANTS
  QueueBounded
  DeployedOnce
  StatusTrue
PROPERTIES
  KeepsSchedule
  EventuallyAttempted
