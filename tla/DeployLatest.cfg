SPECIFICATION Spec
CONSTANTS
  d1 = d1
  d2 = d2
  d3 = d3
  Delivery = {d1, d2, d3}
  Expiring = {d3}
  LatestArrival = TRUE
  MaxQueue = 1
  MaxStamp = 4
  None = None
CHECK_DEADLOCK FALSE
SYMMETRY Alike
PROPERTIES
  SupersededStaysOut
  KeepsSchedule
