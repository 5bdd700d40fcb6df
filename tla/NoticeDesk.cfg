SPECIFICATION FairSpec
CONSTANTS
  n1 = n1
  k1 = k1
  k2 = k2
  w1 = w1
  w2 = w2
  w3 = w3
  Notices = {n1}
  Keys = {k1, k2}
  Workers = {w1, w2, w3}
  MaxAttempts = 3
  NoNotice = NoNotice
CHECK_DEADLOCK FALSE
INVARIANTS
  DistributionIsTrue
  HistoryIsTrue
PROPERTIES
  KeepsPromise
  EventuallyDecided
