SPECIFICATION FairSpec
CONSTANTS
  j1 = j1
  w1 = w1
  w2 = w2
  Jobs = {j1}
  Workers = {w1, w2}
  MaxAttempts = 2
  MaxRequeues = 1
  MaxLost = 1
  NoJob = NoJob
  Nobody = Nobody
INVARIANTS
  SentOnce
  AcceptedWasSent
PROPERTIES
  KeepsPromise
  EventuallyDecided
  ReceiptEventuallyApplied
