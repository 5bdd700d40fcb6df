SPECIFICATION FairSpec
CONSTANTS
  o1 = o1
  o2 = o2
  e1 = e1
  e2 = e2
  w1 = w1
  w2 = w2
  Orders = {o1, o2}
  Externals = {e1, e2}
  External <- OneExternal
  Workers = {w1, w2}
  NoOrder = NoOrder
  NoLease = NoLease
INVARIANTS
  OneTimelyDispatcher
  FailedOnlyIfTaken
PROPERTIES
  PaymentsEnvironment
  EventuallyDelivered
  PaidEventuallyBound
