SPECIFICATION FairSpec
CONSTANTS
  f1 = f1
  f2 = f2
  d1 = d1
  d2 = d2
  r1 = r1
  r2 = r2
  resolved = resolved
  Feedbacks = {f1}
  Dispatchers = {d1, d2}
  Readers = {r1, r2}
  Open = Open
  Statuses = {Open, resolved}
  MaxVersion = 3
  NoFeedback = NoFeedback
INVARIANTS
  FactsAreHistory
PROPERTIES
  KeepsPromise
  ThereAndBack
