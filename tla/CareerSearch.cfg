SPECIFICATION FairSpec
CONSTANTS
  s1 = s1
  s2 = s2
  e1 = e1
  w1 = w1
  w2 = w2
  Searches = {s1}
  Extractions = {e1}
  Workers = {w1, w2}
  ActiveLimit = 1
  NoJob = NoJob
INVARIANTS
  DigestIsTrue
PROPERTIES
  KeepsPromise
  EventuallyDone
