CONSTANTS
  crash = crash
  c1 = c1
  e1 = e1
  e2 = e2
  Games = {crash}
  Lifetime = 1
  Ttl = 1
  Evaluations = {e1, e2}
  Raises = {0, 1}
  RejectAt = 2
  MaxScore = 2
  Calls = {c1}
SPECIFICATION FairSpec
INVARIANTS
  TypeOK
  NoBetAfterReveal
  FailClosed
  BlockedIsRefused
PROPERTIES
  FlagReachesBets
