CONSTANTS
  sched = sched
  rant = rant
  brand = brand
  Pipelines = {sched}
  DemoPosts = {rant}
  Negative = {rant}
  Scopes <- MCScopes
  Covered <- MCCovered
  Draws <- MCDraws
  Start = 3
  End = 4
  Day = 4
  Spread = 1
  SeedHours = 3
  RuleWindow = 2
  Week = 8
  SpikePct = 40
  SpikeMin = 1
  CriticalPct = 65
  CriticalMin = 2
  Multiplier = 3
  MinRows = 3
  MaxSeeds = 2
SPECIFICATION Spec
INVARIANTS
  TypeOK
  NeverOverstates
  ScopesAgree
  SeededOnce
PROPERTIES
  ComputedStays
  SpikeIsUnusual
