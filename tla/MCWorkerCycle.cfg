CONSTANTS
  Workers = {w1, w2}
  None = None
  Observed = w1
  MaxSources = 2
  Budget = 5
  MinStart = 2
  AiTimeout = 2
  MaxItems = 1
SPECIFICATION CycleSpec
INVARIANTS
  ZeroIsHonest
  ReportWasExclusive
PROPERTIES
  TimeIsShared
  LockIsKept
