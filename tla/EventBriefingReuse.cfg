CONSTANTS
  Workers = {w1}
  None = None
  DatedEvents = {FALSE}
  MaxSource = 1
  MaxTime = 1
  MaxCycles = 2
  Cooldown = 1
SPECIFICATION BriefingSpec
INVARIANTS
  UnchangedContentIsReused
