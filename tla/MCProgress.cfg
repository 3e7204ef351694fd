CONSTANTS
  Results <- MCResults
  Outcomes = {}
  Tools <- MCTools
  Leases = {2}
  MaxAttempts = 3
  MaxSteps = 12
  Skew = 1
  Minute = 1
  MaxClock = 4
  None = None
  w1 = w1
  w2 = w2
  Workers = {w1, w2}
  MaxTools = 2
  Windows = {1}
  Margin = 1
  Timeout = 1
  Delay = 0
  Offset <- MCOffset
  Prompt = {}
  Collectors = {worker1}
  Records = {n1, n2}
SPECIFICATION ProgressSpec
INVARIANTS
  AttemptsShareTheJournal
  CompleteOnEvidence
PROPERTIES
  InvestigationReturns
  RefusedQueryStarvesNobody
CHECK_DEADLOCK FALSE
