CONSTANTS
  Collectors = {worker}
  NQueries = 2
  Records = {n1, n2}
  Matches <- MCMatches
  PageSize = 1
  Budget = 2
  Lookback = 1
  Overlap = 1
  Refused = {}
  Silent = {1}
  MaxDay = 1
  Shared = {n1, n2}
  None = None
SPECIFICATION SilentSpec
PROPERTIES
  UnansweredQueryStarvesNobody
