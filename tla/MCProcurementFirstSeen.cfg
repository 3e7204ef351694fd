CONSTANTS
  Collectors = {worker}
  NQueries = 1
  Records = {n1}
  Matches <- MCMatches
  PageSize = 1
  Budget = 2
  Lookback = 1
  Overlap = 1
  Refused = {}
  Silent = {}
  MaxDay = 1
  Shared = {n1}
  None = None
SPECIFICATION Spec
PROPERTIES
  FirstSeenIsPreserved
