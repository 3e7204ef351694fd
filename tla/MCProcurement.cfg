CONSTANTS
  Collectors = {worker, endpoint}
  NQueries = 2
  Records = {n1, n2}
  Matches <- MCMatches
  PageSize = 1
  Budget = 1
  Lookback = 1
  Overlap = 1
  Refused = {}
  Silent = {}
  MaxDay = 1
  Shared = {}
  None = None
SYMMETRY Symmetry
SPECIFICATION Spec
INVARIANTS
  NothingSkipped
