CONSTANTS
  Collectors = {worker, endpoint}
  Sources = {s1, s2}
  SourceKeys = {k1}
  Irrelevant = {2}
  MaxContent = 2
SPECIFICATION CollectionSpec
PROPERTIES
  ClusterKeepsObservations
CHECK_DEADLOCK FALSE
