CONSTANTS
  Calls = {c1, c2, c3}
  Actors = {seller, monitor}
  NoCall = NoCall
  DailyCalls = 2
  DailyActorCalls = 1
  Leases = 2
  ActorLeases = 1
  DayLength = 3
  Timeout = 2
  Margin = 2
  Skew = 1
  MaxBudgetClock = 6
  Requests = {r1, r2, r3}
  Absent = Absent
  Retention = 2
  MaxConversationClock = 3
  Clicks = {i1, i2, i3, i4}
  CreateKeys = {k1, k2}
  Texts = {v1, v2}
  MemoryLimit = 2
  ReceiptLimit = 2
  Ttl = 1
  MaxDay = 1
  Steps = 3
  Accounts = {a1, a2}
  Ledgers = {a1}
  FacilityAccount = a1
  ActionAccount = a2
  Questions <- Phrases
  MaxAssessment = 2
  Workers = {w1, w2}
  None = None
  DatedEvents = {TRUE, FALSE}
  MaxSource = 2
  MaxTime = 1
  MaxCycles = 2
  Cooldown = 1
  Writers = {t1, t2, t3}
  Revisions = {h1, h2}
  NoContent = NoContent
  MaxRowVersion = 4
  Collectors = {process}
  Sources = {s1}
  SourceKeys = {k1}
  Irrelevant = {2}
  MaxContent = 3
  Suggestions = {s1}
  Forms = {f1, f2, f3}
  Keys = {k1, k2}
  Legacy = {s1}
  FeedbackLimit = 2
  MaxEvidence = 1
  MaxHour = 2
  Refreshes = {m1, m2}
  Series = {ipi, caputil}
  Contents = {v1, v2}
  SuccessWait = 2
  FailureWait = 1
  MaxMarketHour = 4
  Processes = {p1, p2}
  Names = {"acme inc", "acme", "alias"}
  CompanyOf <- Company
  Aliased = {"alias"}
  Programs = {"x"}
  MaxSightings = 2
SPECIFICATION Spec
INVARIANTS
  DailyBudget
  InFlightBudget
  NothingIsResurrected
  CostIsBounded
  ContinuationIsCurrent
  ProseIsAboutItsRevision
  ProviderIsAskedSparingly
  DecisionIsCurrent
  OneCurrentVersion
  SaidOnceInOrder
  CurrentIsNewest
  CatalogIsTraceable
PROPERTIES
  TurnsAreKept
  ClusterKeepsObservations
CHECK_DEADLOCK FALSE
