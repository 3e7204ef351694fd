CONSTANTS
  Users = {seller, manager}
  Managers = {manager}
  Calls = {c1, c2}
  RetryKeys = {k1}
  LegacyKeys = {k1}
  Drafts = {x, y}
  Addressed = {y}
  MaxDraftVersion = 3
  MaxAudit = 3
  Severities = {50, 90}
  Points = {0, 100}
  Watched = {"commercial_momentum"}
  Settled = 75
  Domains = {"financial/legal", "operations/site"}
  MaxEvents = 2
  Quotes = {1}
  Units = {1, 2}
  Orders = {1}
  Briefs = {1}
  RiskEvents = {1}
  FollowUpDays = 1
  StaleQuoteDays = 3
  Window = 2
  SavedDays = 3
  Bases = {640}
  Scores = {40, 75}
  PartialCeiling = 90
  MaxToday = 3
  Facts <- RouteFacts
  Templates <- RouteTemplates
  Start = "account a"
  Targets = {"account b"}
  Guarded = {"facility f", "facility g"}
  MaxDepth = 4
  MaxExpansions = 16
  MaxCandidates = 2
  Notices = {1}
  NoticeContents <- FederalContents
  AwardSets <- FederalAwards
  Environments <- FederalEnvironments
  Partners <- FederalPartners
  Projections = {p1, p2}
  Targeting = TRUE
  Soon = 0
  TodayLimit = 5
  MaxFederalDay = 1
  MaxChanges = 2
  MaxAssessments = 2
  Callers = {t1, t2}
  Kinds = {"account", "route"}
  Findings <- GovernedFindings
  Replies <- GovernedReplies
  Mentions = {"m1", "m2"}
  MentionOf <- GovernedMentions
  Generated = {"account a"}
  Reviewed = {"bracket"}
  DraftEvidence = {1, 2}
  PublicEvidence = {1, 2}
  MaxEvidence = 2
  MaxComponents = 2
  CooldownOf <- GovernedCooldowns
  MaxAskings = 2
  MaxFound = 1
  MaxGovernedTime = 2
  Organizations = {"a", "b"}
  Ledgers = {"a"}
  OmniQuestions <- AnswerQuestions
  Faults = {"none", "execution", "promises", "drops_action"}
  MaxReads = 2
  Statuses = {"TIMEOUT"}
  MaxRevision = 2
SPECIFICATION Spec
INVARIANTS
  ReviewedAsItStands
  CreatedOnce
  SearchIsHonest
  FederalPagesAgree
  AnswersAreGoverned
  
PROPERTIES
  RiskIsHonest
  TimeOnlyAges
CHECK_DEADLOCK FALSE
