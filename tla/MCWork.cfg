CONSTANTS
  Users = {seller, manager}
  Managers = {manager}
  Requests = {q1, q2}
  Children = {c1}
  Keys = {k1}
  NoOne = NoOne
  NoKey = NoKey
  MaxVersion = 4
  ProposalVersions = 2
  Calls = {p1, p2}
  Contexts = {mapped, unmapped}
  Mapped = {mapped}
  RetryKeys = {x1, x2}
  Nothing = Nothing
  MaxProposals = 2
  MaxRuns = 2
  MaxDecisions = 2
SYMMETRY Symmetry
SPECIFICATION WorkSpec
INVARIANTS
  CompletedWorkIsSettled
  SeparationOfDuties
  SubtaskChangesApplyOnce
PROPERTIES
  CancelRestores
  RunsAsApproved
