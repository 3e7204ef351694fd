CONSTANTS
  Results = {r1, r2}
  Outcomes = {o1}
  Tools = {"fetch_document"}
  Leases = {1}
  MaxAttempts = 3
  MaxSteps = 3
  Skew = 1
  Minute = 1
  MaxClock = 3
  None = None
  prompt = prompt
  late = late
SYMMETRY Symmetry
SPECIFICATION JournalSpec
INVARIANTS
  OneAdmittedCall
  ClosedByItsWorker
  OnTimeWorkIsKept
PROPERTIES
  ImplementsPromise
CHECK_DEADLOCK FALSE
