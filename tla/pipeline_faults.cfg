\* Every fault, planned and foreign plans, one after the other.
CONSTANTS
  cli = cli
  tab = tab
  Sessions = {cli}
  QueuedSessions = {cli}
  Requests = {"q1", "q2"}
  Customers = {"c1"}
  Orders = {"o1"}
  Amounts = {10, 12, 14}
  Tolerance = 2
  RoundedDown = {{10, 12}}
  StepIds = {"S1", "S2", "S3"}
  Plans <- MixedPlans
  Faults = {"ghost", "tool", "checker", "enqueue", "crash"}
  MaxRuns = 3
SPECIFICATION FairSpec
INVARIANTS TypeOK CompleteIsEvidenced ReportIsHonest
PROPERTIES EveryRunEnds
