\* Two tabs of the dashboard racing on one request.
CONSTANTS
  t1 = t1
  t2 = t2
  Sessions = {t1, t2}
  QueuedSessions = {}
  Requests = {"q1"}
  Customers = {"c1"}
  Orders = {"o1"}
  Amounts = {10, 12, 14}
  Tolerance = 2
  RoundedDown = {{10, 12}}
  StepIds = {"S1", "S2", "S3"}
  Plans <- RacingPlans
  Faults = {"ghost", "tool", "crash"}
  MaxRuns = 2
SPECIFICATION Spec
SYMMETRY Tabs
INVARIANTS NoFalseClaim NothingAfterMismatch EmailOnlyAfterRefund NoFalseReject
PROPERTIES ImplementsGate
