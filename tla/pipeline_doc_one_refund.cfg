\* A statement of the documents the code does not satisfy.
CONSTANTS
  t1 = t1
  t2 = t2
  Sessions = {t1, t2}
  QueuedSessions = {}
  Requests = {"q1", "q2"}
  Customers = {"c1"}
  Orders = {"o1"}
  Amounts = {10, 12, 14}
  Tolerance = 2
  RoundedDown = {{10, 12}}
  StepIds = {"S1", "S2", "S3"}
  Plans <- PlannerPlans
  Faults = {}
  MaxRuns = 1
SPECIFICATION Spec
INVARIANTS OneRefundPerOrder
