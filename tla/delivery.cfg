\* Two runs, two managers with a thread each; the one of main.py has no client.
CONSTANTS
  cli = cli
  main = main
  app = app
  w1 = w1
  w2 = w2
  Sessions = {cli}
  QueuedSessions = {cli}
  Requests = {"q1"}
  Customers = {"c1"}
  Orders = {"o1"}
  Amounts = {10, 14}
  Tolerance = 2
  RoundedDown = {}
  StepIds = {"S1", "S2", "S3"}
  Plans <- RefundOnly
  Faults = {"crash"}
  MaxRuns = 2
  Managers = {main, app}
  Forced = {}
  NoClient = {main}
  Workers = {w1, w2}
  Limit = 1
  SyncFaults = {}
  MaxRetries = 0
  MaxMishaps = 0
SPECIFICATION Spec
SYMMETRY Interchangeable
VIEW InUse
INVARIANTS VerdictIsOnRecord CloudIsTrue DeliveredInOrder
