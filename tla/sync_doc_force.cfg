\* The Force sync button of the dashboard.
CONSTANTS
  main = main
  other = other
  w1 = w1
  w2 = w2
  Items = {"evd", "llm"}
  Priority <- ItemPriority
  Writer <- OwnWriter
  Unsupported = {}
  Managers = {main, other}
  Forced = {other}
  NoClient = {}
  Workers = {w1, w2}
  Limit = 2
  Faults = {}
  MaxRetries = 0
  MaxMishaps = 0
SPECIFICATION Spec
INVARIANTS ForceSyncCompletes
