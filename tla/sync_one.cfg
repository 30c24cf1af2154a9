\* One manager, two threads of it, every fault.
CONSTANTS
  main = main
  other = other
  w1 = w1
  w2 = w2
  Items = {"evd", "llm"}
  Priority <- ItemPriority
  Writer <- OwnWriter
  Unsupported = {}
  Managers = {main}
  Forced = {}
  NoClient = {}
  Workers = {w1, w2}
  Limit = 2
  Faults = {"upload", "answer", "queue", "crash"}
  MaxRetries = 1
  MaxMishaps = 1
SPECIFICATION FairSpec
INVARIANTS TypeOK OnlyDeliveredLeaves DuplicatesAreAccounted
PROPERTIES SyncedIsFinal LockIsReleased ReconnectFlushes
