\* Two tabs, two emails, two codes, two attempts, every fault.
CONSTANTS
  t1 = t1
  t2 = t2
  e1 = e1
  e2 = e2
  Tabs = {t1, t2}
  Emails = {e1, e2}
  MaxAttempts = 2
  MaxCodes = 2
  Faults = {"smtp", "access", "interrupt", "tab"}
SPECIFICATION Spec
SYMMETRY Interchangeable
INVARIANTS TypeOK CodesCloseInTurn ReuseNeedsRace AttemptsAreBounded SignedInIsProven RefusedForAReason
