\* Two tabs, one email, two codes, no fault: each tab asks for one.
CONSTANTS
  t1 = t1
  t2 = t2
  e1 = e1
  Tabs = {t1, t2}
  Emails = {e1}
  MaxAttempts = 2
  MaxCodes = 2
  Faults = {}
SPECIFICATION Spec
SYMMETRY Interchangeable
INVARIANT SingleUse
