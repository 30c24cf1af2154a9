\* Three receipts, altered and restored in between.
CONSTANT MaxAppends = 3
SPECIFICATION Spec
INVARIANTS UnalteredVerifies
\* The ledger is passive: nobody need call it again.
CHECK_DEADLOCK FALSE
