\* Four calls of append, with receipts altered and restored in between.
CONSTANT MaxAppends = 4
SPECIFICATION Spec
INVARIANTS AlteredNeverVerifies LatestVerifies AuditFindsAlteration RootIsTreeRoot
\* The ledger is passive: nobody need call it again.
CHECK_DEADLOCK FALSE
