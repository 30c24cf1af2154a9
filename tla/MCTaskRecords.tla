--------------------------- MODULE MCTaskRecords ---------------------------
(* A small instance of TaskRecords: the tabs of one user; refunds of one   *)
(* tick and of two, and a slow one, offline, that is refused at its second *)
(* step.                                                                   *)
EXTENDS TaskRecords, TLC

Complete(t, off) ==
  [time |-> t, receipts |-> 3, verified |-> 3, complete |-> TRUE, offline |-> off]
Refused(k, t, off) ==
  [time |-> t, receipts |-> k, verified |-> k - 1, complete |-> FALSE, offline |-> off]

DashboardResults ==
  {Complete(1, FALSE), Complete(2, TRUE), Refused(2, 9, TRUE)}
OneUser == [s \in Sessions |-> "ann"]
Tabs == Permutations(Sessions)
=============================================================================
