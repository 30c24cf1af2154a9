--------------------------- MODULE MCOfflineSync ---------------------------
(* Small instances of OfflineSync: a receipt, an LLM request.              *)
EXTENDS OfflineSync

ItemPriority == [i \in Items |-> IF i = "evd" THEN 10 ELSE 5]

\* Each item has a caller of its own.
OwnWriter == [i \in Items |-> i]
=============================================================================
