------------------------- MODULE MCEvidenceDelivery ------------------------
(* A small instance of EvidenceDelivery: plan files with the refund alone, *)
(* of either of two amounts of the same request.                           *)
EXTENDS EvidenceDelivery, TLC

\* The sample plans need no Plans of their own.
Sample == INSTANCE EvidencePipeline WITH Plans <- {}
Planned(amount) ==
  Sample!RefundPlan([request |-> "q1", customer |-> "c1", order |-> "o1",
                     amount |-> amount])
RefundOnly == {[Planned(a) EXCEPT !.steps = <<@[2]>>] : a \in {10, 14}}

\* A thread may run any manager's sync.
Interchangeable == Permutations(Workers)

\* Two states are the same that differ only in what no step and no property of
\* the run reads: the ledger, a refund's status, the two ways not to be ONLINE,
\* by how much a count is above zero (no retry is left after the first failure),
\* and the manager and the answer of a thread's call that is over.
InUse ==
  <<eligibility, {[row EXCEPT !.status = "any"] : row \in refunds}, outbox, queue, seen,
    runs, pc, plan, index, states, completed, evidence, trace, verdict, outcome, final,
    status, created, {i \in Items : retryCount[i] > 0}, {i \in Items : delivered[i] > 0},
    {m \in Managers : online[m] = "ONLINE"}, lock, threadPc, batch, failed, mishaps,
    [w \in Workers |-> IF threadPc[w] = "idle" THEN "none" ELSE manager[w]],
    claim, reported>>
=============================================================================
