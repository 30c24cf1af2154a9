------------------------- MODULE EvidenceDelivery --------------------------
(***************************************************************************)
(* From the verifier to the cloud: EvidencePipeline and OfflineSync on one *)
(* queue file.  A session makes the queue item of the receipt it is about  *)
(* to record; the pipeline step that puts the receipt into the queue is    *)
(* the store's enqueue of that item; every other step of either component  *)
(* leaves the other one alone.                                             *)
(***************************************************************************)
EXTENDS Integers, Sequences, FiniteSets

CONSTANTS
  \* of EvidencePipeline
  Sessions, QueuedSessions, Requests, Customers, Orders, Amounts, Tolerance,
  RoundedDown, StepIds, Plans, Faults, MaxRuns,
  \* of OfflineSync
  Managers, Forced, NoClient, Workers, Limit, SyncFaults, MaxRetries, MaxMishaps

VARIABLES
  \* of EvidencePipeline
  eligibility, refunds, outbox, queue, ledger, seen, runs, pc, plan, index, states,
  completed, evidence, trace, verdict, outcome, final,
  \* of OfflineSync, whose pc is a thread's
  status, retryCount, created, delivered, online, lock, inProgress, threadPc, manager,
  batch, failed, result, mishaps,
  claim,    \* history: the postcondition a queued receipt is about
  reported  \* history: the verdicts queued sessions have given, never forgotten

pipeline == <<eligibility, refunds, outbox, queue, ledger, seen, runs, pc, plan, index,
              states, completed, evidence, trace, verdict, outcome, final>>
sync == <<status, retryCount, created, delivered, online, lock, inProgress, threadPc,
          manager, batch, failed, result, mishaps>>
vars == <<pipeline, sync, claim, reported>>

\* The items of the store: a session's receipts.
Items ==
  UNION {{<<s, [run |-> n, index |-> i, step |-> p.steps[i].id, result |-> v]>> :
            i \in 1..Len(p.steps), v \in {"VERIFIED", "MISMATCH"}} :
           s \in QueuedSessions, n \in 1..MaxRuns, p \in Plans}

\* enqueue_evidence_receipt's priority.
ReceiptPriority == [i \in Items |-> 10]

\* A session seals one receipt after the other.
ReceiptWriter == [i \in Items |-> i[1]]

\* The components, with what is proved of each.
Pipeline == INSTANCE EvidencePipelineProofs
Sync == INSTANCE OfflineSyncProofs WITH
  Priority <- ReceiptPriority, Writer <- ReceiptWriter, Unsupported <- {},
  Faults <- SyncFaults, pc <- threadPc

\* What the components assume of their constants.
ASSUME PipelineAssumption ==
  /\ QueuedSessions \subseteq Sessions
  /\ Amounts \subseteq Nat /\ Tolerance \in Nat \ {0} /\ MaxRuns \in Nat
  /\ \A pair \in RoundedDown : \E a \in Amounts : pair = {a, a + Tolerance}
  /\ Plans \subseteq [context : Pipeline!Contexts, steps : Seq(Pipeline!Steps)]
  /\ \A p, q \in Plans : p.context.request = q.context.request
                          => p.context.customer = q.context.customer
ASSUME SyncAssumption ==
  /\ Forced \subseteq Managers /\ NoClient \subseteq Managers /\ Sync!None \notin Workers
  /\ Limit \in Nat \ {0} /\ MaxRetries \in Nat /\ MaxMishaps \in Nat

NoClaim == "none"
ClaimOf(s) == Pipeline!Fact(Pipeline!CurrentStep(s), Pipeline!Context(s))

Init ==
  /\ Pipeline!Init /\ Sync!Init
  /\ claim = [i \in Items |-> NoClaim]
  /\ reported = {}

\* ledger.append has sealed a receipt and makes the item it will insert.
MakeStep(s) ==
  /\ pc[s] = "record"
  /\ Sync!MakeItem(<<s, Pipeline!ReceiptOf(s)>>)
  /\ UNCHANGED <<pipeline, claim, reported>>

\* The verdict a caller is given is noted.
NoteVerdicts ==
  reported' = reported \cup
    {[session |-> s, run |-> runs[s], plan |-> plan[s], verdict |-> final'[s]] :
       s \in {t \in QueuedSessions : final'[t] \notin {"NONE", final[t]}}}

\* Mutant of PipelineStep: the store is in memory and dies with the session.
PipelineStepInMemory ==
  /\ Pipeline!Next
  /\ NoteVerdicts
  /\ IF queue' = queue
       THEN /\ status' = [i \in Items |->
                 IF pc'[i[1]] = "idle" /\ final'[i[1]] = "NONE" THEN "absent" ELSE status[i]]
            /\ UNCHANGED <<retryCount, created, delivered, online, lock, inProgress,
                           threadPc, manager, batch, failed, result, mishaps, claim>>
       ELSE \E i \in queue' \ queue :
              /\ Sync!Enqueue(i)
              /\ claim' = [claim EXCEPT ![i] = ClaimOf(i[1])]

\* ledger.append inserts the item of the receipt it has sealed.
PipelineStep ==
  /\ Pipeline!Next
  /\ NoteVerdicts
  /\ IF queue' = queue
       THEN UNCHANGED <<sync, claim>>
       ELSE \E i \in queue' \ queue :
              /\ Sync!Enqueue(i)
              /\ claim' = [claim EXCEPT ![i] = ClaimOf(i[1])]

SyncStep ==
  /\ Sync!Serve
  /\ UNCHANGED <<pipeline, claim, reported>>

Next ==
  \/ PipelineStep
  \/ \E s \in QueuedSessions : MakeStep(s)
  \/ SyncStep

Spec == Init /\ [][Next]_vars

-----------------------------------------------------------------------------
(* Properties.                                                             *)

\* A receipt that is still in the store, or that the cloud has.
OnRecord(i) == status[i] \in {"PENDING", "FAILED"} \/ delivered[i] > 0

\* Each verdict a session has ever given can be told from the store and the
\* cloud alone, when its process and ledger are gone and in every later run: a
\* COMPLETE run has the receipt of each step and no refusal, one the verifier
\* stopped has the receipt that says so, whatever fails, dies, or is done twice
\* on the way (evidence_ledger.py:69-70, sync_manager.py:45-59).
VerdictIsOnRecord ==
  \A r \in reported :
    LET receipt(i, v) == <<r.session, [run |-> r.run, index |-> i,
                                       step |-> r.plan.steps[i].id, result |-> v]>>
        steps == 1..Len(r.plan.steps)
    IN  /\ r.verdict = "COMPLETE" =>
             \A i \in steps : /\ OnRecord(receipt(i, "VERIFIED"))
                              /\ status[receipt(i, "MISMATCH")] = "absent"
        /\ r.verdict \in {"PARTIAL", "ESCALATED"} =>
             \E i \in steps : OnRecord(receipt(i, "MISMATCH"))

\* What the cloud has as VERIFIED is true of the database when it arrives and
\* ever after, however long the receipt was under way (dag_runner.py:46-56,
\* sync_manager.py:49-55).
CloudIsTrue ==
  \A i \in Items : delivered[i] > 0 /\ i[2].result = "VERIFIED" =>
    Pipeline!VerdictOf(claim[i].checker, claim[i]) = "match"

\* A session's receipts reach the cloud in the order of its ledger, although
\* two managers may send them at once and a batch is cut at the limit: one
\* arrives before an earlier one that is in the queue only if an upload of that
\* one was recorded as failed (manager.py:58-66, sync_manager.py:49-55).
DeliveredInOrder ==
  \A i, j \in Items :
    /\ i[1] = j[1] /\ status[i] # "absent" /\ created[i] < created[j]
    /\ delivered[j] > 0
    => delivered[i] > 0 \/ retryCount[i] > 0
=============================================================================
