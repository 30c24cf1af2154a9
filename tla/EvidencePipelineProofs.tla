----------------------- MODULE EvidencePipelineProofs -----------------------
(***************************************************************************)
(* Theorems about EvidencePipeline, for all sessions, plans, faults and    *)
(* bounds, in this order: types; claims that stay true; the evidence of a  *)
(* COMPLETE run and the order of its receipts; the refinement of           *)
(* EvidenceGate; the report; what a planner's plan adds; refusals; and     *)
(* what of a run the offline queue has.                                    *)
(***************************************************************************)
EXTENDS EvidencePipeline, FiniteSetTheorems, TLAPS

\* The step a runner is at is a step of its plan.
LEMMA CurrentStepTyping ==
  ASSUME TypeOK, NEW s \in Sessions, pc[s] # "idle", HasStep(s)
  PROVE  /\ plan[s] \in Plans
         /\ plan[s].steps \in Seq(Steps)
         /\ index[s] \in 1..Len(plan[s].steps)
         /\ Context(s) \in Contexts
         /\ CurrentStep(s) \in Steps
         /\ CurrentStep(s).id \in StepIds /\ CurrentStep(s).key \in Keys
         /\ CurrentStep(s).id \in StepIdsOf(plan[s])
<1>1. plan[s] \in Plans /\ index[s] \in Nat \ {0}
  BY DEF TypeOK
<1>2. plan[s].steps \in Seq(Steps) /\ Context(s) \in Contexts
  BY <1>1, PlanAssumption DEF Context
<1>3. index[s] \in 1..Len(plan[s].steps)
  BY <1>1, <1>2 DEF HasStep
<1>4. CurrentStep(s) \in Steps
  BY <1>2, <1>3 DEF CurrentStep
<1>5. CurrentStep(s).id \in StepIds /\ CurrentStep(s).key \in Keys
  BY <1>4 DEF Steps
<1>. QED
  BY <1>1, <1>2, <1>3, <1>4, <1>5 DEF CurrentStep, StepIdsOf

\* The tools keep the tables well formed.
LEMMA ToolTyping ==
  ASSUME TypeOK, NEW ctx \in Contexts, NEW type, CallTool(type, ctx)
  PROVE  /\ eligibility' \subseteq EligibilityRows
         /\ refunds' \subseteq RefundRows
         /\ outbox' \subseteq Requests
<1>1. CASE CheckEligibility(ctx)
  BY <1>1 DEF CheckEligibility, TypeOK, EligibilityRows, Contexts
<1>2. CASE CreateRefund(ctx)
  BY <1>2 DEF CreateRefund, TypeOK, RefundRows, Contexts
<1>3. CASE QueueEmail(ctx)
  BY <1>3 DEF QueueEmail, TypeOK, Contexts
<1>. QED
  BY <1>1, <1>2, <1>3 DEF CallTool

\* Setting the current step's state keeps the map of states well formed.
LEMMA StateTyping ==
  ASSUME TypeOK, NEW s \in Sessions, pc[s] # "idle", HasStep(s),
         NEW st \in StepStates, SetState(s, st)
  PROVE  /\ DOMAIN states' = Sessions
         /\ \A r \in Sessions : states'[r] \in [StepIdsOf(plan[r]) -> StepStates]
<1>1. states[s] \in [StepIdsOf(plan[s]) -> StepStates] /\ DOMAIN states = Sessions
  BY DEF TypeOK
<1>2. CurrentStep(s).id \in StepIdsOf(plan[s])
  BY CurrentStepTyping
<1>3. [states[s] EXCEPT ![CurrentStep(s).id] = st] \in [StepIdsOf(plan[s]) -> StepStates]
  BY <1>1, <1>2
<1>4. /\ DOMAIN states' = Sessions
      /\ states'[s] = [states[s] EXCEPT ![CurrentStep(s).id] = st]
      /\ \A r \in Sessions \ {s} : states'[r] = states[r]
  BY <1>1 DEF SetState
<1>. QED
  BY <1>3, <1>4 DEF TypeOK

LEMMA ReceiptTyping ==
  ASSUME TypeOK, NEW s \in Sessions, pc[s] = "record"
  PROVE  ReceiptOf(s) \in Receipts
<1>1. CurrentStep(s) \in Steps
  BY CurrentStepTyping DEF TypeOK
<1>. QED
  BY <1>1 DEF ReceiptOf, Receipts, Steps, TypeOK

LEMMA StartTyping ==
  ASSUME TypeOK, NEW s \in Sessions, NEW p \in Plans, NEW fresh \in BOOLEAN,
         StartRun(s, p, fresh)
  PROVE  TypeOK'
<1>. USE DEF StartRun
<1>1. p.steps \in Seq(Steps)
  BY PlanAssumption
<1>2. \A r \in Sessions :
        /\ IF pc'[r] = "idle" THEN plan'[r] = NoPlan ELSE plan'[r] \in Plans
        /\ states'[r] \in [StepIdsOf(plan'[r]) -> StepStates]
        /\ index'[r] <= Len(plan'[r].steps) + 1
        /\ pc'[r] \in {"verify", "record"} => HasStep(r)'
  BY <1>1 DEF TypeOK, StepStates, HasStep
<1>3. runs' \in [Sessions -> 0..MaxRuns]
  BY BoundAssumption DEF TypeOK
<1>4. NoOutcome \in Outcomes
  BY DEF NoOutcome, Outcomes, Statuses, Failures
<1>5. /\ outcome' \in [Sessions -> Outcomes]
      /\ final' \in [Sessions -> Statuses]
      /\ verdict' \in [Sessions -> Verdicts]
      /\ pc' \in [Sessions -> PCs]
  BY <1>4 DEF TypeOK, Statuses, Verdicts, PCs
<1>6. /\ seen' \in [Sessions -> SUBSET Keys]
      /\ trace' \in [Sessions -> SUBSET Fields]
      /\ completed' \in [Sessions -> Seq(StepIds)]
      /\ evidence' \in [Sessions -> Seq(Receipts)]
      /\ plan' \in [Sessions -> Plans \cup {NoPlan}]
      /\ index' \in [Sessions -> Nat \ {0}]
      /\ DOMAIN states' = Sessions
  BY DEF TypeOK
<1>. QED
  BY <1>2, <1>3, <1>5, <1>6 DEF TypeOK

LEMMA ExecuteTyping ==
  ASSUME TypeOK, NEW s \in Sessions, Execute(s)
  PROVE  TypeOK'
<1>1. /\ pc[s] = "loop" /\ HasStep(s) /\ Context(s) \in Contexts
      /\ CurrentStep(s).id \in StepIds /\ CurrentStep(s).key \in Keys
  BY CurrentStepTyping DEF Execute
<1>2. \/ SetState(s, "FAILED") /\ pc' = [pc EXCEPT ![s] = "returned"]
      \/ SetState(s, "RUNNING") /\ pc' = [pc EXCEPT ![s] = "verify"]
      \/ SetState(s, "BLOCKED") /\ pc' = [pc EXCEPT ![s] = "returned"]
  BY DEF Execute, RunStep, Block, Return
<1>3. /\ DOMAIN states' = Sessions
      /\ \A r \in Sessions : states'[r] \in [StepIdsOf(plan[r]) -> StepStates]
  BY <1>1, <1>2, StateTyping DEF StepStates
<1>4. \A r \in Sessions :
        /\ IF pc'[r] = "idle" THEN plan'[r] = NoPlan ELSE plan'[r] \in Plans
        /\ index'[r] <= Len(plan'[r].steps) + 1
        /\ pc'[r] \in {"verify", "record"} => HasStep(r)'
  BY <1>1, <1>2 DEF TypeOK, Execute, HasStep
<1>5. /\ eligibility' \subseteq EligibilityRows
      /\ refunds' \subseteq RefundRows
      /\ outbox' \subseteq Requests
  BY <1>1, ToolTyping DEF Execute, RunStep, Block, GhostSuccess, records, TypeOK
<1>6. trace' \in [Sessions -> SUBSET Fields]
  <2>1. GhostFields \subseteq Fields /\ \A type : ResultFields(type) \subseteq Fields
    BY DEF GhostFields, ResultFields, Fields
  <2>2. trace' = trace \/ \E F \in SUBSET Fields : trace' = [trace EXCEPT ![s] = F]
    BY <2>1 DEF Execute, RunStep, Block
  <2>. QED
    BY <2>2 DEF TypeOK
<1>7. seen' \in [Sessions -> SUBSET Keys]
  <2>1. seen' = seen \/ seen' = [seen EXCEPT ![s] = seen[s] \cup {CurrentStep(s).key}]
    BY DEF Execute, RunStep, Block
  <2>2. seen \in [Sessions -> SUBSET Keys]
    BY DEF TypeOK
  <2>3. seen[s] \cup {CurrentStep(s).key} \in SUBSET Keys
    BY <1>1, <2>2
  <2>. QED
    BY <2>1, <2>2, <2>3
<1>8. outcome' \in [Sessions -> Outcomes]
  <2>1. \/ outcome' = outcome
        \/ \E st \in {"FAILED", "PARTIAL"}, f \in {"DUPLICATE", "BLOCKED"} :
             outcome' = [outcome EXCEPT ![s] =
               [status |-> st, failed |-> {CurrentStep(s).id}, failure |-> f]]
    BY DEF Execute, RunStep, Block, Return
  <2>2. \A st \in {"FAILED", "PARTIAL"}, f \in {"DUPLICATE", "BLOCKED"} :
          [status |-> st, failed |-> {CurrentStep(s).id}, failure |-> f] \in Outcomes
    BY <1>1 DEF Outcomes, Statuses, Failures
  <2>3. outcome \in [Sessions -> Outcomes]
    BY DEF TypeOK
  <2>. QED
    BY <2>1, <2>2, <2>3
<1>9. pc' \in [Sessions -> PCs]
  BY <1>2 DEF TypeOK, PCs
<1>. QED
  BY <1>3, <1>4, <1>5, <1>6, <1>7, <1>8, <1>9 DEF TypeOK, Execute

LEMMA AppendTyping ==
  ASSUME TypeOK, NEW s \in Sessions, pc[s] = "record",
         ledger' = [ledger EXCEPT ![s] = Append(@, ReceiptOf(s))]
  PROVE  ledger' \in [Sessions -> Seq(Receipts)]
BY ReceiptTyping DEF TypeOK

LEMMA RecordTyping ==
  ASSUME TypeOK, NEW s \in Sessions, RecordVerified(s) \/ RecordMismatch(s)
  PROVE  TypeOK'
<1>1. /\ pc[s] = "record" /\ HasStep(s) /\ CurrentStep(s) \in Steps
      /\ CurrentStep(s).id \in StepIds
      /\ index[s] \in 1..Len(plan[s].steps) /\ AppendReceipt(s)
      /\ ReceiptOf(s) \in Receipts
  BY CurrentStepTyping, ReceiptTyping DEF TypeOK, RecordVerified, RecordMismatch
<1>2. /\ ledger' \in [Sessions -> Seq(Receipts)]
      /\ evidence' \in [Sessions -> Seq(Receipts)]
      /\ queue' \subseteq QueuedSessions \X Receipts
  BY <1>1, AppendTyping DEF AppendReceipt, TypeOK
<1>3. \/ SetState(s, "VERIFIED") /\ pc' = [pc EXCEPT ![s] = "loop"]
      \/ SetState(s, "FAILED") /\ pc' = [pc EXCEPT ![s] = "returned"]
  BY DEF RecordVerified, RecordMismatch, Return
<1>4. /\ DOMAIN states' = Sessions
      /\ \A r \in Sessions : states'[r] \in [StepIdsOf(plan[r]) -> StepStates]
  BY <1>1, <1>3, StateTyping DEF StepStates
<1>5. /\ index' \in [Sessions -> Nat \ {0}]
      /\ completed' \in [Sessions -> Seq(StepIds)]
  <2>1. CASE RecordVerified(s)
    BY <1>1, <2>1 DEF RecordVerified, TypeOK
  <2>2. CASE RecordMismatch(s)
    BY <2>2 DEF RecordMismatch, TypeOK
  <2>. QED
    BY <2>1, <2>2
<1>6. \A r \in Sessions :
        /\ IF pc'[r] = "idle" THEN plan'[r] = NoPlan ELSE plan'[r] \in Plans
        /\ index'[r] <= Len(plan'[r].steps) + 1
        /\ pc'[r] \in {"verify", "record"} => HasStep(r)'
  <2>1. plan' = plan
    BY <1>1 DEF AppendReceipt
  <2>2. index' = [index EXCEPT ![s] = index[s] + 1] \/ index' = index
    BY DEF RecordVerified, RecordMismatch
  <2>3. \A r \in Sessions :
          IF pc'[r] = "idle" THEN plan'[r] = NoPlan ELSE plan'[r] \in Plans
    BY <1>1, <1>3, <2>1 DEF TypeOK
  <2>4. \A r \in Sessions : index'[r] <= Len(plan[r].steps) + 1
    <3>1. index \in [Sessions -> Nat \ {0}]
          /\ \A r \in Sessions : index[r] <= Len(plan[r].steps) + 1
      BY DEF TypeOK
    <3>. QED
      BY <1>1, <2>2, <3>1
  <2>5. \A r \in Sessions : pc'[r] \in {"verify", "record"} => HasStep(r)'
    BY <1>3, <2>1, <2>2 DEF TypeOK, HasStep
  <2>. QED
    BY <2>1, <2>3, <2>4, <2>5
<1>7. outcome' \in [Sessions -> Outcomes]
  <2>1. \A b, a, d, k, n : Classify(b, a, d, k, n) \in Failures
    BY DEF Classify, Failures
  <2>2. \/ outcome' = outcome
        \/ \E st \in {"ESCALATED", "PARTIAL"}, f \in Failures :
             outcome' = [outcome EXCEPT ![s] =
               [status |-> st, failed |-> {CurrentStep(s).id}, failure |-> f]]
    BY <2>1 DEF RecordVerified, RecordMismatch, Return
  <2>3. \A st \in {"ESCALATED", "PARTIAL"}, f \in Failures :
          [status |-> st, failed |-> {CurrentStep(s).id}, failure |-> f] \in Outcomes
    BY <1>1 DEF Outcomes, Statuses
  <2>4. outcome \in [Sessions -> Outcomes]
    BY DEF TypeOK
  <2>. QED
    BY <2>2, <2>3, <2>4
<1>8. /\ trace' \in [Sessions -> SUBSET Fields]
      /\ verdict' \in [Sessions -> Verdicts]
      /\ pc' \in [Sessions -> PCs]
  BY <1>3 DEF RecordVerified, RecordMismatch, TypeOK, Verdicts, PCs
<1>. QED
  BY <1>1, <1>2, <1>4, <1>5, <1>6, <1>7, <1>8 DEF TypeOK, AppendReceipt

LEMMA RaiseTyping ==
  ASSUME TypeOK, NEW s \in Sessions,
         ToolRaises(s) \/ CheckRaises(s) \/ EnqueueRaises(s)
  PROVE  TypeOK'
<1>1. CASE ToolRaises(s)
  <2>1. /\ DOMAIN states' = Sessions
        /\ \A r \in Sessions : states'[r] \in [StepIdsOf(plan[r]) -> StepStates]
    BY <1>1, StateTyping DEF ToolRaises, StepStates
  <2>. QED
    BY <1>1, <2>1 DEF ToolRaises, TypeOK, PCs, HasStep
<1>2. CASE CheckRaises(s)
  BY <1>2 DEF CheckRaises, TypeOK, PCs, HasStep
<1>3. CASE EnqueueRaises(s)
  <2>1. ledger' \in [Sessions -> Seq(Receipts)]
    BY <1>3, AppendTyping DEF EnqueueRaises
  <2>. QED
    BY <1>3, <2>1 DEF EnqueueRaises, TypeOK, PCs, HasStep
<1>. QED
  BY <1>1, <1>2, <1>3

LEMMA CheckTyping ==
  ASSUME TypeOK, NEW s \in Sessions, Check(s)
  PROVE  TypeOK'
<1>1. \A checker, ctx : VerdictOf(checker, ctx) \in Verdicts
  BY DEF VerdictOf, CheckRefundExists, Verdicts
<1>2. verdict' \in [Sessions -> Verdicts]
  BY <1>1 DEF Check, TypeOK
<1>. QED
  BY <1>2 DEF Check, TypeOK, PCs, HasStep

LEMMA ReturnTyping ==
  ASSUME TypeOK, NEW s \in Sessions, Finish(s) \/ Gate(s)
  PROVE  TypeOK'
<1>1. CASE Finish(s)
  <2>1. [status |-> "COMPLETE", failed |-> {}, failure |-> "none"] \in Outcomes
    BY DEF Outcomes, Statuses, Failures
  <2>2. outcome' \in [Sessions -> Outcomes]
    BY <1>1, <2>1 DEF Finish, Return, TypeOK
  <2>. QED
    BY <1>1, <2>2 DEF Finish, Return, TypeOK, PCs, HasStep
<1>2. CASE Gate(s)
  <2>1. ComputeStatus(s) \in Statuses
    BY DEF ComputeStatus, Statuses
  <2>2. final' \in [Sessions -> Statuses]
    BY <1>2, <2>1 DEF Gate, TypeOK
  <2>. QED
    BY <1>2, <2>2 DEF Gate, TypeOK, PCs, HasStep
<1>. QED
  BY <1>1, <1>2

LEMMA RollbackTyping ==
  ASSUME TypeOK, NEW q \in Requests, Rollback(q)
  PROVE  TypeOK'
<1>1. refunds' \subseteq RefundRows
  <2>1. \A row \in RefundRows : [row EXCEPT !.status = "CANCELLED"] \in RefundRows
    BY DEF RefundRows
  <2>2. refunds \subseteq RefundRows
    BY DEF TypeOK
  <2>. QED
    BY <2>1, <2>2 DEF Rollback, UpdateRefundStatus
<1>. QED
  BY <1>1 DEF Rollback, UpdateRefundStatus, TypeOK, HasStep

LEMMA NoPlanSteps == NoPlan.steps = <<>> /\ StepIdsOf(NoPlan) = {}
BY DEF NoPlan, StepIdsOf

LEMMA CrashTyping ==
  ASSUME TypeOK, NEW s \in Sessions, Crash(s)
  PROVE  TypeOK'
<1>. USE DEF Crash
<1>1. NoOutcome \in Outcomes
  BY DEF NoOutcome, Outcomes, Statuses, Failures
<1>2. /\ outcome' \in [Sessions -> Outcomes]
      /\ final' \in [Sessions -> Statuses]
      /\ verdict' \in [Sessions -> Verdicts]
      /\ pc' \in [Sessions -> PCs]
  BY <1>1 DEF TypeOK, Statuses, Verdicts, PCs
<1>3. /\ ledger' \in [Sessions -> Seq(Receipts)]
      /\ seen' \in [Sessions -> SUBSET Keys]
      /\ trace' \in [Sessions -> SUBSET Fields]
      /\ completed' \in [Sessions -> Seq(StepIds)]
      /\ evidence' \in [Sessions -> Seq(Receipts)]
      /\ plan' \in [Sessions -> Plans \cup {NoPlan}]
      /\ index' \in [Sessions -> Nat \ {0}]
      /\ DOMAIN states' = Sessions
  BY DEF TypeOK
<1>4. \A r \in Sessions :
        /\ IF pc'[r] = "idle" THEN plan'[r] = NoPlan ELSE plan'[r] \in Plans
        /\ states'[r] \in [StepIdsOf(plan'[r]) -> StepStates]
        /\ index'[r] <= Len(plan'[r].steps) + 1
        /\ pc'[r] \in {"verify", "record"} => HasStep(r)'
  BY NoPlanSteps DEF TypeOK, HasStep
<1>. QED
  BY <1>2, <1>3, <1>4 DEF TypeOK

LEMMA InitTypeOK == Init => TypeOK
<1>. SUFFICES ASSUME Init PROVE TypeOK
  OBVIOUS
<1>. USE DEF Init
<1>1. NoOutcome \in Outcomes
  BY DEF NoOutcome, Outcomes, Statuses, Failures
<1>2. /\ outcome \in [Sessions -> Outcomes]
      /\ final \in [Sessions -> Statuses]
      /\ verdict \in [Sessions -> Verdicts]
      /\ pc \in [Sessions -> PCs]
  BY <1>1 DEF Statuses, Verdicts, PCs
<1>3. /\ ledger \in [Sessions -> Seq(Receipts)]
      /\ evidence \in [Sessions -> Seq(Receipts)]
      /\ completed \in [Sessions -> Seq(StepIds)]
      /\ runs \in [Sessions -> 0..MaxRuns]
  BY BoundAssumption
<1>4. \A s \in Sessions :
        /\ states[s] \in [StepIdsOf(plan[s]) -> StepStates]
        /\ index[s] <= Len(plan[s].steps) + 1
  BY NoPlanSteps
<1>. QED
  BY <1>2, <1>3, <1>4 DEF TypeOK

LEMMA StepTypeOK == TypeOK /\ [Next]_vars => TypeOK'
<1>. SUFFICES ASSUME TypeOK, [Next]_vars PROVE TypeOK'
  OBVIOUS
<1>1. ASSUME NEW s \in Sessions, NEW p \in Plans, NEW fresh \in BOOLEAN,
             StartRun(s, p, fresh)
      PROVE  TypeOK'
  BY <1>1, StartTyping
<1>2. ASSUME NEW s \in Sessions, RunnerStep(s) PROVE TypeOK'
  BY <1>2, ExecuteTyping, RaiseTyping, CheckTyping, RecordTyping, ReturnTyping
     DEF RunnerStep
<1>3. ASSUME NEW s \in Sessions, Crash(s) PROVE TypeOK'
  BY <1>3, CrashTyping
<1>4. ASSUME NEW q \in Requests, Rollback(q) PROVE TypeOK'
  BY <1>4, RollbackTyping
<1>5. CASE UNCHANGED vars
  BY <1>5 DEF vars, TypeOK, HasStep
<1>. QED
  BY <1>1, <1>2, <1>3, <1>4, <1>5 DEF Next, Quiescent

\* Every state of the pipeline is well formed (TypeOK).
THEOREM TypeCorrect == Spec => []TypeOK
BY InitTypeOK, StepTypeOK, PTL DEF Spec

-----------------------------------------------------------------------------
(* No claim of the pipeline becomes false: no tool, whoever calls it, makes *)
(* a postcondition of a plan false again (FactsGrow), so what a checker     *)
(* read stays true while its receipt is written, and for ever after.        *)

LEMMA FactTyping ==
  ASSUME NEW f \in TrueFacts
  PROVE  /\ f \in PlanFacts
         /\ \E p \in Plans : /\ f.request = p.context.request
                             /\ f.customer = p.context.customer
                             /\ f.amount = p.context.amount
BY DEF TrueFacts, PlanFacts, FactsOf, Fact

\* A fact that is true stays true if the rows it rests on are kept.
LEMMA FactKept ==
  ASSUME NEW f \in TrueFacts,
         [request |-> f.request, customer |-> f.customer] \in eligibility
           => [request |-> f.request, customer |-> f.customer] \in eligibility',
         \A row \in refunds : row.request = f.request
           => \E new \in refunds' : new.request = f.request /\ new.amount = row.amount,
         f.request \in outbox => f.request \in outbox'
  PROVE  f \in TrueFacts'
<1>1. f \in PlanFacts /\ VerdictOf(f.checker, f) = "match"
  BY DEF TrueFacts
<1>2. CASE f.checker = "eligibility"
  BY <1>1, <1>2 DEF VerdictOf, TrueFacts
<1>3. CASE f.checker = "refund_exists"
  <2>1. CheckRefundExists(f) = "match"
    BY <1>1, <1>3 DEF VerdictOf
  <2>2. PICK row \in refunds : row.request = f.request /\ Close(row.amount, f.amount)
    BY <2>1 DEF CheckRefundExists
  <2>3. PICK new \in refunds' : new.request = f.request /\ new.amount = row.amount
    BY <2>2
  <2>4. CheckRefundExists(f)' = "match"
    BY <2>2, <2>3 DEF CheckRefundExists, Close
  <2>. QED
    BY <1>1, <1>3, <2>4 DEF VerdictOf, TrueFacts
<1>4. CASE f.checker = "email_outbox"
  BY <1>1, <1>4 DEF VerdictOf, TrueFacts
<1>. QED
  BY <1>1, <1>2, <1>3, <1>4 DEF VerdictOf

\* What the tools have written for a plan stays in the tables.
LEMMA RowsKept ==
  ASSUME TypeOK, [Next]_vars
  PROVE  /\ \A p \in Plans :
              LET row == [request |-> p.context.request, customer |-> p.context.customer]
              IN  row \in eligibility => row \in eligibility'
         /\ \A row \in refunds : \E new \in refunds' :
              new.request = row.request /\ new.amount = row.amount
         /\ outbox \subseteq outbox'
<1>. DEFINE Row(p) == [request |-> p.context.request, customer |-> p.context.customer]
            Kept == /\ \A p \in Plans : Row(p) \in eligibility => Row(p) \in eligibility'
                    /\ \A row \in refunds : \E new \in refunds' :
                         new.request = row.request /\ new.amount = row.amount
                    /\ outbox \subseteq outbox'
<1>1. CASE UNCHANGED records
  BY <1>1 DEF records
<1>2. ASSUME NEW s \in Sessions, Execute(s) PROVE Kept
  <2>1. plan[s] \in Plans
    BY <1>2, CurrentStepTyping DEF Execute
  <2>2. CallTool(CurrentStep(s).type, Context(s)) \/ UNCHANGED records
    BY <1>2 DEF Execute, RunStep, Block, GhostSuccess, records
  <2>3. CASE CheckEligibility(Context(s))
    BY <2>1, <2>3, RequestAssumption DEF CheckEligibility, Context
  <2>4. CASE CreateRefund(Context(s))
    BY <2>4 DEF CreateRefund
  <2>5. CASE QueueEmail(Context(s))
    BY <2>5 DEF QueueEmail
  <2>. QED
    BY <1>1, <2>2, <2>3, <2>4, <2>5 DEF CallTool
<1>3. ASSUME NEW q \in Requests, Rollback(q) PROVE Kept
  <2>1. ASSUME NEW row \in refunds
        PROVE  \E new \in refunds' : new.request = row.request /\ new.amount = row.amount
    <3>1. row \in RefundRows
      BY DEF TypeOK
    <3>2. LET new == IF row.request = q THEN [row EXCEPT !.status = "CANCELLED"] ELSE row
          IN  new \in refunds' /\ new.request = row.request /\ new.amount = row.amount
      BY <1>3, <3>1 DEF Rollback, UpdateRefundStatus, RefundRows
    <3>. QED
      BY <3>2
  <2>. QED
    BY <1>3, <2>1 DEF Rollback, UpdateRefundStatus
<1>4. ASSUME NEW s \in Sessions, RunnerStep(s), ~Execute(s) PROVE UNCHANGED records
  BY <1>4 DEF RunnerStep, ToolRaises, Check, CheckRaises, RecordVerified, RecordMismatch,
              AppendReceipt, EnqueueRaises, Finish, Gate, records
<1>5. ASSUME NEW s \in Sessions,
             (\E p \in Plans, fresh \in BOOLEAN : StartRun(s, p, fresh)) \/ Crash(s)
      PROVE  UNCHANGED records
  BY <1>5 DEF StartRun, Crash, records
<1>6. CASE UNCHANGED vars
  BY <1>1, <1>6 DEF vars, records
<1>. QED
  BY <1>1, <1>2, <1>3, <1>4, <1>5, <1>6 DEF Next, Quiescent

\* Every step of the pipeline keeps what is true of the database.
LEMMA FactsGrow ==
  ASSUME TypeOK, [Next]_vars
  PROVE  TrueFacts \subseteq TrueFacts'
<1>. SUFFICES ASSUME NEW f \in TrueFacts PROVE f \in TrueFacts'
  OBVIOUS
<1>. PICK p \in Plans : f.request = p.context.request /\ f.customer = p.context.customer
  BY FactTyping
<1>. QED
  BY RowsKept, FactKept

-----------------------------------------------------------------------------
\* A session's step leaves the other sessions' variables alone.
Same(r) ==
  /\ plan'[r] = plan[r] /\ index'[r] = index[r] /\ completed'[r] = completed[r]
  /\ pc'[r] = pc[r] /\ verdict'[r] = verdict[r]
  /\ ledger'[r] = ledger[r] /\ runs'[r] = runs[r]
  /\ outcome'[r] = outcome[r] /\ final'[r] = final[r]
  /\ evidence'[r] = evidence[r] /\ trace'[r] = trace[r] /\ seen'[r] = seen[r]
  /\ states'[r] = states[r]

LEMMA OthersSame ==
  ASSUME TypeOK, NEW s \in Sessions, NEW r \in Sessions \ {s},
         \/ \E p \in Plans, fresh \in BOOLEAN : StartRun(s, p, fresh)
         \/ RunnerStep(s)
         \/ Crash(s)
  PROVE  Same(r)
<1>1. CASE \E p \in Plans, fresh \in BOOLEAN : StartRun(s, p, fresh)
  BY <1>1 DEF StartRun, Same, TypeOK
<1>2. CASE RunnerStep(s)
  <2>1. CASE Execute(s)
    BY <2>1 DEF Execute, RunStep, Block, Return, SetState, Same, TypeOK
  <2>2. CASE ToolRaises(s) \/ Check(s) \/ CheckRaises(s)
    BY <2>2 DEF ToolRaises, Check, CheckRaises, SetState, Same, TypeOK
  <2>3. CASE RecordVerified(s)
    BY <2>3 DEF RecordVerified, AppendReceipt, SetState, Same, TypeOK
  <2>4. CASE RecordMismatch(s)
    BY <2>4 DEF RecordMismatch, AppendReceipt, Return, SetState, Same, TypeOK
  <2>5. CASE EnqueueRaises(s) \/ Finish(s) \/ Gate(s)
    BY <2>5 DEF EnqueueRaises, Finish, Gate, Return, Same, TypeOK
  <2>. QED
    BY <1>2, <2>1, <2>2, <2>3, <2>4, <2>5 DEF RunnerStep
<1>3. CASE Crash(s)
  BY <1>3 DEF Crash, Same, TypeOK
<1>. QED
  BY <1>1, <1>2, <1>3

\* A session whose plan and progress a step leaves alone keeps its claims.
LEMMA ClaimsKept ==
  ASSUME TypeOK, NEW r \in Sessions, ClaimsOf(r), TrueFacts \subseteq TrueFacts',
         plan'[r] = plan[r], index'[r] = index[r], completed'[r] = completed[r],
         pc'[r] = "record" => pc[r] = "record" /\ verdict'[r] = verdict[r]
  PROVE  ClaimsOf(r)'
<1>1. \A i : FactAt(r, i) \in TrueFacts => FactAt(r, i)' \in TrueFacts'
  BY DEF FactAt, Fact, Context
<1>2. FactAt(r, index[r]) \in TrueFacts => FactAt(r, index[r])' \in TrueFacts'
  BY DEF FactAt, Fact, Context
<1>. QED
  BY <1>1, <1>2 DEF ClaimsOf

LEMMA ClaimStep ==
  ASSUME TypeOK, ClaimInv, [Next]_vars
  PROVE  ClaimInv'
<1>. TrueFacts \subseteq TrueFacts'
  BY FactsGrow
<1>1. ASSUME NEW s \in Sessions,
             \/ \E p \in Plans, fresh \in BOOLEAN : StartRun(s, p, fresh)
             \/ RunnerStep(s)
             \/ Crash(s)
      PROVE  ClaimInv'
  <2>1. ASSUME NEW r \in Sessions \ {s} PROVE ClaimsOf(r)'
    BY <1>1, <2>1, OthersSame, ClaimsKept DEF ClaimInv, Same
  <2>2. ClaimsOf(s)'
    <3>1. CASE (\E p \in Plans, fresh \in BOOLEAN : StartRun(s, p, fresh)) \/ Crash(s)
      <4>1. pc'[s] # "record" /\ index'[s] = 1 /\ completed'[s] = <<>>
        BY <3>1 DEF StartRun, Crash, TypeOK
      <4>. QED
        BY <4>1 DEF ClaimsOf
    <3>2. CASE Check(s)
      <4>1. /\ plan' = plan /\ index' = index /\ completed' = completed
            /\ pc[s] = "verify" /\ pc'[s] = "record"
            /\ verdict'[s] = VerdictOf(CurrentStep(s).checker, Context(s))
        BY <3>2 DEF Check, TypeOK
      <4>2. plan[s] \in Plans /\ index[s] \in 1..Len(plan[s].steps)
        BY <4>1, CurrentStepTyping DEF TypeOK
      <4>3. FactAt(s, index[s]) \in PlanFacts
        BY <4>2 DEF FactAt, Context, PlanFacts, FactsOf
      <4>4. VerdictOf(CurrentStep(s).checker, Context(s))
              = VerdictOf(FactAt(s, index[s]).checker, FactAt(s, index[s]))
        BY DEF VerdictOf, CheckRefundExists, FactAt, Fact, CurrentStep, Context
      <4>5. verdict'[s] = "match" => FactAt(s, index[s]) \in TrueFacts
        BY <4>1, <4>3, <4>4 DEF TrueFacts
      <4>6. \A i : FactAt(s, i) \in TrueFacts => FactAt(s, i)' \in TrueFacts'
        BY <4>1 DEF FactAt, Fact, Context
      <4>7. FactAt(s, index[s]) \in TrueFacts => FactAt(s, index[s])' \in TrueFacts'
        BY <4>1 DEF FactAt, Fact, Context
      <4>. QED
        BY <4>1, <4>5, <4>6, <4>7 DEF ClaimsOf, ClaimInv
    <3>3. CASE RecordVerified(s)
      <4>1. /\ plan' = plan /\ index'[s] = index[s] + 1 /\ pc'[s] = "loop"
            /\ completed'[s] = Append(completed[s], CurrentStep(s).id)
            /\ pc[s] = "record" /\ verdict[s] = "match"
        BY <3>3 DEF RecordVerified, AppendReceipt, TypeOK
      <4>2. \A i : FactAt(s, i) \in TrueFacts => FactAt(s, i)' \in TrueFacts'
        BY <4>1 DEF FactAt, Fact, Context
      <4>3. \A i \in 1..index[s] : FactAt(s, i) \in TrueFacts
        BY <4>1 DEF ClaimsOf, ClaimInv, TypeOK
      <4>4. Len(completed'[s]) = index'[s] - 1
        <5>1. completed[s] \in Seq(StepIds) /\ Len(completed[s]) = index[s] - 1
              /\ index[s] \in Nat \ {0} /\ CurrentStep(s).id \in StepIds
          BY <4>1, CurrentStepTyping DEF ClaimsOf, ClaimInv, TypeOK
        <5>. QED
          BY <4>1, <5>1
      <4>5. 1..(index'[s] - 1) = 1..index[s]
        BY <4>1 DEF TypeOK
      <4>. QED
        BY <4>1, <4>2, <4>3, <4>4, <4>5 DEF ClaimsOf
    <3>4. CASE RunnerStep(s) /\ ~Check(s) /\ ~RecordVerified(s)
      <4>1. /\ plan'[s] = plan[s] /\ index'[s] = index[s] /\ completed'[s] = completed[s]
            /\ pc'[s] # "record"
        <5>1. CASE Execute(s)
          BY <5>1 DEF Execute, RunStep, Block, Return, TypeOK
        <5>2. CASE ToolRaises(s) \/ CheckRaises(s) \/ EnqueueRaises(s)
          BY <5>2 DEF ToolRaises, CheckRaises, EnqueueRaises, TypeOK
        <5>3. CASE RecordMismatch(s)
          BY <5>3 DEF RecordMismatch, AppendReceipt, Return, TypeOK
        <5>4. CASE Finish(s) \/ Gate(s)
          BY <5>4 DEF Finish, Gate, Return, TypeOK
        <5>. QED
          BY <3>4, <5>1, <5>2, <5>3, <5>4 DEF RunnerStep
      <4>. QED
        BY <4>1, ClaimsKept DEF ClaimInv
    <3>. QED
      BY <1>1, <3>1, <3>2, <3>3, <3>4
  <2>. QED
    BY <2>1, <2>2 DEF ClaimInv
<1>2. ASSUME NEW q \in Requests, Rollback(q) PROVE ClaimInv'
  BY <1>2, ClaimsKept DEF Rollback, ClaimInv
<1>3. CASE UNCHANGED vars
  BY <1>3, ClaimsKept DEF vars, ClaimInv
<1>. QED
  BY <1>1, <1>2, <1>3 DEF Next, Quiescent

\* What a run has reported as done is true of the database from then on
\* (NoFalseClaim).
THEOREM ClaimsAreTrue == Spec => []NoFalseClaim
<1>1. Init => ClaimInv
  BY DEF Init, ClaimInv, ClaimsOf
<1>2. TypeOK /\ ClaimInv /\ [Next]_vars => ClaimInv'
  BY ClaimStep
<1>3. TypeOK /\ ClaimInv => NoFalseClaim
  <2>. SUFFICES ASSUME TypeOK, ClaimInv, NEW s \in Sessions,
                       NEW i \in 1..Len(completed[s])
                PROVE  Holds(plan[s].steps[i], Context(s))
    BY DEF NoFalseClaim
  <2>1. i \in 1..(index[s] - 1)
    BY DEF ClaimInv, ClaimsOf
  <2>2. VerdictOf(FactAt(s, i).checker, FactAt(s, i)) = "match"
    BY <2>1 DEF ClaimInv, ClaimsOf, TrueFacts
  <2>. QED
    BY <2>2 DEF Holds, VerdictOf, CheckRefundExists, FactAt, Fact
<1>. QED
  BY <1>1, <1>2, <1>3, TypeCorrect, PTL DEF Spec

-----------------------------------------------------------------------------
(* COMPLETE is backed by the ledger, and a mismatch ends its run.          *)
(*                                                                         *)
(* A ledger only grows while its process lives, and it has no receipt of a *)
(* run that has not begun.  So a run enters its loop with no MISMATCH of   *)
(* its own, and as the first one ends the loop there is none when Finish   *)
(* finds all steps behind it.                                              *)

InRun == {"loop", "verify", "record"}

\* A step that only moves the session about keeps its evidence.
LEMMA EvidenceKept ==
  ASSUME NEW r \in Sessions, EvidenceOf(r),
         plan'[r] = plan[r], index'[r] = index[r], runs'[r] = runs[r],
         ledger'[r] = ledger[r], outcome'[r] = outcome[r], final'[r] = final[r],
         pc'[r] \in InRun => pc[r] \in InRun,
         pc[r] \in {"returned", "gated"} => pc'[r] \in {"returned", "gated"}
  PROVE  EvidenceOf(r)'
<1>1. NoMismatch(r) => NoMismatch(r)'
  BY DEF NoMismatch
<1>2. \A i : InLedger(r, VerifiedReceipt(r, i)) => InLedger(r, VerifiedReceipt(r, i))'
  BY DEF InLedger, VerifiedReceipt
<1>. QED
  BY <1>1, <1>2 DEF EvidenceOf, InRun, HasStep

\* What EvidenceLedger.append does to the ledger of s, in each of its uses.
LEMMA LedgerAppend ==
  ASSUME TypeOK, NEW s \in Sessions, pc[s] = "record",
         ledger' = [ledger EXCEPT ![s] = Append(@, ReceiptOf(s))]
  PROVE  /\ Len(ledger'[s]) = Len(ledger[s]) + 1 /\ Len(ledger[s]) \in Nat
         /\ \A k \in 1..Len(ledger[s]) : ledger'[s][k] = ledger[s][k]
         /\ ledger'[s][Len(ledger[s]) + 1] = ReceiptOf(s)
         /\ ReceiptOf(s).run = runs[s]
<1>1. ReceiptOf(s) \in Receipts /\ ledger[s] \in Seq(Receipts)
  BY ReceiptTyping DEF TypeOK
<1>2. ledger'[s] = Append(ledger[s], ReceiptOf(s))
  BY DEF TypeOK
<1>. QED
  BY <1>1, <1>2 DEF ReceiptOf

\* Of an appended ledger: its runs are past, and what it had it has.
LEMMA AppendKeeps ==
  ASSUME TypeOK, NEW s \in Sessions, pc[s] = "record", EvidenceOf(s),
         ledger' = [ledger EXCEPT ![s] = Append(@, ReceiptOf(s))],
         plan'[s] = plan[s], runs'[s] = runs[s]
  PROVE  /\ \A k \in 1..Len(ledger'[s]) : ledger'[s][k].run <= runs'[s]
         /\ \A i \in 1..(index[s] - 1) : InLedger(s, VerifiedReceipt(s, i))'
<1>1. /\ Len(ledger'[s]) = Len(ledger[s]) + 1 /\ Len(ledger[s]) \in Nat
      /\ \A k \in 1..Len(ledger[s]) : ledger'[s][k] = ledger[s][k]
      /\ ledger'[s][Len(ledger[s]) + 1] = ReceiptOf(s)
      /\ ReceiptOf(s).run = runs[s]
  BY LedgerAppend
<1>2. ASSUME NEW k \in 1..Len(ledger'[s]) PROVE ledger'[s][k].run <= runs'[s]
  <2>1. CASE k = Len(ledger[s]) + 1
    BY <1>1, <2>1 DEF TypeOK
  <2>2. CASE k \in 1..Len(ledger[s])
    BY <1>1, <2>2 DEF EvidenceOf
  <2>. QED
    BY <1>1, <2>1, <2>2
<1>3. ASSUME NEW i \in 1..(index[s] - 1)
      PROVE  InLedger(s, VerifiedReceipt(s, i))'
  <2>1. PICK k \in 1..Len(ledger[s]) : ledger[s][k] = VerifiedReceipt(s, i)
    BY DEF EvidenceOf, InLedger
  <2>2. k \in 1..Len(ledger'[s]) /\ ledger'[s][k] = VerifiedReceipt(s, i)
    BY <1>1, <2>1
  <2>3. VerifiedReceipt(s, i)' = VerifiedReceipt(s, i)
    BY DEF VerifiedReceipt
  <2>. QED
    BY <2>2, <2>3 DEF InLedger
<1>. QED
  BY <1>2, <1>3

LEMMA StartEvidence ==
  ASSUME TypeOK, EvidenceInv, NEW s \in Sessions,
         NEW p \in Plans, NEW fresh \in BOOLEAN, StartRun(s, p, fresh)
  PROVE  EvidenceOf(s)'
<1>1. /\ ledger' = ledger /\ runs'[s] = runs[s] + 1 /\ index'[s] = 1
      /\ outcome'[s] = NoOutcome /\ final'[s] = "NONE"
  BY DEF StartRun, TypeOK
<1>2. ledger[s] \in Seq(Receipts) /\ runs[s] \in Nat
  BY DEF TypeOK
<1>3. ASSUME NEW k \in 1..Len(ledger[s])
      PROVE  ledger[s][k].run \in Nat /\ ledger[s][k].run <= runs[s]
  <2>1. ledger[s][k] \in Receipts
    BY <1>2
  <2>. QED
    BY <2>1 DEF EvidenceInv, EvidenceOf, Receipts
<1>4. \A k \in 1..Len(ledger'[s]) : ledger'[s][k].run <= runs'[s]
                                    /\ ledger'[s][k].run # runs'[s]
  BY <1>1, <1>2, <1>3
<1>5. NoMismatch(s)'
  BY <1>4 DEF NoMismatch
<1>6. 1..(index'[s] - 1) = {}
  BY <1>1
<1>7. outcome'[s].status # "COMPLETE" /\ final'[s] # "COMPLETE"
  BY <1>1 DEF NoOutcome
<1>. QED
  BY <1>4, <1>5, <1>6, <1>7 DEF EvidenceOf

LEMMA VerifiedEvidence ==
  ASSUME TypeOK, EvidenceInv, NEW s \in Sessions, RecordVerified(s)
  PROVE  EvidenceOf(s)'
<1>1. /\ pc[s] = "record" /\ verdict[s] = "match"
      /\ ledger' = [ledger EXCEPT ![s] = Append(@, ReceiptOf(s))]
      /\ plan' = plan /\ runs' = runs /\ final' = final /\ outcome' = outcome
      /\ index'[s] = index[s] + 1 /\ pc'[s] = "loop"
  BY DEF RecordVerified, AppendReceipt, TypeOK
<1>2. EvidenceOf(s) /\ index[s] \in Nat \ {0}
  BY DEF EvidenceInv, TypeOK
<1>3. ReceiptOf(s).result = "VERIFIED"
  BY <1>1 DEF ReceiptOf
<1>4. ASSUME NEW i, i = index[s] PROVE InLedger(s, VerifiedReceipt(s, i))'
  <2>1. ReceiptOf(s) = [run |-> runs'[s], index |-> i,
                        step |-> plan'[s].steps[i].id, result |-> "VERIFIED"]
    BY <1>1, <1>4 DEF ReceiptOf, CurrentStep
  <2>2. /\ Len(ledger'[s]) = Len(ledger[s]) + 1 /\ Len(ledger[s]) \in Nat
        /\ ledger'[s][Len(ledger[s]) + 1] = ReceiptOf(s)
    BY <1>1, LedgerAppend
  <2>3. \E k \in 1..Len(ledger'[s]) : ledger'[s][k] = ReceiptOf(s)
    BY <2>2
  <2>. QED
    BY <2>1, <2>3 DEF InLedger, VerifiedReceipt
<1>5. \A i \in 1..(index'[s] - 1) : InLedger(s, VerifiedReceipt(s, i))'
  <2>1. \A i \in 1..(index[s] - 1) : InLedger(s, VerifiedReceipt(s, i))'
    BY <1>1, <1>2, AppendKeeps
  <2>2. \A i \in 1..(index'[s] - 1) : i \in 1..(index[s] - 1) \/ i = index[s]
    BY <1>1, <1>2
  <2>. QED
    BY <1>4, <2>1, <2>2
<1>6. NoMismatch(s)'
  <2>1. ASSUME NEW k \in 1..Len(ledger'[s])
        PROVE  \/ ledger'[s][k] = ReceiptOf(s)
               \/ k \in 1..Len(ledger[s]) /\ ledger'[s][k] = ledger[s][k]
    <3>1. /\ Len(ledger'[s]) = Len(ledger[s]) + 1 /\ Len(ledger[s]) \in Nat
          /\ \A j \in 1..Len(ledger[s]) : ledger'[s][j] = ledger[s][j]
          /\ ledger'[s][Len(ledger[s]) + 1] = ReceiptOf(s)
          /\ ReceiptOf(s).run = runs[s]
      BY <1>1, LedgerAppend
    <3>. QED
      BY <3>1
  <2>2. NoMismatch(s)
    BY <1>1, <1>2 DEF EvidenceOf
  <2>. QED
    BY <1>1, <1>3, <2>1, <2>2 DEF NoMismatch
<1>7. \A k \in 1..Len(ledger'[s]) : ledger'[s][k].run <= runs'[s]
  BY <1>1, <1>2, AppendKeeps
<1>. QED
  BY <1>1, <1>2, <1>5, <1>6, <1>7 DEF EvidenceOf

\* The receipt of a refused step, or of one whose queueing raised.
LEMMA RefusedEvidence ==
  ASSUME TypeOK, EvidenceInv, NEW s \in Sessions, RecordMismatch(s) \/ EnqueueRaises(s)
  PROVE  EvidenceOf(s)'
<1>1. /\ pc[s] = "record"
      /\ ledger' = [ledger EXCEPT ![s] = Append(@, ReceiptOf(s))]
      /\ plan' = plan /\ runs' = runs /\ final' = final /\ index' = index
      /\ pc'[s] \notin InRun
      /\ outcome'[s] = outcome[s] \/ outcome'[s].status # "COMPLETE"
  <2>1. CASE RecordMismatch(s)
    BY <2>1 DEF RecordMismatch, AppendReceipt, Return, InRun, TypeOK
  <2>2. CASE EnqueueRaises(s)
    BY <2>2 DEF EnqueueRaises, InRun, TypeOK
  <2>. QED
    BY <2>1, <2>2
<1>2. EvidenceOf(s)
  BY DEF EvidenceInv
<1>3. outcome'[s].status # "COMPLETE" /\ final'[s] # "COMPLETE"
  BY <1>1, <1>2 DEF EvidenceOf
<1>4. /\ \A k \in 1..Len(ledger'[s]) : ledger'[s][k].run <= runs'[s]
      /\ \A i \in 1..(index[s] - 1) : InLedger(s, VerifiedReceipt(s, i))'
  BY <1>1, <1>2, AppendKeeps
<1>. QED
  BY <1>1, <1>3, <1>4 DEF EvidenceOf, InRun

\* The steps that write no receipt.
LEMMA QuietEvidence ==
  ASSUME TypeOK, EvidenceInv, NEW s \in Sessions,
         \/ Execute(s) \/ ToolRaises(s) \/ Check(s) \/ CheckRaises(s)
         \/ Finish(s) \/ Gate(s)
  PROVE  EvidenceOf(s)'
<1>0. EvidenceOf(s)
  BY DEF EvidenceInv
<1>1. CASE Execute(s)
  <2>1. /\ pc[s] = "loop" /\ plan' = plan /\ index' = index /\ runs' = runs
        /\ ledger' = ledger /\ final' = final
        /\ outcome'[s] = outcome[s] \/ outcome'[s].status # "COMPLETE"
    BY <1>1 DEF Execute, RunStep, Block, Return, TypeOK
  <2>2. NoMismatch(s)' /\ outcome'[s].status # "COMPLETE" /\ final'[s] # "COMPLETE"
    BY <1>0, <2>1 DEF EvidenceOf, NoMismatch
  <2>3. \A i : InLedger(s, VerifiedReceipt(s, i)) => InLedger(s, VerifiedReceipt(s, i))'
    BY <2>1 DEF InLedger, VerifiedReceipt
  <2>. QED
    BY <1>0, <2>1, <2>2, <2>3 DEF EvidenceOf
<1>2. CASE ToolRaises(s) \/ Check(s) \/ CheckRaises(s)
  <2>1. /\ pc[s] \in InRun /\ plan' = plan /\ index' = index /\ runs' = runs
        /\ ledger' = ledger /\ final' = final /\ outcome' = outcome
    BY <1>2 DEF ToolRaises, Check, CheckRaises, InRun
  <2>. QED
    BY <1>0, <2>1, EvidenceKept DEF InRun
<1>3. CASE Finish(s)
  <2>1. /\ pc[s] = "loop" /\ pc'[s] = "returned" /\ ~HasStep(s)
        /\ plan' = plan /\ index' = index /\ runs' = runs
        /\ ledger' = ledger /\ final' = final
    BY <1>3 DEF Finish, Return, TypeOK
  <2>2. NoMismatch(s)' /\ ~HasStep(s)' /\ final'[s] # "COMPLETE"
    BY <1>0, <2>1 DEF EvidenceOf, NoMismatch, HasStep
  <2>3. \A i : InLedger(s, VerifiedReceipt(s, i)) => InLedger(s, VerifiedReceipt(s, i))'
    BY <2>1 DEF InLedger, VerifiedReceipt
  <2>. QED
    BY <1>0, <2>1, <2>2, <2>3 DEF EvidenceOf
<1>4. CASE Gate(s)
  <2>1. /\ pc[s] = "returned" /\ pc'[s] = "gated"
        /\ plan' = plan /\ index' = index /\ runs' = runs
        /\ ledger' = ledger /\ outcome' = outcome
        /\ final'[s] = "COMPLETE" => outcome[s].status = "COMPLETE"
    BY <1>4 DEF Gate, ComputeStatus, TypeOK
  <2>2. NoMismatch(s) => NoMismatch(s)'
    BY <2>1 DEF NoMismatch
  <2>3. \A i : InLedger(s, VerifiedReceipt(s, i)) => InLedger(s, VerifiedReceipt(s, i))'
    BY <2>1 DEF InLedger, VerifiedReceipt
  <2>. QED
    BY <1>0, <2>1, <2>2, <2>3 DEF EvidenceOf, HasStep
<1>. QED
  BY <1>1, <1>2, <1>3, <1>4

LEMMA CrashEvidence ==
  ASSUME TypeOK, NEW s \in Sessions, Crash(s)
  PROVE  EvidenceOf(s)'
<1>1. /\ ledger'[s] = <<>> /\ index'[s] = 1 /\ final'[s] = "NONE"
      /\ outcome'[s] = NoOutcome
  BY DEF Crash, TypeOK
<1>. QED
  BY <1>1 DEF EvidenceOf, NoMismatch, NoOutcome

LEMMA EvidenceStep ==
  ASSUME TypeOK, EvidenceInv, [Next]_vars
  PROVE  EvidenceInv'
<1>1. ASSUME NEW s \in Sessions,
             \/ \E p \in Plans, fresh \in BOOLEAN : StartRun(s, p, fresh)
             \/ RunnerStep(s)
             \/ Crash(s)
      PROVE  EvidenceInv'
  <2>1. ASSUME NEW r \in Sessions \ {s} PROVE EvidenceOf(r)'
    BY <1>1, <2>1, OthersSame, EvidenceKept DEF EvidenceInv, Same
  <2>2. EvidenceOf(s)'
    BY <1>1, StartEvidence, QuietEvidence, VerifiedEvidence, RefusedEvidence, CrashEvidence
       DEF RunnerStep
  <2>. QED
    BY <2>1, <2>2 DEF EvidenceInv
<1>2. ASSUME NEW q \in Requests, Rollback(q) PROVE EvidenceInv'
  BY <1>2, EvidenceKept DEF Rollback, EvidenceInv
<1>3. CASE UNCHANGED vars
  BY <1>3, EvidenceKept DEF vars, EvidenceInv
<1>. QED
  BY <1>1, <1>2, <1>3 DEF Next, Quiescent

\* A run reported COMPLETE has in the ledger the VERIFIED receipt of each of
\* its steps and no MISMATCH (CompleteIsEvidenced).
THEOREM CompletionIsEvidenced == Spec => []CompleteIsEvidenced
<1>1. Init => EvidenceInv
  BY DEF Init, EvidenceInv, EvidenceOf, NoMismatch, NoOutcome
<1>2. TypeOK /\ EvidenceInv /\ [Next]_vars => EvidenceInv'
  BY EvidenceStep
<1>3. TypeOK /\ EvidenceInv => CompleteIsEvidenced
  <2>. SUFFICES ASSUME TypeOK, EvidenceInv, NEW s \in Sessions, final[s] = "COMPLETE"
                PROVE  /\ \A i \in 1..Len(plan[s].steps) : InLedger(s, VerifiedReceipt(s, i))
                       /\ NoMismatch(s)
    BY DEF CompleteIsEvidenced, InLedger, VerifiedReceipt, NoMismatch
  <2>1. ~HasStep(s) /\ NoMismatch(s)
        /\ \A i \in 1..(index[s] - 1) : InLedger(s, VerifiedReceipt(s, i))
    BY DEF EvidenceInv, EvidenceOf
  <2>2. plan[s].steps \in Seq(Steps)
    <3>1. plan[s] = NoPlan \/ plan[s] \in Plans
      BY DEF TypeOK
    <3>2. CASE plan[s] = NoPlan
      BY <3>2 DEF NoPlan
    <3>3. CASE plan[s] \in Plans
      BY <3>3, PlanAssumption
    <3>. QED
      BY <3>1, <3>2, <3>3
  <2>3. \A i \in 1..Len(plan[s].steps) : i \in 1..(index[s] - 1)
    BY <2>1, <2>2 DEF HasStep, TypeOK
  <2>. QED
    BY <2>1, <2>3
<1>. QED
  BY <1>1, <1>2, <1>3, TypeCorrect, PTL DEF Spec
-----------------------------------------------------------------------------
(* The order of the receipts of a run.                                     *)

\* Of two receipts of one run the earlier is VERIFIED and of an earlier step.
Ordered(s) ==
  \A j, k \in 1..Len(ledger[s]) :
    j < k /\ ledger[s][j].run = ledger[s][k].run
      => ledger[s][j].result = "VERIFIED" /\ ledger[s][j].index < ledger[s][k].index

\* A run in its loop has receipts of the steps behind it only.
Behind(s) ==
  pc[s] \in InRun =>
    \A k \in 1..Len(ledger[s]) :
      ledger[s][k].run = runs[s] => ledger[s][k].index < index[s]

OrderInv == \A s \in Sessions : Ordered(s) /\ Behind(s)

LEMMA OrderKept ==
  ASSUME NEW r \in Sessions, Ordered(r), Behind(r),
         ledger'[r] = ledger[r], runs'[r] = runs[r], index'[r] = index[r],
         pc'[r] \in InRun => pc[r] \in InRun
  PROVE  Ordered(r)' /\ Behind(r)'
BY DEF Ordered, Behind

\* The three uses of append: the new receipt is of the current step, and all
\* that the run has so far is VERIFIED and of earlier ones.
LEMMA AppendOrdered ==
  ASSUME TypeOK, NEW s \in Sessions, pc[s] = "record", EvidenceOf(s), Ordered(s), Behind(s),
         ledger' = [ledger EXCEPT ![s] = Append(@, ReceiptOf(s))], runs'[s] = runs[s]
  PROVE  /\ Ordered(s)'
         /\ \A k \in 1..Len(ledger'[s]) :
              ledger'[s][k].run = runs'[s] => ledger'[s][k].index <= index[s]
<1>1. /\ Len(ledger'[s]) = Len(ledger[s]) + 1 /\ Len(ledger[s]) \in Nat
      /\ \A k \in 1..Len(ledger[s]) : ledger'[s][k] = ledger[s][k]
      /\ ledger'[s][Len(ledger[s]) + 1] = ReceiptOf(s)
      /\ ReceiptOf(s).run = runs[s]
  BY LedgerAppend
<1>2. ReceiptOf(s).index = index[s] /\ index[s] \in Nat
  BY DEF ReceiptOf, TypeOK
<1>3. ASSUME NEW k \in 1..Len(ledger[s]), ledger[s][k].run = runs[s]
      PROVE  /\ ledger[s][k].result = "VERIFIED"
             /\ ledger[s][k].index \in Nat /\ ledger[s][k].index < index[s]
  <2>1. ledger[s][k] \in Receipts
    BY <1>1 DEF TypeOK
  <2>. QED
    BY <2>1, <1>3 DEF EvidenceOf, NoMismatch, Behind, InRun, Receipts
<1>4. ASSUME NEW j \in 1..Len(ledger'[s]), NEW k \in 1..Len(ledger'[s]),
             j < k, ledger'[s][j].run = ledger'[s][k].run
      PROVE  /\ ledger'[s][j].result = "VERIFIED"
             /\ ledger'[s][j].index < ledger'[s][k].index
  <2>1. j \in 1..Len(ledger[s])
    BY <1>1, <1>4
  <2>2. CASE k \in 1..Len(ledger[s])
    BY <1>1, <1>4, <2>1, <2>2 DEF Ordered
  <2>3. CASE k = Len(ledger[s]) + 1
    BY <1>1, <1>2, <1>3, <1>4, <2>1, <2>3
  <2>. QED
    BY <1>1, <2>2, <2>3
<1>5. ASSUME NEW k \in 1..Len(ledger'[s]), ledger'[s][k].run = runs'[s]
      PROVE  ledger'[s][k].index <= index[s]
  <2>1. CASE k \in 1..Len(ledger[s])
    BY <1>1, <1>2, <1>3, <1>5, <2>1
  <2>2. CASE k = Len(ledger[s]) + 1
    BY <1>1, <1>2, <2>2
  <2>. QED
    BY <1>1, <2>1, <2>2
<1>. QED
  BY <1>4, <1>5 DEF Ordered

LEMMA OrderRecords ==
  ASSUME TypeOK, EvidenceInv, OrderInv, NEW s \in Sessions,
         RecordVerified(s) \/ RecordMismatch(s) \/ EnqueueRaises(s)
  PROVE  Ordered(s)' /\ Behind(s)'
<1>1. /\ pc[s] = "record" /\ runs' = runs /\ index[s] \in Nat
      /\ ledger' = [ledger EXCEPT ![s] = Append(@, ReceiptOf(s))]
      /\ pc'[s] \notin InRun \/ index'[s] = index[s] + 1
  BY DEF RecordVerified, RecordMismatch, EnqueueRaises, AppendReceipt, Return, InRun, TypeOK
<1>2. EvidenceOf(s) /\ Ordered(s) /\ Behind(s)
  BY DEF EvidenceInv, OrderInv
<1>3. /\ Ordered(s)'
      /\ \A k \in 1..Len(ledger'[s]) :
           ledger'[s][k].run = runs'[s] => ledger'[s][k].index <= index[s]
  BY <1>1, <1>2, AppendOrdered
<1>4. \A k \in 1..Len(ledger'[s]) : ledger'[s][k].index \in Nat
  <2>1. ledger'[s] \in Seq(Receipts)
    BY <1>1, ReceiptTyping DEF TypeOK
  <2>2. \A k \in 1..Len(ledger'[s]) : ledger'[s][k] \in Receipts
    BY <2>1
  <2>. QED
    BY <2>2 DEF Receipts
<1>5. ASSUME pc'[s] \in InRun, NEW k \in 1..Len(ledger'[s]), ledger'[s][k].run = runs'[s]
      PROVE  ledger'[s][k].index < index'[s]
  BY <1>1, <1>3, <1>4, <1>5
<1>. QED
  BY <1>3, <1>5 DEF Behind

LEMMA OrderStep ==
  ASSUME TypeOK, EvidenceInv, OrderInv, [Next]_vars
  PROVE  OrderInv'
<1>1. ASSUME NEW s \in Sessions,
             \/ \E p \in Plans, fresh \in BOOLEAN : StartRun(s, p, fresh)
             \/ RunnerStep(s)
             \/ Crash(s)
      PROVE  OrderInv'
  <2>1. ASSUME NEW r \in Sessions \ {s} PROVE Ordered(r)' /\ Behind(r)'
    BY <1>1, <2>1, OthersSame, OrderKept DEF OrderInv, Same
  <2>2. ASSUME NEW p \in Plans, NEW fresh \in BOOLEAN, StartRun(s, p, fresh)
        PROVE  Ordered(s)' /\ Behind(s)'
    <3>1. ledger' = ledger /\ runs'[s] = runs[s] + 1 /\ runs[s] \in Nat
      BY <2>2 DEF StartRun, TypeOK
    <3>2. \A k \in 1..Len(ledger[s]) :
            ledger[s][k].run \in Nat /\ ledger[s][k].run <= runs[s]
      <4>1. \A k \in 1..Len(ledger[s]) : ledger[s][k] \in Receipts
        BY DEF TypeOK
      <4>. QED
        BY <4>1 DEF EvidenceInv, EvidenceOf, Receipts
    <3>3. \A k \in 1..Len(ledger'[s]) : ledger'[s][k].run # runs'[s]
      BY <3>1, <3>2
    <3>. QED
      BY <3>1, <3>3 DEF OrderInv, Ordered, Behind
  <2>3. ASSUME \/ Execute(s) \/ ToolRaises(s) \/ Check(s) \/ CheckRaises(s)
               \/ Finish(s) \/ Gate(s)
        PROVE  Ordered(s)' /\ Behind(s)'
    <3>1. /\ ledger' = ledger /\ runs' = runs /\ index' = index
          /\ pc'[s] \in InRun => pc[s] \in InRun
      BY <2>3 DEF Execute, RunStep, Block, Return, ToolRaises, Check, CheckRaises, Finish,
                  Gate, InRun, TypeOK
    <3>. QED
      BY <3>1, OrderKept DEF OrderInv
  <2>4. ASSUME RecordVerified(s) \/ RecordMismatch(s) \/ EnqueueRaises(s)
        PROVE  Ordered(s)' /\ Behind(s)'
    BY <2>4, OrderRecords
  <2>5. ASSUME Crash(s) PROVE Ordered(s)' /\ Behind(s)'
    BY <2>5 DEF Crash, Ordered, Behind, InRun, TypeOK
  <2>. QED
    BY <1>1, <2>1, <2>2, <2>3, <2>4, <2>5 DEF OrderInv, RunnerStep
<1>2. ASSUME NEW q \in Requests, Rollback(q) PROVE OrderInv'
  BY <1>2, OrderKept DEF Rollback, OrderInv
<1>3. CASE UNCHANGED vars
  BY <1>3, OrderKept DEF vars, OrderInv
<1>. QED
  BY <1>1, <1>2, <1>3 DEF Next, Quiescent

\* A mismatch is the last receipt of its run (NothingAfterMismatch).
THEOREM MismatchEndsItsRun == Spec => []NothingAfterMismatch
<1>1. Init => EvidenceInv /\ OrderInv
  BY DEF Init, EvidenceInv, EvidenceOf, NoMismatch, NoOutcome, OrderInv, Ordered, Behind, InRun
<1>2. TypeOK /\ EvidenceInv /\ OrderInv /\ [Next]_vars => EvidenceInv' /\ OrderInv'
  BY EvidenceStep, OrderStep
<1>3. OrderInv => NothingAfterMismatch
  BY DEF OrderInv, Ordered, NothingAfterMismatch
<1>. QED
  BY <1>1, <1>2, <1>3, TypeCorrect, PTL DEF Spec
-----------------------------------------------------------------------------
(* The pipeline implements EvidenceGate.                                   *)

\* The gate reports once: what is reported belongs to a run that is gated.
ReportedOnce == \A s \in Sessions : pc[s] # "gated" => final[s] = "NONE"

GateInv == TypeOK /\ ClaimInv /\ EvidenceInv /\ ReportedOnce

LEMMA ReportedOnceStep ==
  ASSUME TypeOK, ReportedOnce, [Next]_vars
  PROVE  ReportedOnce'
<1>1. ASSUME NEW s \in Sessions,
             \/ \E p \in Plans, fresh \in BOOLEAN : StartRun(s, p, fresh)
             \/ RunnerStep(s)
             \/ Crash(s)
      PROVE  ReportedOnce'
  <2>1. \A r \in Sessions \ {s} : Same(r)
    BY <1>1, OthersSame
  <2>2. pc'[s] # "gated" => final'[s] = "NONE"
    <3>1. CASE (\E p \in Plans, fresh \in BOOLEAN : StartRun(s, p, fresh)) \/ Crash(s)
      BY <3>1 DEF StartRun, Crash, TypeOK
    <3>2. CASE RunnerStep(s)
      BY <3>2 DEF RunnerStep, Execute, RunStep, Block, Return, ToolRaises, Check, CheckRaises,
                  RecordVerified, RecordMismatch, AppendReceipt, EnqueueRaises, Finish, Gate,
                  ReportedOnce, TypeOK
    <3>. QED
      BY <1>1, <3>1, <3>2
  <2>. QED
    BY <2>1, <2>2 DEF ReportedOnce, Same
<1>2. ASSUME NEW q \in Requests, Rollback(q) PROVE ReportedOnce'
  BY <1>2 DEF Rollback, ReportedOnce
<1>3. CASE UNCHANGED vars
  BY <1>3 DEF vars, ReportedOnce
<1>. QED
  BY <1>1, <1>2, <1>3 DEF Next, Quiescent

LEMMA GateInvariant == Spec => []GateInv
<1>1. Init => GateInv
  BY InitTypeOK
  DEF Init, GateInv, ClaimInv, ClaimsOf, EvidenceInv, EvidenceOf, NoMismatch, NoOutcome,
      ReportedOnce
<1>2. GateInv /\ [Next]_vars => GateInv'
  BY StepTypeOK, ClaimStep, EvidenceStep, ReportedOnceStep DEF GateInv
<1>. QED
  BY <1>1, <1>2, PTL DEF Spec

\* The rows of the database are all that a fact rests on.
LEMMA FactsOfRows ==
  ASSUME UNCHANGED records
  PROVE  TrueFacts' = TrueFacts
BY DEF records, TrueFacts, VerdictOf, CheckRefundExists

\* Steps that touch neither a plan nor a report change the truth at most.
LEMMA LearnStep ==
  ASSUME TypeOK, [Next]_vars,
         \A r \in Sessions : Goal(r)' = Goal(r) /\ Reported(r)' = Reported(r)
  PROVE  [Abstract!Next]_(Abstract!vars)
<1>1. TrueFacts \subseteq TrueFacts' /\ TrueFacts' \subseteq PlanFacts
  BY FactsGrow DEF TrueFacts
<1>2. /\ [r \in Sessions |-> Goal(r)]' = [r \in Sessions |-> Goal(r)]
      /\ [r \in Sessions |-> Reported(r)]' = [r \in Sessions |-> Reported(r)]
  OBVIOUS
<1>. QED
  BY <1>1, <1>2 DEF Abstract!Next, Abstract!Learn

LEMMA BeginStep ==
  ASSUME TypeOK, TypeOK', NEW s \in Sessions,
         (\E p \in Plans, fresh \in BOOLEAN : StartRun(s, p, fresh)) \/ Crash(s)
  PROVE  Abstract!Begin(s)
<1>1. UNCHANGED records /\ final'[s] = "NONE"
  BY DEF StartRun, Crash, records, TypeOK
<1>2. \A r \in Sessions \ {s} : Same(r)
  BY OthersSame
<1>3. /\ Goal(s)' \subseteq PlanFacts /\ Reported(s)' = "open"
      /\ \A r \in Sessions \ {s} : Goal(r)' = Goal(r) /\ Reported(r)' = Reported(r)
  <2>1. Goal(s)' \subseteq PlanFacts
    BY DEF TypeOK, Goal, PlanFacts
  <2>. QED
    BY <1>1, <1>2, <2>1 DEF Same, Goal, Reported
<1>4. TrueFacts' = TrueFacts
  BY <1>1, FactsOfRows
<1>. QED
  BY <1>3, <1>4 DEF Abstract!Begin

LEMMA GateStep ==
  ASSUME GateInv, NEW s \in Sessions, Gate(s)
  PROVE  Abstract!Complete(s) \/ Abstract!GiveUp(s)
<1>1. /\ UNCHANGED records /\ plan' = plan /\ pc[s] = "returned"
      /\ pc' = [pc EXCEPT ![s] = "gated"]
      /\ final' = [final EXCEPT ![s] = ComputeStatus(s)]
  BY DEF Gate, records
<1>2. TrueFacts' = TrueFacts
  BY <1>1, FactsOfRows
<1>3. \A r \in Sessions : Goal(r)' = Goal(r)
  BY <1>1 DEF Goal, GateInv, TypeOK
<1>4. ComputeStatus(s) \in {"COMPLETE", "PARTIAL", "FAILED", "ESCALATED"}
  BY DEF ComputeStatus
<1>5. /\ Reported(s) = "open" /\ Reported(s)' = ComputeStatus(s)
      /\ \A r \in Sessions \ {s} : Reported(r)' = Reported(r)
  BY <1>1, <1>4 DEF Reported, GateInv, ReportedOnce, TypeOK
<1>6. ASSUME ComputeStatus(s) = "COMPLETE" PROVE Goal(s) \subseteq TrueFacts
  <2>1. outcome[s].status = "COMPLETE"
    BY <1>6 DEF ComputeStatus
  <2>2. ~HasStep(s) /\ plan[s] \in Plans
    BY <1>1, <2>1 DEF GateInv, EvidenceInv, EvidenceOf, TypeOK
  <2>3. Len(plan[s].steps) \in Nat
    BY <2>2, PlanAssumption
  <2>4. \A i \in 1..Len(plan[s].steps) : i \in 1..(index[s] - 1)
    BY <2>2, <2>3 DEF HasStep, GateInv, TypeOK
  <2>5. \A i \in 1..Len(plan[s].steps) : FactAt(s, i) \in TrueFacts
    BY <2>4 DEF GateInv, ClaimInv, ClaimsOf
  <2>. QED
    BY <1>1, <2>5 DEF Goal, FactsOf, FactAt, Context
<1>7. [r \in Sessions |-> Reported(r)]'
        = [[r \in Sessions |-> Reported(r)] EXCEPT ![s] = ComputeStatus(s)]
  BY <1>5
<1>8. [r \in Sessions |-> Goal(r)]' = [r \in Sessions |-> Goal(r)]
  BY <1>3
<1>9. CASE ComputeStatus(s) = "COMPLETE"
  BY <1>2, <1>5, <1>6, <1>7, <1>8, <1>9 DEF Abstract!Complete
<1>10. CASE ComputeStatus(s) # "COMPLETE"
  BY <1>2, <1>4, <1>5, <1>7, <1>8, <1>10 DEF Abstract!GiveUp
<1>. QED
  BY <1>9, <1>10

LEMMA RunnerImplements ==
  ASSUME GateInv, NEW s \in Sessions, RunnerStep(s), ~Gate(s)
  PROVE  [Abstract!Next]_(Abstract!vars)
<1>1. TypeOK /\ [Next]_vars
  BY DEF GateInv, Next
<1>2. plan' = plan /\ final' = final /\ pc[s] # "idle" /\ pc'[s] # "idle"
  BY <1>1 DEF RunnerStep, Execute, RunStep, Block, Return, ToolRaises, Check, CheckRaises,
              RecordVerified, RecordMismatch, AppendReceipt, EnqueueRaises, Finish, TypeOK
<1>3. \A r \in Sessions \ {s} : pc'[r] = pc[r]
  BY <1>1, OthersSame DEF Same
<1>4. \A r \in Sessions : Goal(r)' = Goal(r) /\ Reported(r)' = Reported(r)
  BY <1>2, <1>3 DEF Goal, Reported
<1>. QED
  BY <1>1, <1>4, LearnStep

\* The pipeline implements the abstract gate (ImplementsGate): COMPLETE is
\* reported only while all postconditions of the plan are true of the database,
\* and what is true there, in the sense of some plan, stays true.
THEOREM PipelineImplementsGate == Spec => ImplementsGate
<1>1. Init => Abstract!Init
  <2>. SUFFICES ASSUME Init PROVE Abstract!Init
    OBVIOUS
  <2>1. TrueFacts = {}
    BY DEF Init, TrueFacts, VerdictOf, CheckRefundExists
  <2>2. \A s \in Sessions : Goal(s) = {} /\ Reported(s) = "open"
    BY DEF Init, Goal, Reported
  <2>. QED
    BY <2>1, <2>2 DEF Abstract!Init
<1>2. GateInv /\ GateInv' /\ [Next]_vars => [Abstract!Next]_(Abstract!vars)
  <2>. SUFFICES ASSUME GateInv, GateInv', [Next]_vars
                PROVE  [Abstract!Next]_(Abstract!vars)
    OBVIOUS
  <2>1. ASSUME NEW s \in Sessions,
               (\E p \in Plans, fresh \in BOOLEAN : StartRun(s, p, fresh)) \/ Crash(s)
        PROVE  [Abstract!Next]_(Abstract!vars)
    BY <2>1, BeginStep DEF GateInv, Abstract!Next
  <2>2. ASSUME NEW s \in Sessions, RunnerStep(s)
        PROVE  [Abstract!Next]_(Abstract!vars)
    BY <2>2, GateStep, RunnerImplements DEF Abstract!Next
  <2>3. ASSUME NEW q \in Requests, Rollback(q)
        PROVE  [Abstract!Next]_(Abstract!vars)
    BY <2>3, LearnStep DEF GateInv, Rollback, Goal, Reported
  <2>4. CASE UNCHANGED vars
    BY <2>4, LearnStep DEF GateInv, vars, Goal, Reported
  <2>. QED
    BY <2>1, <2>2, <2>3, <2>4 DEF Next, Quiescent
<1>. QED
  BY <1>1, <1>2, GateInvariant, PTL DEF Spec, ImplementsGate, Abstract!Spec

-----------------------------------------------------------------------------
(* The report agrees with the gate.                                        *)

AllVerified(s) == \A k \in 1..Len(evidence[s]) : evidence[s][k].result = "VERIFIED"
HasReceipt(s, id) ==
  \E k \in 1..Len(evidence[s]) :
    evidence[s][k].step = id /\ evidence[s][k].result = "VERIFIED"

\* Each claim has its receipt, a run's log has no mismatch before the run
\* ends, a refused run names its step, and the gate trusts a complete one.
HonestOf(s) ==
  /\ \A i \in 1..Len(completed[s]) : HasReceipt(s, completed[s][i])
  /\ pc[s] \in InRun \/ outcome[s].status = "COMPLETE" => AllVerified(s)
  /\ pc[s] \in {"returned", "gated"} => outcome[s].status = "COMPLETE" \/ outcome[s].failed # {}
  /\ pc[s] = "gated" /\ outcome[s].status = "COMPLETE" => final[s] = "COMPLETE"

HonestInv == \A s \in Sessions : HonestOf(s)

\* A step that writes no evidence and ends no run.
LEMMA HonestKept ==
  ASSUME NEW r \in Sessions, HonestOf(r),
         completed'[r] = completed[r], evidence'[r] = evidence[r],
         outcome'[r] = outcome[r], final'[r] = final[r],
         pc'[r] \in InRun => pc[r] \in InRun,
         pc'[r] \in {"returned", "gated"} => pc'[r] = pc[r]
  PROVE  HonestOf(r)'
<1>1. \A id : HasReceipt(r, id) <=> HasReceipt(r, id)'
  BY DEF HasReceipt
<1>2. AllVerified(r) <=> AllVerified(r)'
  BY DEF AllVerified
<1>3. (\A i \in 1..Len(completed[r]) : HasReceipt(r, completed[r][i]))'
  BY <1>1 DEF HonestOf
<1>. QED
  BY <1>2, <1>3 DEF HonestOf

\* What the runner's own log becomes with a receipt.
LEMMA LogAppend ==
  ASSUME TypeOK, NEW s \in Sessions, pc[s] = "record",
         evidence' = [evidence EXCEPT ![s] = Append(@, ReceiptOf(s))]
  PROVE  /\ \A id : HasReceipt(s, id) => HasReceipt(s, id)'
         /\ verdict[s] = "match" => \A id : id = CurrentStep(s).id => HasReceipt(s, id)'
         /\ verdict[s] = "match" /\ AllVerified(s) => AllVerified(s)'
<1>1. /\ evidence[s] \in Seq(Receipts) /\ ReceiptOf(s) \in Receipts
      /\ evidence'[s] = Append(evidence[s], ReceiptOf(s))
  BY ReceiptTyping DEF TypeOK
<1>2. /\ Len(evidence'[s]) = Len(evidence[s]) + 1 /\ Len(evidence[s]) \in Nat
      /\ \A k \in 1..Len(evidence[s]) : evidence'[s][k] = evidence[s][k]
      /\ evidence'[s][Len(evidence[s]) + 1] = ReceiptOf(s)
  BY <1>1
<1>3. /\ ReceiptOf(s).step = CurrentStep(s).id
      /\ verdict[s] = "match" => ReceiptOf(s).result = "VERIFIED"
  BY DEF ReceiptOf
<1>4. ASSUME NEW id, HasReceipt(s, id) PROVE HasReceipt(s, id)'
  BY <1>2, <1>4 DEF HasReceipt
<1>5. ASSUME verdict[s] = "match", NEW id, id = CurrentStep(s).id
      PROVE  HasReceipt(s, id)'
  BY <1>2, <1>3, <1>5 DEF HasReceipt
<1>6. verdict[s] = "match" /\ AllVerified(s) => AllVerified(s)'
  BY <1>2, <1>3 DEF AllVerified
<1>. QED
  BY <1>4, <1>5, <1>6

LEMMA ReturnGives ==
  ASSUME TypeOK, NEW s \in Sessions, NEW status, NEW failed, NEW failure,
         Return(s, status, failed, failure)
  PROVE  /\ pc'[s] = "returned" /\ outcome'[s].status = status
         /\ outcome'[s].failed = failed /\ outcome'[s].failure = failure
BY DEF Return, TypeOK

LEMMA HonestRecords ==
  ASSUME TypeOK, ClaimInv, EvidenceInv, HonestInv, NEW s \in Sessions,
         RecordVerified(s) \/ RecordMismatch(s)
  PROVE  HonestOf(s)'
<1>1. /\ pc[s] = "record"
      /\ evidence' = [evidence EXCEPT ![s] = Append(@, ReceiptOf(s))]
      /\ HonestOf(s) /\ outcome[s].status # "COMPLETE"
  BY DEF RecordVerified, RecordMismatch, AppendReceipt, HonestInv, EvidenceInv, EvidenceOf
<1>2. \A id : HasReceipt(s, id) => HasReceipt(s, id)'
  BY <1>1, LogAppend
<1>3. CASE RecordVerified(s)
  <2>1. /\ verdict[s] = "match" /\ pc'[s] = "loop" /\ outcome' = outcome
        /\ completed'[s] = Append(completed[s], CurrentStep(s).id)
        /\ completed[s] \in Seq(StepIds) /\ CurrentStep(s).id \in StepIds
    BY <1>3, CurrentStepTyping DEF RecordVerified, TypeOK
  <2>2. AllVerified(s)'
    BY <1>1, <2>1, LogAppend DEF HonestOf, InRun
  <2>3. \A i \in 1..Len(completed'[s]) :
          \/ i \in 1..Len(completed[s]) /\ completed'[s][i] = completed[s][i]
          \/ completed'[s][i] = CurrentStep(s).id
    BY <2>1
  <2>4. \A id : id = CurrentStep(s).id => HasReceipt(s, id)'
    BY <1>1, <2>1, LogAppend
  <2>5. (\A i \in 1..Len(completed[s]) : HasReceipt(s, completed[s][i]))'
    BY <1>1, <1>2, <2>3, <2>4 DEF HonestOf
  <2>. QED
    BY <1>1, <2>1, <2>2, <2>5 DEF HonestOf
<1>4. CASE RecordMismatch(s)
  <2>1. /\ completed' = completed /\ pc'[s] = "returned"
        /\ outcome'[s].status \in {"ESCALATED", "PARTIAL"}
        /\ outcome'[s].failed = {CurrentStep(s).id}
    BY <1>4 DEF RecordMismatch, Return, TypeOK
  <2>2. (\A i \in 1..Len(completed[s]) : HasReceipt(s, completed[s][i]))'
    BY <1>1, <1>2, <2>1 DEF HonestOf
  <2>. QED
    BY <2>1, <2>2 DEF HonestOf, InRun
<1>. QED
  BY <1>3, <1>4

\* A complete runner's result passes the gate.
LEMMA GateTrusts ==
  ASSUME TypeOK, ClaimInv, EvidenceInv, HonestInv, NEW s \in Sessions,
         pc[s] = "returned", outcome[s].status = "COMPLETE"
  PROVE  ComputeStatus(s) = "COMPLETE"
<1>1. ~HasStep(s) /\ AllVerified(s) /\ Len(completed[s]) = index[s] - 1
  BY DEF EvidenceInv, EvidenceOf, HonestInv, HonestOf, ClaimInv, ClaimsOf
<1>2. plan[s] \in Plans /\ index[s] \in Nat \ {0} /\ index[s] <= Len(plan[s].steps) + 1
  BY DEF TypeOK
<1>3. Len(plan[s].steps) \in Nat
  BY <1>2, PlanAssumption
<1>4. Len(completed[s]) = Len(plan[s].steps)
  BY <1>1, <1>2, <1>3 DEF HasStep
<1>5. Len(plan[s].steps) = ExpectedSteps(s)
  <2>1. CASE Len(plan[s].steps) = 0
    <3>1. StepIdsOf(plan[s]) = {}
      BY <2>1 DEF StepIdsOf
    <3>2. DOMAIN states[s] = StepIdsOf(plan[s])
      BY DEF TypeOK
    <3>. QED
      BY <2>1, <3>1, <3>2, FS_EmptySet DEF ExpectedSteps
  <2>2. CASE Len(plan[s].steps) # 0
    BY <2>2 DEF ExpectedSteps
  <2>. QED
    BY <2>1, <2>2
<1>. QED
  BY <1>1, <1>4, <1>5 DEF ComputeStatus, AllVerified

LEMMA HonestReturns ==
  ASSUME TypeOK, ClaimInv, EvidenceInv, HonestInv, NEW s \in Sessions,
         Execute(s) \/ Finish(s) \/ Gate(s)
  PROVE  HonestOf(s)'
<1>1. /\ completed' = completed /\ evidence' = evidence /\ HonestOf(s)
      /\ pc[s] = "loop" => outcome[s].status # "COMPLETE"
  BY DEF Execute, Finish, Gate, HonestInv, EvidenceInv, EvidenceOf
<1>2. (\A id : HasReceipt(s, id) => HasReceipt(s, id)') /\ (AllVerified(s) => AllVerified(s)')
  BY <1>1 DEF HasReceipt, AllVerified
<1>3. (\A i \in 1..Len(completed[s]) : HasReceipt(s, completed[s][i]))'
  BY <1>1, <1>2 DEF HonestOf
<1>4. CASE Execute(s)
  <2>1. /\ pc[s] = "loop"
        /\ \/ pc'[s] = "verify" /\ outcome' = outcome
           \/ /\ pc'[s] = "returned" /\ outcome'[s].status \in {"FAILED", "PARTIAL"}
              /\ outcome'[s].failed # {}
    <3>1. /\ pc[s] = "loop"
          /\ \/ Return(s, "FAILED", {CurrentStep(s).id}, "DUPLICATE")
             \/ Return(s, "PARTIAL", {CurrentStep(s).id}, "BLOCKED")
             \/ pc' = [pc EXCEPT ![s] = "verify"] /\ outcome' = outcome
      BY <1>4 DEF Execute, RunStep, Block
    <3>2. {CurrentStep(s).id} # {}
      OBVIOUS
    <3>3. CASE Return(s, "FAILED", {CurrentStep(s).id}, "DUPLICATE")
      BY <3>1, <3>2, <3>3, ReturnGives
    <3>4. CASE Return(s, "PARTIAL", {CurrentStep(s).id}, "BLOCKED")
      BY <3>1, <3>2, <3>4, ReturnGives
    <3>. QED
      BY <3>1, <3>3, <3>4 DEF TypeOK
  <2>. QED
    BY <1>1, <1>2, <1>3, <2>1 DEF HonestOf, InRun
<1>5. CASE Finish(s)
  <2>1. pc[s] = "loop" /\ pc'[s] = "returned" /\ outcome'[s].status = "COMPLETE"
    BY <1>5 DEF Finish, Return, TypeOK
  <2>. QED
    BY <1>1, <1>2, <1>3, <2>1 DEF HonestOf, InRun
<1>6. CASE Gate(s)
  <2>1. /\ pc[s] = "returned" /\ pc'[s] = "gated" /\ outcome' = outcome
        /\ final'[s] = ComputeStatus(s)
    BY <1>6 DEF Gate, TypeOK
  <2>. QED
    BY <1>1, <1>2, <1>3, <2>1, GateTrusts DEF HonestOf, InRun
<1>. QED
  BY <1>4, <1>5, <1>6

LEMMA HonestStep ==
  ASSUME TypeOK, ClaimInv, EvidenceInv, HonestInv, [Next]_vars
  PROVE  HonestInv'
<1>1. ASSUME NEW s \in Sessions,
             \/ \E p \in Plans, fresh \in BOOLEAN : StartRun(s, p, fresh)
             \/ RunnerStep(s)
             \/ Crash(s)
      PROVE  HonestInv'
  <2>1. ASSUME NEW r \in Sessions \ {s} PROVE HonestOf(r)'
    BY <1>1, <2>1, OthersSame, HonestKept DEF HonestInv, Same
  <2>2. ASSUME (\E p \in Plans, fresh \in BOOLEAN : StartRun(s, p, fresh)) \/ Crash(s)
        PROVE  HonestOf(s)'
    <3>1. /\ completed'[s] = <<>> /\ evidence'[s] = <<>> /\ outcome'[s] = NoOutcome
          /\ pc'[s] \notin {"returned", "gated"}
      BY <2>2 DEF StartRun, Crash, TypeOK
    <3>. QED
      BY <3>1 DEF HonestOf, AllVerified, NoOutcome
  <2>3. ASSUME ToolRaises(s) \/ Check(s) \/ CheckRaises(s) \/ EnqueueRaises(s)
        PROVE  HonestOf(s)'
    <3>1. /\ completed' = completed /\ evidence' = evidence /\ outcome' = outcome
          /\ final' = final /\ pc[s] \in InRun /\ pc'[s] \notin {"returned", "gated"}
      BY <2>3 DEF ToolRaises, Check, CheckRaises, EnqueueRaises, InRun, TypeOK
    <3>. QED
      BY <3>1, HonestKept DEF HonestInv
  <2>4. HonestOf(s)'
    BY <1>1, <2>2, <2>3, HonestRecords, HonestReturns DEF RunnerStep
  <2>. QED
    BY <2>1, <2>4 DEF HonestInv
<1>2. ASSUME NEW q \in Requests, Rollback(q) PROVE HonestInv'
  BY <1>2, HonestKept DEF Rollback, HonestInv
<1>3. CASE UNCHANGED vars
  BY <1>3, HonestKept DEF vars, HonestInv
<1>. QED
  BY <1>1, <1>2, <1>3 DEF Next, Quiescent

\* Each claim of a report has a receipt of its step, and a run that is not
\* COMPLETE names an unproven step (ReportIsHonest).
THEOREM ReportsAreHonest == Spec => []ReportIsHonest
<1>1. Init => HonestInv
  BY DEF Init, HonestInv, HonestOf, AllVerified, InRun, NoOutcome
<1>2. GateInv /\ HonestInv /\ [Next]_vars => HonestInv'
  BY HonestStep DEF GateInv
<1>3. GateInv /\ HonestInv => ReportIsHonest
  <2>. SUFFICES ASSUME GateInv, HonestInv, NEW s \in Sessions, final[s] # "NONE"
                PROVE  /\ \A i \in 1..Len(completed[s]) : HasReceipt(s, completed[s][i])
                       /\ final[s] # "COMPLETE" => UnprovenClaims(s) # {}
    BY DEF ReportIsHonest, HasReceipt
  <2>1. pc[s] = "gated"
    BY DEF GateInv, ReportedOnce
  <2>. QED
    BY <2>1 DEF HonestInv, HonestOf, UnprovenClaims
<1>. QED
  BY <1>1, <1>2, <1>3, GateInvariant, PTL DEF Spec

-----------------------------------------------------------------------------
(* What a planner's plan adds: EmailOnlyAfterRefund and NoFalseReject are   *)
(* about plans, and hold of all those with these two properties.            *)

\* The checker of a step is that of its tool, and no step id is used twice.
CheckerOf(type) ==
  CASE type = "check_eligibility" -> "eligibility"
    [] type = "create_refund" -> "refund_exists"
    [] type = "send_email" -> "email_outbox"
    [] OTHER -> "other"

WellPlanned(p) ==
  /\ \A i \in 1..Len(p.steps) : /\ p.steps[i].type # "other"
                                /\ p.steps[i].checker = CheckerOf(p.steps[i].type)
  /\ \A i, j \in 1..Len(p.steps) : p.steps[i].id = p.steps[j].id => i = j

\* A step that sends an email comes after one that checks the refund.
RefundFirst(p) ==
  \A j \in 1..Len(p.steps) : p.steps[j].type = "send_email" =>
    \E i \in 1..(j - 1) : p.steps[i].checker = "refund_exists"

\* The deterministic planner's plan has both.
LEMMA PlannerIsWellPlanned ==
  ASSUME NEW ctx
  PROVE  WellPlanned(RefundPlan(ctx)) /\ RefundFirst(RefundPlan(ctx))
<1>. DEFINE steps == RefundPlan(ctx).steps
<1>1. /\ Len(steps) = 3
      /\ steps[1].id = "S1" /\ steps[1].type = "check_eligibility"
      /\ steps[1].checker = "eligibility"
      /\ steps[2].id = "S2" /\ steps[2].type = "create_refund"
      /\ steps[2].checker = "refund_exists"
      /\ steps[3].id = "S3" /\ steps[3].type = "send_email"
      /\ steps[3].checker = "email_outbox"
  BY DEF RefundPlan
<1>. HIDE DEF steps
<1>2. \A i \in 1..Len(steps) : i = 1 \/ i = 2 \/ i = 3
  BY <1>1
<1>3. WellPlanned(RefundPlan(ctx))
  BY <1>1, <1>2 DEF WellPlanned, CheckerOf, steps
<1>4. 2 \in 1..(3 - 1)
  OBVIOUS
<1>5. RefundFirst(RefundPlan(ctx))
  BY <1>1, <1>2, <1>4 DEF RefundFirst, steps
<1>. QED
  BY <1>3, <1>5

\* With such plans every email is about a refund that is in the database
\* (EmailOnlyAfterRefund): the refund was verified before the email's step, and
\* its row is never taken away.
THEOREM EmailsFollowRefunds ==
  ASSUME \A p \in Plans : RefundFirst(p)
  PROVE  Spec => []EmailOnlyAfterRefund
<1>1. Init => EmailOnlyAfterRefund
  BY DEF Init, EmailOnlyAfterRefund
<1>2. GateInv /\ EmailOnlyAfterRefund /\ [Next]_vars => EmailOnlyAfterRefund'
  <2>. SUFFICES ASSUME GateInv, EmailOnlyAfterRefund, [Next]_vars, NEW q \in outbox'
                PROVE  \E row \in refunds' : row.request = q
    BY DEF EmailOnlyAfterRefund
  <2>1. CASE q \in outbox
    BY <2>1, RowsKept DEF EmailOnlyAfterRefund, GateInv
  <2>2. CASE q \notin outbox
    <3>1. PICK s \in Sessions : Execute(s) /\ q \in outbox'
      <4>1. CASE UNCHANGED vars
        BY <2>2, <4>1 DEF vars
      <4>. QED
        BY <2>2, <4>1, ZenonT(30)
        DEF Next, Quiescent, StartRun, RunnerStep, ToolRaises, Check, CheckRaises,
           RecordVerified, RecordMismatch, AppendReceipt, EnqueueRaises, Finish, Gate, Crash,
           Rollback, UpdateRefundStatus
    <3>2. CurrentStep(s).type = "send_email" /\ QueueEmail(Context(s)) /\ HasStep(s)
      BY <2>2, <3>1 DEF Execute, RunStep, Block, CallTool, CheckEligibility, CreateRefund,
                        GhostSuccess, records
    <3>3. plan[s] \in Plans /\ index[s] \in 1..Len(plan[s].steps)
      BY <3>1, <3>2, CurrentStepTyping DEF Execute, GateInv
    <3>4. PICK i \in 1..(index[s] - 1) : plan[s].steps[i].checker = "refund_exists"
      BY <3>2, <3>3 DEF RefundFirst, CurrentStep
    <3>5. VerdictOf("refund_exists", FactAt(s, i)) = "match" /\ FactAt(s, i).request = q
      BY <2>2, <3>2, <3>4 DEF GateInv, ClaimInv, ClaimsOf, TrueFacts, FactAt, Fact, QueueEmail
    <3>6. \E row \in refunds : row.request = q
      BY <3>5 DEF VerdictOf, CheckRefundExists
    <3>. QED
      BY <3>2, <3>6 DEF QueueEmail
  <2>. QED
    BY <2>1, <2>2
<1>. QED
  BY <1>1, <1>2, GateInvariant, PTL DEF Spec

-----------------------------------------------------------------------------
(* An honest run is not refused.                                           *)

\* What the tool of a step leaves in the tables.
Done(type, ctx) ==
  CASE type = "check_eligibility" ->
         [request |-> ctx.request, customer |-> ctx.customer] \in eligibility
    [] type = "create_refund" -> \E row \in refunds : row.request = ctx.request
    [] OTHER -> ctx.request \in outbox

OtherAmount(s) ==
  \E row \in refunds : /\ row.request = Context(s).request
                       /\ ~Close(row.amount, Context(s).amount)

Reason(s) ==
  \/ /\ outcome[s].failure = "DUPLICATE" /\ outcome[s].status = "FAILED"
     /\ CurrentStep(s).key \in seen[s]
  \/ outcome[s].failure = "NO_EFFECT" /\ trace[s] = GhostFields
  \/ outcome[s].failure = "DUPLICATE" /\ OtherAmount(s)

\* A step is taken on verified ones only; between the tool and the verdict the
\* tool's work is in the tables unless the tool lied; and a verdict or a result
\* that is not good has its reason.
RefusalOf(s) ==
  /\ pc[s] \in InRun => UpstreamVerified(s)
  /\ pc[s] \in {"verify", "record"} =>
       /\ CurrentStep(s).key \in seen[s]
       /\ trace[s] = GhostFields \/ Done(CurrentStep(s).type, Context(s))
  /\ pc[s] = "record" =>
       \/ verdict[s] = "match"
       \/ verdict[s] = "absent" /\ trace[s] = GhostFields
       \/ verdict[s] = "different" /\ OtherAmount(s)
  /\ pc[s] \in {"returned", "gated"} /\ outcome[s].status # "COMPLETE" => Reason(s)

RefusalInv == \A s \in Sessions : RefusalOf(s)

LEMMA DoneKept ==
  ASSUME TypeOK, [Next]_vars, NEW r \in Sessions, plan[r] \in Plans,
         plan'[r] = plan[r], index'[r] = index[r]
  PROVE  /\ Done(CurrentStep(r).type, Context(r)) => Done(CurrentStep(r).type, Context(r))'
         /\ OtherAmount(r) => OtherAmount(r)'
<1>. Context(r)' = Context(r) /\ CurrentStep(r)' = CurrentStep(r)
  BY DEF Context, CurrentStep
<1>1. Done(CurrentStep(r).type, Context(r)) => Done(CurrentStep(r).type, Context(r))'
  BY RowsKept DEF Done, Context
<1>2. OtherAmount(r) => OtherAmount(r)'
  BY RowsKept DEF OtherAmount
<1>. QED
  BY <1>1, <1>2

\* A session that a step does not move on keeps its reasons.
LEMMA RefusalKept ==
  ASSUME TypeOK, [Next]_vars, NEW r \in Sessions, RefusalOf(r),
         plan'[r] = plan[r], index'[r] = index[r], states'[r] = states[r],
         seen'[r] = seen[r], trace'[r] = trace[r], verdict'[r] = verdict[r],
         outcome'[r] = outcome[r],
         pc'[r] = pc[r] \/ pc'[r] = "raised" \/ (pc[r] = "returned" /\ pc'[r] = "gated")
  PROVE  RefusalOf(r)'
<1>1. CASE pc[r] \notin InRun \cup {"returned", "gated"}
  BY <1>1 DEF RefusalOf, InRun
<1>2. CASE pc[r] \in InRun \cup {"returned", "gated"}
  <2>1. plan[r] \in Plans
    BY <1>2 DEF TypeOK, InRun
  <2>2. /\ Done(CurrentStep(r).type, Context(r)) => Done(CurrentStep(r).type, Context(r))'
        /\ OtherAmount(r) => OtherAmount(r)'
    BY <2>1, DoneKept
  <2>3. CurrentStep(r)' = CurrentStep(r) /\ (UpstreamVerified(r) => UpstreamVerified(r)')
    BY DEF CurrentStep, UpstreamVerified
  <2>4. Reason(r) => Reason(r)'
    BY <2>2, <2>3 DEF Reason
  <2>. QED
    BY <2>2, <2>3, <2>4 DEF RefusalOf, InRun
<1>. QED
  BY <1>1, <1>2

\* A step's state is its own when ids are distinct.
LEMMA StateOfStep ==
  ASSUME TypeOK, NEW s \in Sessions, pc[s] # "idle", HasStep(s), NEW st, SetState(s, st),
         WellPlanned(plan[s])
  PROVE  /\ \A i \in 1..(index[s] - 1) :
              states'[s][plan[s].steps[i].id] = states[s][plan[s].steps[i].id]
         /\ states'[s][CurrentStep(s).id] = st
<1>1. /\ plan[s].steps \in Seq(Steps) /\ index[s] \in 1..Len(plan[s].steps)
      /\ CurrentStep(s).id \in StepIdsOf(plan[s])
      /\ DOMAIN states = Sessions /\ DOMAIN states[s] = StepIdsOf(plan[s])
  BY CurrentStepTyping DEF TypeOK
<1>2. states'[s] = [states[s] EXCEPT ![CurrentStep(s).id] = st]
  BY <1>1 DEF SetState
<1>3. ASSUME NEW i \in 1..(index[s] - 1)
      PROVE  plan[s].steps[i].id # CurrentStep(s).id /\ plan[s].steps[i].id \in StepIdsOf(plan[s])
  <2>1. i \in 1..Len(plan[s].steps) /\ i # index[s]
    BY <1>1
  <2>. QED
    BY <1>1, <2>1 DEF WellPlanned, CurrentStep, StepIdsOf
<1>. QED
  BY <1>1, <1>2, <1>3

LEMMA ExecuteRefusal ==
  ASSUME TypeOK, RefusalInv, NEW s \in Sessions, Execute(s), WellPlanned(plan[s])
  PROVE  RefusalOf(s)'
<1>1. /\ pc[s] = "loop" /\ HasStep(s) /\ UpstreamVerified(s) /\ RunStep(s)
      /\ plan' = plan /\ index' = index
  BY DEF Execute, RefusalInv, RefusalOf, InRun
<1>2. CurrentStep(s)' = CurrentStep(s) /\ Context(s)' = Context(s)
  BY <1>1 DEF CurrentStep, Context
<1>3. CASE CurrentStep(s).key \in seen[s]
  <2>1. Return(s, "FAILED", {CurrentStep(s).id}, "DUPLICATE")
    BY <1>1, <1>3 DEF RunStep
  <2>2. /\ pc'[s] = "returned" /\ outcome'[s].status = "FAILED"
        /\ outcome'[s].failure = "DUPLICATE"
    BY <2>1, ReturnGives
  <2>3. (CurrentStep(s).key \in seen[s])'
    BY <1>1, <1>2, <1>3 DEF RunStep
  <2>. QED
    BY <2>2, <2>3 DEF RefusalOf, InRun, Reason
<1>4. CASE CurrentStep(s).key \notin seen[s]
  <2>1. /\ SetState(s, "RUNNING") /\ pc'[s] = "verify"
        /\ CurrentStep(s).key \in seen'[s]
    BY <1>1, <1>4 DEF RunStep, TypeOK
  <2>2. UpstreamVerified(s)'
    BY <1>1, <2>1, StateOfStep DEF UpstreamVerified
  <2>3. trace'[s] = GhostFields \/ Done(CurrentStep(s).type, Context(s))'
    <3>1. CASE CallTool(CurrentStep(s).type, Context(s))
      <4>1. CASE CurrentStep(s).type = "check_eligibility" /\ CheckEligibility(Context(s))
        BY <1>2, <4>1 DEF CheckEligibility, Done
      <4>2. CASE CurrentStep(s).type = "create_refund" /\ CreateRefund(Context(s))
        <5>. DEFINE new == [request |-> Context(s).request, order |-> Context(s).order,
                            amount |-> Context(s).amount, status |-> "PENDING"]
        <5>0. \/ new \in refunds'
              \/ refunds' = refunds /\ \E row \in refunds : row.request = Context(s).request
          BY <4>2 DEF CreateRefund
        <5>1. \E row \in refunds' : row.request = Context(s).request
          BY <5>0
        <5>. QED
          BY <1>2, <4>2, <5>1 DEF Done
      <4>3. CASE CurrentStep(s).type = "send_email" /\ QueueEmail(Context(s))
        BY <1>2, <4>3 DEF QueueEmail, Done
      <4>. QED
        BY <3>1, <4>1, <4>2, <4>3 DEF CallTool
    <3>2. CASE trace' = [trace EXCEPT ![s] = GhostFields]
      BY <3>2 DEF TypeOK
    <3>. QED
      BY <1>1, <3>1, <3>2 DEF RunStep
  <2>. QED
    BY <1>2, <2>1, <2>2, <2>3 DEF RefusalOf
<1>. QED
  BY <1>3, <1>4

\* The checker misses only what a tool that lied did not do.
LEMMA CheckRefusal ==
  ASSUME TypeOK, RefusalInv, NEW s \in Sessions, Check(s), WellPlanned(plan[s])
  PROVE  RefusalOf(s)'
<1>1. /\ pc[s] = "verify" /\ pc'[s] = "record" /\ UNCHANGED records
      /\ plan' = plan /\ index' = index /\ states' = states /\ trace' = trace /\ seen' = seen
      /\ verdict'[s] = VerdictOf(CurrentStep(s).checker, Context(s))
  BY DEF Check, records, TypeOK
<1>2. /\ CurrentStep(s)' = CurrentStep(s) /\ Context(s)' = Context(s)
      /\ UpstreamVerified(s) => UpstreamVerified(s)'
  BY <1>1 DEF CurrentStep, Context, UpstreamVerified
<1>3. /\ plan[s] \in Plans /\ index[s] \in 1..Len(plan[s].steps) /\ CurrentStep(s) \in Steps
      /\ Context(s) \in Contexts
  BY <1>1, CurrentStepTyping DEF TypeOK
<1>4. /\ CurrentStep(s).checker = CheckerOf(CurrentStep(s).type)
      /\ CurrentStep(s).type \in {"check_eligibility", "create_refund", "send_email"}
  BY <1>3 DEF WellPlanned, CurrentStep, Steps, StepTypes
<1>5. trace[s] = GhostFields \/ Done(CurrentStep(s).type, Context(s))
  BY <1>1 DEF RefusalInv, RefusalOf
<1>6. \/ verdict'[s] = "match"
      \/ verdict'[s] = "absent" /\ ~Done(CurrentStep(s).type, Context(s))
      \/ verdict'[s] = "different" /\ OtherAmount(s)
  <2>1. CASE CurrentStep(s).type = "create_refund"
    <3>1. verdict'[s] = CheckRefundExists(Context(s))
      BY <1>1, <1>4, <2>1 DEF CheckerOf, VerdictOf
    <3>. QED
      BY <2>1, <3>1 DEF CheckRefundExists, Done, OtherAmount
  <2>2. CASE CurrentStep(s).type # "create_refund"
    BY <1>1, <1>4, <2>2 DEF CheckerOf, VerdictOf, Done
  <2>. QED
    BY <2>1, <2>2
<1>7. /\ Done(CurrentStep(s).type, Context(s)) => Done(CurrentStep(s).type, Context(s))'
      /\ OtherAmount(s) => OtherAmount(s)'
  BY <1>1, <1>2 DEF Done, OtherAmount, records
<1>. QED
  BY <1>1, <1>2, <1>5, <1>6, <1>7 DEF RefusalInv, RefusalOf, InRun

LEMMA RecordRefusal ==
  ASSUME TypeOK, RefusalInv, NEW s \in Sessions, WellPlanned(plan[s]),
         RecordVerified(s) \/ RecordMismatch(s)
  PROVE  RefusalOf(s)'
<1>1. /\ pc[s] = "record" /\ HasStep(s) /\ UpstreamVerified(s) /\ plan' = plan
      /\ UNCHANGED records /\ CurrentStep(s).key \in seen[s]
  BY DEF RecordVerified, RecordMismatch, AppendReceipt, RefusalInv, RefusalOf, InRun, TypeOK,
         records
<1>2. CASE RecordVerified(s)
  <2>1. /\ SetState(s, "VERIFIED") /\ pc'[s] = "loop" /\ index'[s] = index[s] + 1
        /\ index[s] \in Nat
    BY <1>2 DEF RecordVerified, TypeOK
  <2>2. \A i \in 1..(index'[s] - 1) : i \in 1..(index[s] - 1) \/ i = index[s]
    BY <2>1
  <2>3. UpstreamVerified(s)'
    BY <1>1, <2>1, <2>2, StateOfStep DEF UpstreamVerified, CurrentStep
  <2>. QED
    BY <2>1, <2>3 DEF RefusalOf
<1>3. CASE RecordMismatch(s)
  <2>. DEFINE failure == Classify({}, ActualFields(verdict[s]), trace[s],
                                  CurrentStep(s).key, seen[s])
  <2>1. PICK status : Return(s, status, {CurrentStep(s).id}, failure)
    BY <1>3 DEF RecordMismatch
  <2>2. pc'[s] = "returned" /\ outcome'[s].failure = failure
    BY <2>1, ReturnGives
  <2>3. /\ \/ verdict[s] = "absent" /\ trace[s] = GhostFields
           \/ verdict[s] = "different" /\ OtherAmount(s)
        /\ trace' = trace
    BY <1>3 DEF RecordMismatch, RefusalInv, RefusalOf
  <2>4. CASE verdict[s] = "absent"
    BY <2>2, <2>3, <2>4 DEF Classify, ActualFields, Reason, RefusalOf, InRun
  <2>5. CASE verdict[s] = "different"
    <3>1. failure = "DUPLICATE"
      BY <1>1, <2>5 DEF Classify, ActualFields
    <3>2. OtherAmount(s)'
      BY <1>1, <2>3, <2>5 DEF OtherAmount, Context, records
    <3>. QED
      BY <2>2, <3>1, <3>2 DEF Reason, RefusalOf, InRun
  <2>. QED
    BY <2>3, <2>4, <2>5
<1>. QED
  BY <1>2, <1>3

LEMMA RefusalStep ==
  ASSUME \A p \in Plans : WellPlanned(p), TypeOK, RefusalInv, [Next]_vars
  PROVE  RefusalInv'
<1>1. ASSUME NEW s \in Sessions,
             \/ \E p \in Plans, fresh \in BOOLEAN : StartRun(s, p, fresh)
             \/ RunnerStep(s)
             \/ Crash(s)
      PROVE  RefusalInv'
  <2>1. ASSUME NEW r \in Sessions \ {s} PROVE RefusalOf(r)'
    BY <1>1, <2>1, OthersSame, RefusalKept DEF RefusalInv, Same
  <2>2. ASSUME (\E p \in Plans, fresh \in BOOLEAN : StartRun(s, p, fresh)) \/ Crash(s)
        PROVE  RefusalOf(s)'
    <3>1. index'[s] = 1 /\ pc'[s] \in {"loop", "idle"}
      BY <2>2 DEF StartRun, Crash, TypeOK
    <3>2. UpstreamVerified(s)'
      BY <3>1 DEF UpstreamVerified
    <3>. QED
      BY <3>1, <3>2 DEF RefusalOf
  <2>3. pc[s] # "idle" => WellPlanned(plan[s])
    BY DEF TypeOK
  <2>4. ASSUME Execute(s) \/ Check(s) \/ RecordVerified(s) \/ RecordMismatch(s)
        PROVE  RefusalOf(s)'
    <3>1. pc[s] # "idle"
      BY <2>4 DEF Execute, Check, RecordVerified, RecordMismatch
    <3>. QED
      BY <2>3, <2>4, <3>1, ExecuteRefusal, CheckRefusal, RecordRefusal
  <2>5. ASSUME ToolRaises(s) \/ CheckRaises(s) \/ EnqueueRaises(s)
        PROVE  RefusalOf(s)'
    <3>1. pc'[s] = "raised"
      BY <2>5 DEF ToolRaises, CheckRaises, EnqueueRaises, TypeOK
    <3>. QED
      BY <3>1 DEF RefusalOf, InRun
  <2>6. ASSUME Finish(s) PROVE RefusalOf(s)'
    <3>1. pc'[s] = "returned" /\ outcome'[s].status = "COMPLETE"
      BY <2>6, ReturnGives DEF Finish
    <3>. QED
      BY <3>1 DEF RefusalOf, InRun
  <2>7. ASSUME Gate(s) PROVE RefusalOf(s)'
    <3>1. /\ pc[s] = "returned" /\ pc'[s] = "gated" /\ plan' = plan /\ index' = index
          /\ states' = states /\ seen' = seen /\ trace' = trace /\ verdict' = verdict
          /\ outcome' = outcome
      BY <2>7 DEF Gate, TypeOK
    <3>. QED
      BY <3>1, RefusalKept DEF RefusalInv
  <2>8. RefusalOf(s)'
    BY <1>1, <2>2, <2>4, <2>5, <2>6, <2>7 DEF RunnerStep
  <2>. QED
    BY <2>1, <2>8 DEF RefusalInv
<1>2. ASSUME NEW q \in Requests, Rollback(q) PROVE RefusalInv'
  BY <1>2, RefusalKept DEF Rollback, RefusalInv
<1>3. CASE UNCHANGED vars
  BY <1>3, RefusalKept DEF vars, RefusalInv
<1>. QED
  BY <1>1, <1>2, <1>3 DEF Next, Quiescent

\* With plans whose steps have the checkers of their tools and distinct ids, as
\* the planner's are, a run is refused only for a key the runner has seen, for
\* a tool that lied, or for a refund of another amount (NoFalseReject).
THEOREM RefusalsAreJust ==
  ASSUME \A p \in Plans : WellPlanned(p)
  PROVE  Spec => []NoFalseReject
<1>1. Init => RefusalInv /\ HonestInv
  BY DEF Init, RefusalInv, RefusalOf, HonestInv, HonestOf, AllVerified, InRun, NoOutcome
<1>2. GateInv /\ RefusalInv /\ HonestInv /\ [Next]_vars => RefusalInv' /\ HonestInv'
  BY RefusalStep, HonestStep DEF GateInv
<1>3. GateInv /\ RefusalInv /\ HonestInv => NoFalseReject
  <2>. SUFFICES ASSUME GateInv, RefusalInv, HonestInv, NEW s \in Sessions,
                       final[s] \notin {"NONE", "COMPLETE"}
                PROVE  Reason(s)
    BY DEF NoFalseReject, Reason, OtherAmount
  <2>1. pc[s] = "gated"
    BY DEF GateInv, ReportedOnce
  <2>2. outcome[s].status # "COMPLETE"
    BY <2>1 DEF HonestInv, HonestOf
  <2>. QED
    BY <2>1, <2>2 DEF RefusalInv, RefusalOf
<1>. QED
  BY <1>1, <1>2, <1>3, GateInvariant, PTL DEF Spec

\* The deterministic planner's plans meet both hypotheses, so that of its runs
\* EmailOnlyAfterRefund and NoFalseReject hold, whatever the tools do.
COROLLARY PlannerRuns ==
  ASSUME Plans \subseteq {RefundPlan(ctx) : ctx \in Contexts}
  PROVE  Spec => [](EmailOnlyAfterRefund /\ NoFalseReject)
<1>1. \A p \in Plans : RefundFirst(p) /\ WellPlanned(p)
  BY PlannerIsWellPlanned
<1>2. Spec => []EmailOnlyAfterRefund
  BY <1>1, EmailsFollowRefunds
<1>3. Spec => []NoFalseReject
  BY <1>1, RefusalsAreJust
<1>. QED
  BY <1>2, <1>3, PTL

-----------------------------------------------------------------------------
(* The offline queue has what a run of a queued session rests on, also     *)
(* when the session and its ledger are gone.                               *)

MismatchReceipt(s, i) == [run |-> runs[s], index |-> i, step |-> plan[s].steps[i].id,
                          result |-> "MISMATCH"]

\* Receipts are of runs that have begun.
Past(s) == \A item \in queue : item[1] = s => item[2].run <= runs[s]
\* Steps may share an id: the running one takes the state of its namesakes.
BehindVerified(s) ==
  pc[s] \in InRun => \A i \in 1..(index[s] - 1) :
    \/ states[s][plan[s].steps[i].id] = "VERIFIED"
    \/ pc[s] # "loop" /\ plan[s].steps[i].id = CurrentStep(s).id
Queued(s) == \A i \in 1..(index[s] - 1) : <<s, VerifiedReceipt(s, i)>> \in queue
Clean(s) ==
  \A item \in queue : item[1] = s /\ item[2].run = runs[s] => item[2].result = "VERIFIED"
Refused(s) == \E i \in 1..Len(plan[s].steps) : <<s, MismatchReceipt(s, i)>> \in queue

Stopped == {"PARTIAL", "ESCALATED"}

QueueOf(s) ==
  /\ pc[s] # "idle" => runs[s] > 0
  /\ Past(s) /\ BehindVerified(s)
  /\ s \in QueuedSessions => Queued(s)
  /\ pc[s] \in InRun \/ outcome[s].status = "COMPLETE" => Clean(s)
  /\ s \in QueuedSessions /\ outcome[s].status \in Stopped => Refused(s)
  /\ pc[s] \in {"returned", "gated"} => outcome[s].status # "NONE"
  /\ final[s] \in Stopped => outcome[s].status \in Stopped

QueueInv == \A s \in Sessions : QueueOf(s)

\* Only a receipt that has just been sealed enters the queue.
LEMMA QueueGrows ==
  ASSUME [Next]_vars, queue' # queue
  PROVE  \E s \in QueuedSessions \cap Sessions :
           /\ RecordVerified(s) \/ RecordMismatch(s)
           /\ queue' = queue \cup {<<s, ReceiptOf(s)>>}
<1>1. ASSUME NEW s \in Sessions, RecordVerified(s) \/ RecordMismatch(s)
      PROVE  s \in QueuedSessions /\ queue' = queue \cup {<<s, ReceiptOf(s)>>}
  BY <1>1 DEF RecordVerified, RecordMismatch, AppendReceipt
<1>2. \A s \in Sessions :
        /\ ~\E p \in Plans, fresh \in BOOLEAN : StartRun(s, p, fresh)
        /\ ~Execute(s) /\ ~ToolRaises(s) /\ ~Check(s) /\ ~CheckRaises(s)
        /\ ~EnqueueRaises(s) /\ ~Finish(s) /\ ~Gate(s) /\ ~Crash(s)
  BY DEF StartRun, Execute, ToolRaises, Check, CheckRaises, EnqueueRaises, Finish, Gate, Crash
<1>. QED
  BY <1>1, <1>2 DEF Next, RunnerStep, Rollback, Quiescent, vars

\* Another session's receipts and steps do not matter to a session.
LEMMA QueueKept ==
  ASSUME NEW r \in Sessions, QueueOf(r), Same(r), queue \subseteq queue',
         \A item \in queue' \ queue : item[1] # r
  PROVE  QueueOf(r)'
<1>1. (\A i : <<r, VerifiedReceipt(r, i)>> \in queue => (<<r, VerifiedReceipt(r, i)>> \in queue)')
      /\ \A i : <<r, MismatchReceipt(r, i)>> \in queue => (<<r, MismatchReceipt(r, i)>> \in queue)'
  BY DEF Same, VerifiedReceipt, MismatchReceipt
<1>2. /\ Past(r) => Past(r)'
      /\ Clean(r) => Clean(r)'
  BY DEF Past, Clean, Same
<1>3. /\ Queued(r) => Queued(r)'
      /\ Refused(r) => Refused(r)'
  BY <1>1 DEF Queued, Refused, Same
<1>4. BehindVerified(r) => BehindVerified(r)'
  BY DEF BehindVerified, CurrentStep, Same
<1>. QED
  BY <1>2, <1>3, <1>4 DEF QueueOf, Same

\* A step that writes no receipt and moves on in no plan.
LEMMA QueueRest ==
  ASSUME NEW s \in Sessions, QueueOf(s), queue' = queue, plan'[s] = plan[s],
         index'[s] = index[s], runs'[s] = runs[s]
  PROVE  /\ Past(s)'
         /\ Queued(s) => Queued(s)'
         /\ Clean(s) => Clean(s)'
         /\ Refused(s) => Refused(s)'
<1>1. (\A i : <<s, VerifiedReceipt(s, i)>> \in queue => (<<s, VerifiedReceipt(s, i)>> \in queue)')
      /\ \A i : <<s, MismatchReceipt(s, i)>> \in queue => (<<s, MismatchReceipt(s, i)>> \in queue)'
  BY DEF VerifiedReceipt, MismatchReceipt
<1>. QED
  BY <1>1 DEF QueueOf, Past, Queued, Clean, Refused

\* The state of a step and of its namesakes.
LEMMA NamesakeStates ==
  ASSUME TypeOK, NEW s \in Sessions, pc[s] # "idle", HasStep(s), NEW st, SetState(s, st)
  PROVE  \A i \in 1..index[s] :
           states'[s][plan[s].steps[i].id]
             = IF plan[s].steps[i].id = CurrentStep(s).id THEN st
               ELSE states[s][plan[s].steps[i].id]
<1>1. /\ plan[s].steps \in Seq(Steps) /\ index[s] \in 1..Len(plan[s].steps)
      /\ CurrentStep(s).id \in StepIdsOf(plan[s])
      /\ DOMAIN states = Sessions /\ DOMAIN states[s] = StepIdsOf(plan[s])
  BY CurrentStepTyping DEF TypeOK
<1>2. states'[s] = [states[s] EXCEPT ![CurrentStep(s).id] = st]
  BY <1>1 DEF SetState
<1>3. ASSUME NEW i \in 1..index[s] PROVE plan[s].steps[i].id \in StepIdsOf(plan[s])
  <2>1. i \in 1..Len(plan[s].steps)
    BY <1>1
  <2>. QED
    BY <2>1 DEF StepIdsOf
<1>. QED
  BY <1>1, <1>2, <1>3

LEMMA QueueExecute ==
  ASSUME TypeOK, EvidenceInv, ReportedOnce, QueueInv, NEW s \in Sessions, Execute(s)
  PROVE  QueueOf(s)'
<1>1. /\ pc[s] = "loop" /\ HasStep(s) /\ queue' = queue /\ plan' = plan /\ index' = index
      /\ runs' = runs /\ final' = final
  BY DEF Execute
<1>2. QueueOf(s) /\ Clean(s) /\ outcome[s].status # "COMPLETE"
  BY <1>1 DEF QueueInv, QueueOf, EvidenceInv, EvidenceOf, InRun
<1>3. index[s] \in Nat \ {0}
  BY DEF TypeOK
<1>4. UpstreamVerified(s)
  BY <1>1, <1>2 DEF QueueOf, BehindVerified, UpstreamVerified, InRun
<1>5. RunStep(s)
  BY <1>4 DEF Execute
<1>6. final[s] \notin Stopped
  BY <1>1 DEF ReportedOnce, Stopped
<1>7. Past(s)' /\ (Queued(s) => Queued(s)') /\ Clean(s)' /\ (Refused(s) => Refused(s)')
  BY <1>1, <1>2, QueueRest
<1>8. CASE pc'[s] = "returned" /\ outcome'[s].status = "FAILED"
  BY <1>1, <1>2, <1>6, <1>7, <1>8 DEF QueueOf, BehindVerified, InRun, Stopped
<1>9. CASE SetState(s, "RUNNING") /\ pc'[s] = "verify" /\ outcome' = outcome
  <2>1. \A i \in 1..(index[s] - 1) :
          \/ states'[s][plan[s].steps[i].id] = "VERIFIED"
          \/ plan[s].steps[i].id = CurrentStep(s).id
    <3>1. \A i \in 1..(index[s] - 1) : i \in 1..index[s]
      BY <1>3
    <3>. QED
      BY <1>1, <1>4, <1>9, <3>1, NamesakeStates DEF UpstreamVerified
  <2>2. BehindVerified(s)'
    BY <1>1, <1>9, <2>1 DEF BehindVerified, CurrentStep
  <2>. QED
    BY <1>1, <1>2, <1>7, <1>9, <2>2 DEF QueueOf, InRun
<1>. QED
  BY <1>5, <1>8, <1>9 DEF RunStep, Return, TypeOK

LEMMA QueueRecords ==
  ASSUME TypeOK, EvidenceInv, QueueInv, NEW s \in Sessions,
         RecordVerified(s) \/ RecordMismatch(s)
  PROVE  QueueOf(s)'
<1>1. /\ pc[s] = "record" /\ HasStep(s) /\ plan' = plan /\ runs' = runs /\ final' = final
      /\ queue' = IF s \in QueuedSessions THEN queue \cup {<<s, ReceiptOf(s)>>} ELSE queue
  BY DEF RecordVerified, RecordMismatch, AppendReceipt, TypeOK
<1>2. QueueOf(s) /\ Clean(s) /\ outcome[s].status # "COMPLETE" /\ runs[s] \in Nat
  BY <1>1 DEF QueueInv, QueueOf, EvidenceInv, EvidenceOf, InRun, TypeOK
<1>3. /\ index[s] \in 1..Len(plan[s].steps) /\ index[s] \in Nat \ {0}
  BY <1>1, CurrentStepTyping DEF TypeOK
<1>4. Past(s)'
  <2>1. ReceiptOf(s).run = runs[s]
    BY DEF ReceiptOf
  <2>. QED
    BY <1>1, <1>2, <2>1 DEF QueueOf, Past
<1>5. ASSUME s \in QueuedSessions, NEW i \in 1..(index[s] - 1)
      PROVE  (<<s, VerifiedReceipt(s, i)>> \in queue)'
  <2>1. VerifiedReceipt(s, i)' = VerifiedReceipt(s, i)
    BY <1>1 DEF VerifiedReceipt
  <2>. QED
    BY <1>1, <1>2, <1>5, <2>1 DEF QueueOf, Queued
<1>6. CASE RecordVerified(s)
  <2>1. /\ index'[s] = index[s] + 1 /\ pc'[s] = "loop" /\ outcome' = outcome
        /\ SetState(s, "VERIFIED") /\ verdict[s] = "match"
    BY <1>6 DEF RecordVerified, TypeOK
  <2>2. BehindVerified(s)'
    <3>1. ASSUME NEW i \in 1..index[s]
          PROVE  states'[s][plan[s].steps[i].id] = "VERIFIED"
      <4>1. i = index[s] \/ i \in 1..(index[s] - 1)
        BY <1>3
      <4>2. plan[s].steps[i].id = CurrentStep(s).id
              \/ states[s][plan[s].steps[i].id] = "VERIFIED"
        BY <1>1, <1>2, <4>1 DEF QueueOf, BehindVerified, InRun, CurrentStep
      <4>. QED
        BY <1>1, <2>1, <4>2, NamesakeStates
    <3>2. 1..(index'[s] - 1) = 1..index[s]
      BY <1>3, <2>1
    <3>. QED
      BY <1>1, <3>1, <3>2 DEF BehindVerified
  <2>3. Queued(s)' \/ s \notin QueuedSessions
    <3>1. VerifiedReceipt(s, index[s]) = ReceiptOf(s)
      BY <2>1 DEF VerifiedReceipt, ReceiptOf, CurrentStep
    <3>2. \A i : i = index[s] => VerifiedReceipt(s, i)' = ReceiptOf(s)
      BY <1>1, <3>1 DEF VerifiedReceipt
    <3>3. \A i \in 1..(index'[s] - 1) : i = index[s] \/ i \in 1..(index[s] - 1)
      BY <1>3, <2>1
    <3>. QED
      BY <1>1, <1>5, <3>2, <3>3 DEF Queued
  <2>4. Clean(s)'
    <3>1. ReceiptOf(s).result = "VERIFIED"
      BY <2>1 DEF ReceiptOf
    <3>. QED
      BY <1>1, <1>2, <3>1 DEF Clean
  <2>5. Refused(s) => Refused(s)'
    <3>1. \A i : MismatchReceipt(s, i)' = MismatchReceipt(s, i)
      BY <1>1 DEF MismatchReceipt
    <3>. QED
      BY <1>1, <3>1 DEF Refused
  <2>. QED
    BY <1>1, <1>2, <1>4, <2>1, <2>2, <2>3, <2>4, <2>5 DEF QueueOf
<1>7. CASE RecordMismatch(s)
  <2>1. /\ index'[s] = index[s] /\ pc'[s] = "returned" /\ verdict[s] # "match"
        /\ outcome'[s].status \in Stopped
    BY <1>7 DEF RecordMismatch, Return, Stopped, TypeOK
  <2>2. Queued(s)' \/ s \notin QueuedSessions
    BY <1>5, <2>1 DEF Queued
  <2>3. Refused(s)' \/ s \notin QueuedSessions
    <3>1. MismatchReceipt(s, index[s]) = ReceiptOf(s)
      BY <2>1 DEF MismatchReceipt, ReceiptOf, CurrentStep
    <3>2. \A i : i = index[s] => MismatchReceipt(s, i)' = ReceiptOf(s)
      BY <1>1, <3>1 DEF MismatchReceipt
    <3>. QED
      BY <1>1, <1>3, <3>2 DEF Refused
  <2>. QED
    BY <1>1, <1>2, <1>4, <2>1, <2>2, <2>3 DEF QueueOf, BehindVerified, InRun, Stopped
<1>. QED
  BY <1>6, <1>7

LEMMA QueueReturns ==
  ASSUME GateInv, HonestInv, QueueInv, NEW s \in Sessions,
         Finish(s) \/ Gate(s)
  PROVE  QueueOf(s)'
<1>. TypeOK /\ ClaimInv /\ EvidenceInv /\ ReportedOnce
  BY DEF GateInv
<1>1. QueueOf(s) /\ queue' = queue /\ plan' = plan /\ index' = index /\ runs' = runs
  BY DEF Finish, Gate, QueueInv
<1>2. Past(s)' /\ (Queued(s) => Queued(s)') /\ (Clean(s) => Clean(s)')
      /\ (Refused(s) => Refused(s)')
  BY <1>1, QueueRest
<1>3. CASE Finish(s)
  <2>1. /\ pc[s] = "loop" /\ pc'[s] = "returned" /\ outcome'[s].status = "COMPLETE"
        /\ final' = final
    BY <1>3 DEF Finish, Return, TypeOK
  <2>2. final[s] \notin Stopped
    BY <2>1 DEF ReportedOnce, Stopped
  <2>. QED
    BY <1>1, <1>2, <2>1, <2>2 DEF QueueOf, BehindVerified, InRun, Stopped
<1>4. CASE Gate(s)
  <2>1. /\ pc[s] = "returned" /\ pc'[s] = "gated" /\ outcome' = outcome
        /\ final'[s] = ComputeStatus(s)
    BY <1>4 DEF Gate, TypeOK
  <2>2. outcome[s].status \in {"COMPLETE", "PARTIAL", "FAILED", "ESCALATED"}
    BY <1>1, <2>1 DEF QueueOf, TypeOK, Outcomes, Statuses
  <2>3. ComputeStatus(s) \in Stopped => outcome[s].status \in Stopped
    BY <2>1, <2>2, GateTrusts DEF ComputeStatus, Stopped
  <2>. QED
    BY <1>1, <1>2, <2>1, <2>2, <2>3 DEF QueueOf, BehindVerified, InRun
<1>. QED
  BY <1>3, <1>4

LEMMA QueueStep ==
  ASSUME GateInv, HonestInv, QueueInv, [Next]_vars
  PROVE  QueueInv'
<1>. TypeOK /\ ClaimInv /\ EvidenceInv /\ ReportedOnce
  BY DEF GateInv
<1>1. ASSUME NEW s \in Sessions,
             \/ \E p \in Plans, fresh \in BOOLEAN : StartRun(s, p, fresh)
             \/ RunnerStep(s)
             \/ Crash(s)
      PROVE  QueueInv'
  <2>1. queue \subseteq queue' /\ \A item \in queue' \ queue : item[1] = s
    BY <1>1 DEF StartRun, RunnerStep, Execute, ToolRaises, Check, CheckRaises, RecordVerified,
                RecordMismatch, AppendReceipt, EnqueueRaises, Finish, Gate, Crash
  <2>2. ASSUME NEW r \in Sessions \ {s} PROVE QueueOf(r)'
    <3>1. \A item \in queue' \ queue : item[1] # r
      BY <2>1
    <3>. QED
      BY <1>1, <2>1, <2>2, <3>1, OthersSame, QueueKept DEF QueueInv
  <2>3. ASSUME (\E p \in Plans, fresh \in BOOLEAN : StartRun(s, p, fresh)) \/ Crash(s)
        PROVE  QueueOf(s)'
    <3>1. /\ queue' = queue /\ index'[s] = 1 /\ outcome'[s] = NoOutcome /\ final'[s] = "NONE"
          /\ runs[s] \in Nat /\ \/ pc'[s] = "idle" /\ runs'[s] = runs[s]
                                \/ pc'[s] = "loop" /\ runs'[s] = runs[s] + 1
      BY <2>3 DEF StartRun, Crash, TypeOK
    <3>2. \A item \in queue : item[2].run \in Nat
      BY DEF TypeOK, Receipts
    <3>3. Past(s) /\ 1..(index'[s] - 1) = {}
      BY <3>1 DEF QueueInv, QueueOf
    <3>4. Past(s)' /\ (pc'[s] = "loop" => Clean(s)')
      BY <3>1, <3>2, <3>3 DEF Past, Clean
    <3>5. BehindVerified(s)' /\ Queued(s)'
      BY <3>3 DEF BehindVerified, Queued
    <3>. QED
      BY <3>1, <3>4, <3>5 DEF QueueOf, InRun, NoOutcome, Stopped
  <2>4. ASSUME ToolRaises(s) \/ Check(s) \/ CheckRaises(s) \/ EnqueueRaises(s)
        PROVE  QueueOf(s)'
    <3>1. /\ queue' = queue /\ plan' = plan /\ index' = index /\ runs' = runs
          /\ outcome' = outcome /\ final' = final /\ pc[s] \in InRun
          /\ \/ pc'[s] = "raised"
             \/ pc[s] = "verify" /\ pc'[s] = "record" /\ states' = states
      BY <2>4 DEF ToolRaises, Check, CheckRaises, EnqueueRaises, InRun, TypeOK
    <3>2. QueueOf(s)
      BY DEF QueueInv
    <3>3. Past(s)' /\ (Queued(s) => Queued(s)') /\ (Clean(s) => Clean(s)')
          /\ (Refused(s) => Refused(s)')
      BY <3>1, <3>2, QueueRest
    <3>4. BehindVerified(s)'
      BY <3>1, <3>2 DEF QueueOf, BehindVerified, CurrentStep, InRun
    <3>. QED
      BY <3>1, <3>2, <3>3, <3>4 DEF QueueOf, InRun
  <2>5. QueueOf(s)'
    BY <1>1, <2>3, <2>4, QueueExecute, QueueRecords, QueueReturns DEF RunnerStep
  <2>. QED
    BY <2>2, <2>5 DEF QueueInv
<1>2. ASSUME NEW q \in Requests, Rollback(q) PROVE QueueInv'
  <2>1. queue' = queue /\ \A r \in Sessions : Same(r)
    BY <1>2 DEF Rollback, Same
  <2>. QED
    BY <2>1, QueueKept DEF QueueInv
<1>3. CASE UNCHANGED vars
  <2>1. queue' = queue /\ \A r \in Sessions : Same(r)
    BY <1>3 DEF vars, Same
  <2>. QED
    BY <2>1, QueueKept DEF QueueInv
<1>. QED
  BY <1>1, <1>2, <1>3 DEF Next, Quiescent

\* What the composition with the sync manager needs of the pipeline.
RunInv == GateInv /\ HonestInv /\ QueueInv

LEMMA InitRun == Init => RunInv
<1>. SUFFICES ASSUME Init PROVE RunInv
  OBVIOUS
<1>1. GateInv
  BY InitTypeOK
  DEF Init, GateInv, ClaimInv, ClaimsOf, EvidenceInv, EvidenceOf, NoMismatch, NoOutcome,
      ReportedOnce
<1>2. HonestInv
  BY DEF Init, HonestInv, HonestOf, AllVerified, InRun, NoOutcome
<1>3. QueueInv
  BY DEF Init, QueueInv, QueueOf, Past, BehindVerified, Queued, InRun, NoOutcome, Stopped
<1>. QED
  BY <1>1, <1>2, <1>3 DEF RunInv

LEMMA RunStepInv == RunInv /\ [Next]_vars => RunInv'
BY StepTypeOK, ClaimStep, EvidenceStep, ReportedOnceStep, HonestStep, QueueStep
   DEF RunInv, GateInv
=============================================================================
