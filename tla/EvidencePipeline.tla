------------------------- MODULE EvidencePipeline -------------------------
(***************************************************************************)
(* The verification pipeline of VERITAS: several sessions (the command     *)
(* line demo, dashboard tabs) run plans against one SQLite system of       *)
(* record.  A session's DAG runner takes the plan's steps in order: the    *)
(* executor calls a tool that writes the database, the independent         *)
(* verifier reads the database back, a receipt of what it read goes to the *)
(* session's ledger, and the completion gate turns the runner's result     *)
(* into a final status.  Sessions interleave between any two database      *)
(* accesses, tools may lie or raise, and processes may die.                *)
(***************************************************************************)
EXTENDS Integers, Sequences, FiniteSets

CONSTANTS
  Sessions,        \* runners with the ledger of their process or browser tab
  QueuedSessions,  \* the sessions whose ledger was given an offline queue
  Requests,        \* request ids; refund and email ids are derived from them
  Customers,
  Orders,
  Amounts,         \* amounts of money, in half cents
  Tolerance,       \* the checker's 0.01, in the same unit
  RoundedDown,     \* pairs of amounts the tolerance apart whose difference as
                   \* doubles is less: 0.06 and 0.05, but not 0.07 and 0.06
  StepIds,
  Plans,           \* the plans callers hand to run_plan
  Faults,          \* which of FaultKinds may happen
  MaxRuns          \* bound: run_plan calls of one session

FaultKinds == {"ghost", "tool", "checker", "enqueue", "crash"}
StepTypes == {"check_eligibility", "create_refund", "send_email", "other"}
CheckerTypes == {"eligibility", "refund_exists", "email_outbox", "other"}
Reversibilities == {"reversible", "checkable-irreversible"}

\* An idempotency key is built from a prefix and a request or an order id.
Keys == {"eligibility", "refund", "email", "other"} \X (Requests \cup Orders)

Contexts ==
  [request : Requests, customer : Customers, order : Orders, amount : Amounts]

Steps == [id : StepIds, type : StepTypes, checker : CheckerTypes,
          key : Keys, rev : Reversibilities]

\* The contract the deterministic planner makes for a refund request.
RefundPlan(ctx) ==
  [context |-> ctx,
   steps |-> <<
     [id |-> "S1", type |-> "check_eligibility", checker |-> "eligibility",
      key |-> <<"eligibility", ctx.request>>, rev |-> "reversible"],
     [id |-> "S2", type |-> "create_refund", checker |-> "refund_exists",
      key |-> <<"refund", ctx.order>>, rev |-> "reversible"],
     [id |-> "S3", type |-> "send_email", checker |-> "email_outbox",
      key |-> <<"email", ctx.request>>, rev |-> "checkable-irreversible"]>>]

ASSUME SessionAssumption == QueuedSessions \subseteq Sessions
ASSUME AmountAssumption == Amounts \subseteq Nat /\ Tolerance \in Nat \ {0}
ASSUME RoundingAssumption ==
  \A pair \in RoundedDown : \E a \in Amounts : pair = {a, a + Tolerance}
ASSUME PlanAssumption == Plans \subseteq [context : Contexts, steps : Seq(Steps)]
ASSUME BoundAssumption == MaxRuns \in Nat
\* Callers make one request for one customer: main.py fixes both, and the
\* dashboard's request id is the time of the click.
ASSUME RequestAssumption ==
  \A p, q \in Plans : p.context.request = q.context.request
                        => p.context.customer = q.context.customer

VARIABLES
  \* the system of record and the offline queue, which outlive a process
  eligibility, refunds, outbox, queue,
  \* what a session keeps between runs
  ledger, seen, runs,
  \* the locals of run_plan, the result it returns and the gate's verdict
  pc, plan, index, states, completed, evidence, trace, verdict, outcome, final

records == <<eligibility, refunds, outbox>>
vars == <<eligibility, refunds, outbox, queue, ledger, seen, runs, pc, plan,
          index, states, completed, evidence, trace, verdict, outcome, final>>

PCs == {"idle", "loop", "verify", "record", "returned", "gated", "raised"}
StepStates == {"PENDING", "RUNNING", "VERIFIED", "FAILED", "BLOCKED"}
Statuses == {"NONE", "COMPLETE", "PARTIAL", "FAILED", "ESCALATED"}
\* What the checker read: a row that satisfies the postcondition, no row, or
\* a row that does not satisfy it.
Verdicts == {"none", "match", "absent", "different"}
Failures == {"none", "BLOCKED", "NO_EFFECT", "DUPLICATE", "PARTIAL",
             "COLLATERAL", "WRONG_VALUE"}
Fields == {"eligibility_id", "refund_id", "email_id", "recipient", "amount",
           "currency", "customer_id", "status", "injected", "ghost"}

Receipts == [run : Nat, index : Nat, step : StepIds,
             result : {"VERIFIED", "MISMATCH"}]
EligibilityRows == [request : Requests, customer : Customers]
RefundRows == [request : Requests, order : Orders, amount : Amounts,
               status : {"PENDING", "CANCELLED"}]
Outcomes == [status : Statuses, failed : SUBSET StepIds, failure : Failures]
NoPlan == [steps |-> <<>>]
NoOutcome == [status |-> "NONE", failed |-> {}, failure |-> "none"]

Init ==
  /\ eligibility = {} /\ refunds = {} /\ outbox = {} /\ queue = {}
  /\ ledger = [s \in Sessions |-> <<>>]
  /\ seen = [s \in Sessions |-> {}]
  /\ runs = [s \in Sessions |-> 0]
  /\ pc = [s \in Sessions |-> "idle"]
  /\ plan = [s \in Sessions |-> NoPlan]
  /\ index = [s \in Sessions |-> 1]
  /\ states = [s \in Sessions |-> <<>>]
  /\ completed = [s \in Sessions |-> <<>>]
  /\ evidence = [s \in Sessions |-> <<>>]
  /\ trace = [s \in Sessions |-> {}]
  /\ verdict = [s \in Sessions |-> "none"]
  /\ outcome = [s \in Sessions |-> NoOutcome]
  /\ final = [s \in Sessions |-> "NONE"]

CurrentStep(s) == plan[s].steps[index[s]]
Context(s) == plan[s].context
StepIdsOf(p) == {p.steps[i].id : i \in 1..Len(p.steps)}
HasStep(s) == index[s] <= Len(plan[s].steps)
\* No step before the current one is in another state than VERIFIED.
UpstreamVerified(s) ==
  \A i \in 1..(index[s] - 1) : states[s][plan[s].steps[i].id] = "VERIFIED"
SetState(s, st) ==
  states' = [states EXCEPT ![s][CurrentStep(s).id] = st]

-----------------------------------------------------------------------------
(* DatabaseTool: each call is one SQLite transaction on one table.         *)

\* INSERT OR REPLACE: the request column is unique, so the request's row goes.
CheckEligibility(ctx) ==
  /\ eligibility' = {row \in eligibility : row.request # ctx.request}
       \cup {[request |-> ctx.request, customer |-> ctx.customer]}
  /\ UNCHANGED <<refunds, outbox>>

\* Mutant of CreateRefund: INSERT OR REPLACE.
ReplaceRefund(ctx) ==
  /\ refunds' = {row \in refunds : row.request # ctx.request}
       \cup {[request |-> ctx.request, order |-> ctx.order,
              amount |-> ctx.amount, status |-> "PENDING"]}
  /\ UNCHANGED <<eligibility, outbox>>

\* INSERT OR IGNORE: a row of the same refund id stays as it is.
CreateRefund(ctx) ==
  /\ refunds' = IF \E row \in refunds : row.request = ctx.request
                  THEN refunds
                  ELSE refunds \cup {[request |-> ctx.request, order |-> ctx.order,
                                      amount |-> ctx.amount, status |-> "PENDING"]}
  /\ UNCHANGED <<eligibility, outbox>>

QueueEmail(ctx) ==
  /\ outbox' = outbox \cup {ctx.request}
  /\ UNCHANGED <<eligibility, refunds>>

UpdateRefundStatus(q, status) ==
  /\ refunds' = {IF row.request = q THEN [row EXCEPT !.status = status] ELSE row
                   : row \in refunds}
  /\ UNCHANGED <<eligibility, outbox>>

\* A tool's result claims these fields, whatever the database did.
ResultFields(type) ==
  CASE type = "check_eligibility" -> {"eligibility_id", "status"}
    [] type = "create_refund" -> {"refund_id", "status", "amount"}
    [] OTHER -> {"email_id", "refund_id", "recipient", "status"}

CallTool(type, ctx) ==
  \/ type = "check_eligibility" /\ CheckEligibility(ctx)
  \/ type = "create_refund" /\ CreateRefund(ctx)
  \/ type = "send_email" /\ QueueEmail(ctx)

\* An injected ghost success: the tool is not called, its result is made up.
GhostSuccess == "ghost" \in Faults /\ UNCHANGED records
GhostFields == {"status", "injected", "ghost"}

-----------------------------------------------------------------------------
(* SQLChecker and the verifier's checks: one read of one table.            *)

Abs(n) == IF n < 0 THEN -n ELSE n

\* abs(a - b) < 0.01 on doubles, for amounts that are whole multiples of the
\* unit: they decide by the rounding if they are the tolerance apart.
Close(a, b) ==
  \/ Abs(a - b) < Tolerance
  \/ Abs(a - b) = Tolerance /\ {a, b} \in RoundedDown

\* Mutant of CheckRefundExists: the test for no row is dropped.
CheckAllRefunds(ctx) ==
  IF \A row \in refunds : row.request = ctx.request => Close(row.amount, ctx.amount)
    THEN "match" ELSE "different"

\* Mutant of CheckRefundExists: amounts are compared with =.
CheckExactRefund(ctx) ==
  IF \A row \in refunds : row.request # ctx.request THEN "absent"
  ELSE IF \E row \in refunds : row.request = ctx.request /\ row.amount = ctx.amount
         THEN "match" ELSE "different"

CheckRefundExists(ctx) ==
  LET rows == {row \in refunds : row.request = ctx.request}
  IN  IF rows = {} THEN "absent"
      ELSE IF \E row \in rows : Close(row.amount, ctx.amount)
             THEN "match" ELSE "different"

VerdictOf(checker, ctx) ==
  CASE checker = "eligibility" ->
         IF [request |-> ctx.request, customer |-> ctx.customer] \in eligibility
           THEN "match" ELSE "absent"
    [] checker = "refund_exists" -> CheckRefundExists(ctx)
    [] checker = "email_outbox" ->
         IF ctx.request \in outbox THEN "match" ELSE "absent"
    [] OTHER -> "absent"

\* The fields of the row a failed check read: the receipt's actual values.
ActualFields(v) ==
  IF v = "different" THEN {"amount", "currency", "customer_id", "status"} ELSE {}

\* States are the sets of fields that hold a value: the state before is empty
\* at the only call, so a field has changed iff it is there.
Classify(before, after, declared, key, seenKeys) ==
  IF before = after THEN "NO_EFFECT"
  ELSE IF key \in seenKeys THEN "DUPLICATE"
  ELSE IF declared \ after # {} THEN "PARTIAL"
  ELSE IF after \ (declared \cup before) # {} THEN "COLLATERAL"
  ELSE "WRONG_VALUE"

-----------------------------------------------------------------------------
(* DAGRunner.run_plan.                                                     *)

\* Mutant of StartRun: the states of the previous plan are kept.
StartWithOldStates(s, p, fresh) ==
  /\ pc[s] \in {"idle", "gated", "raised"}
  /\ runs[s] < MaxRuns
  /\ runs' = [runs EXCEPT ![s] = @ + 1]
  /\ seen' = IF fresh THEN [seen EXCEPT ![s] = {}] ELSE seen
  /\ plan' = [plan EXCEPT ![s] = p]
  /\ index' = [index EXCEPT ![s] = 1]
  /\ states' = IF pc[s] = "idle"
                 THEN [states EXCEPT ![s] = [id \in StepIdsOf(p) |-> "PENDING"]]
                 ELSE states
  /\ completed' = [completed EXCEPT ![s] = <<>>]
  /\ evidence' = [evidence EXCEPT ![s] = <<>>]
  /\ outcome' = [outcome EXCEPT ![s] = NoOutcome]
  /\ final' = [final EXCEPT ![s] = "NONE"]
  /\ trace' = [trace EXCEPT ![s] = {}]
  /\ verdict' = [verdict EXCEPT ![s] = "none"]
  /\ pc' = [pc EXCEPT ![s] = "loop"]
  /\ UNCHANGED <<eligibility, refunds, outbox, queue, ledger>>

\* A caller hands plan p to a runner: a fresh one, as main.py and the
\* dashboard do for every run, or the one it already has.
StartRun(s, p, fresh) ==
  /\ pc[s] \in {"idle", "gated", "raised"}
  /\ runs[s] < MaxRuns
  /\ runs' = [runs EXCEPT ![s] = @ + 1]
  /\ seen' = IF fresh THEN [seen EXCEPT ![s] = {}] ELSE seen
  /\ plan' = [plan EXCEPT ![s] = p]
  /\ index' = [index EXCEPT ![s] = 1]
  /\ states' = [states EXCEPT ![s] = [id \in StepIdsOf(p) |-> "PENDING"]]
  /\ completed' = [completed EXCEPT ![s] = <<>>]
  /\ evidence' = [evidence EXCEPT ![s] = <<>>]
  /\ outcome' = [outcome EXCEPT ![s] = NoOutcome]
  /\ final' = [final EXCEPT ![s] = "NONE"]
  /\ trace' = [trace EXCEPT ![s] = {}]
  /\ verdict' = [verdict EXCEPT ![s] = "none"]
  /\ pc' = [pc EXCEPT ![s] = "loop"]
  /\ UNCHANGED <<eligibility, refunds, outbox, queue, ledger>>

Return(s, status, failed, failure) ==
  /\ outcome' = [outcome EXCEPT ![s] =
                   [status |-> status, failed |-> failed, failure |-> failure]]
  /\ pc' = [pc EXCEPT ![s] = "returned"]

\* The executor calls the tool; only then is the step's key looked up.
RunStep(s) ==
  /\ \/ /\ CallTool(CurrentStep(s).type, Context(s))
        /\ trace' = [trace EXCEPT ![s] = ResultFields(CurrentStep(s).type)]
     \/ /\ GhostSuccess
        /\ CurrentStep(s).type # "other"
        /\ trace' = [trace EXCEPT ![s] = GhostFields]
  /\ IF CurrentStep(s).key \in seen[s]
       THEN /\ SetState(s, "FAILED")
            /\ Return(s, "FAILED", {CurrentStep(s).id}, "DUPLICATE")
            /\ seen' = seen
       ELSE /\ SetState(s, "RUNNING")
            /\ seen' = [seen EXCEPT ![s] = @ \cup {CurrentStep(s).key}]
            /\ pc' = [pc EXCEPT ![s] = "verify"]
            /\ outcome' = outcome

Block(s) ==
  /\ SetState(s, "BLOCKED")
  /\ Return(s, "PARTIAL", {CurrentStep(s).id}, "BLOCKED")
  /\ UNCHANGED <<eligibility, refunds, outbox, seen, trace>>

Execute(s) ==
  /\ pc[s] = "loop" /\ HasStep(s)
  /\ IF UpstreamVerified(s) THEN RunStep(s) ELSE Block(s)
  /\ UNCHANGED <<queue, ledger, runs, plan, index, completed, evidence, verdict,
                 final>>

\* The tool raises, its transaction rolled back, or the type has no tool.
ToolRaises(s) ==
  /\ pc[s] = "loop" /\ HasStep(s) /\ UpstreamVerified(s)
  /\ "tool" \in Faults \/ CurrentStep(s).type = "other"
  /\ SetState(s, "RUNNING")
  /\ pc' = [pc EXCEPT ![s] = "raised"]
  /\ UNCHANGED <<eligibility, refunds, outbox, queue, ledger, seen, runs, plan,
                 index, completed, evidence, trace, verdict, outcome, final>>

\* The email check needs the id in the tool's result.
MissingEmailId(s) ==
  CurrentStep(s).checker = "email_outbox" /\ "email_id" \notin trace[s]

Check(s) ==
  /\ pc[s] = "verify" /\ ~MissingEmailId(s)
  /\ verdict' = [verdict EXCEPT ![s] = VerdictOf(CurrentStep(s).checker, Context(s))]
  /\ pc' = [pc EXCEPT ![s] = "record"]
  /\ UNCHANGED <<eligibility, refunds, outbox, queue, ledger, seen, runs, plan,
                 index, states, completed, evidence, trace, outcome, final>>

\* The read-only connection fails, or the lookup of the email id does.
CheckRaises(s) ==
  /\ pc[s] = "verify"
  /\ "checker" \in Faults \/ MissingEmailId(s)
  /\ pc' = [pc EXCEPT ![s] = "raised"]
  /\ UNCHANGED <<eligibility, refunds, outbox, queue, ledger, seen, runs, plan, index,
                 states, completed, evidence, trace, verdict, outcome, final>>

ReceiptOf(s) ==
  [run |-> runs[s], index |-> index[s], step |-> CurrentStep(s).id,
   result |-> IF verdict[s] = "match" THEN "VERIFIED" ELSE "MISMATCH"]

\* Mutant of AppendReceipt: the ledger keeps one receipt for each step id.
AppendOncePerStep(s) ==
  /\ ledger' = IF \E k \in 1..Len(ledger[s]) : ledger[s][k].step = CurrentStep(s).id
                 THEN ledger ELSE [ledger EXCEPT ![s] = Append(@, ReceiptOf(s))]
  /\ queue' = IF s \in QueuedSessions THEN queue \cup {<<s, ReceiptOf(s)>>} ELSE queue
  /\ evidence' = [evidence EXCEPT ![s] = Append(@, ReceiptOf(s))]
  /\ UNCHANGED <<eligibility, refunds, outbox, seen, runs, plan, final>>

\* EvidenceLedger.append, then the runner's own log.
AppendReceipt(s) ==
  /\ ledger' = [ledger EXCEPT ![s] = Append(@, ReceiptOf(s))]
  /\ queue' = IF s \in QueuedSessions THEN queue \cup {<<s, ReceiptOf(s)>>} ELSE queue
  /\ evidence' = [evidence EXCEPT ![s] = Append(@, ReceiptOf(s))]
  /\ UNCHANGED <<eligibility, refunds, outbox, seen, runs, plan, final>>

RecordVerified(s) ==
  /\ pc[s] = "record" /\ verdict[s] = "match"
  /\ AppendReceipt(s)
  /\ SetState(s, "VERIFIED")
  /\ completed' = [completed EXCEPT ![s] = Append(@, CurrentStep(s).id)]
  /\ index' = [index EXCEPT ![s] = @ + 1]
  /\ pc' = [pc EXCEPT ![s] = "loop"]
  /\ trace' = [trace EXCEPT ![s] = {}]
  /\ verdict' = [verdict EXCEPT ![s] = "none"]
  /\ outcome' = outcome

\* Mutant of RecordMismatch: the verdict is noted and the run goes on.
AdvisoryMismatch(s) ==
  /\ pc[s] = "record" /\ verdict[s] # "match"
  /\ AppendReceipt(s)
  /\ SetState(s, "VERIFIED")
  /\ index' = [index EXCEPT ![s] = @ + 1]
  /\ pc' = [pc EXCEPT ![s] = "loop"]
  /\ UNCHANGED <<completed, trace, verdict, outcome>>

\* Mutant of RecordMismatch: the step is retried without a budget.
RetryMismatch(s) ==
  /\ pc[s] = "record" /\ verdict[s] # "match"
  /\ seen' = [seen EXCEPT ![s] = @ \ {CurrentStep(s).key}]
  /\ pc' = [pc EXCEPT ![s] = "loop"]
  /\ UNCHANGED <<eligibility, refunds, outbox, queue, ledger, runs, plan, index,
                 states, completed, evidence, trace, verdict, outcome, final>>

RecordMismatch(s) ==
  /\ pc[s] = "record" /\ verdict[s] # "match"
  /\ AppendReceipt(s)
  /\ SetState(s, "FAILED")
  /\ Return(s,
            IF CurrentStep(s).rev = "checkable-irreversible" THEN "ESCALATED"
                                                             ELSE "PARTIAL",
            {CurrentStep(s).id},
            Classify({}, ActualFields(verdict[s]), trace[s], CurrentStep(s).key, seen[s]))
  /\ UNCHANGED <<index, completed, trace, verdict>>

\* The queue's write raises after the ledger has the receipt.
EnqueueRaises(s) ==
  /\ pc[s] = "record" /\ "enqueue" \in Faults /\ s \in QueuedSessions
  /\ ledger' = [ledger EXCEPT ![s] = Append(@, ReceiptOf(s))]
  /\ pc' = [pc EXCEPT ![s] = "raised"]
  /\ UNCHANGED <<eligibility, refunds, outbox, queue, seen, runs, plan, index,
                 states, completed, evidence, trace, verdict, outcome, final>>

Finish(s) ==
  /\ pc[s] = "loop" /\ ~HasStep(s)
  /\ Return(s, "COMPLETE", {}, "none")
  /\ UNCHANGED <<eligibility, refunds, outbox, queue, ledger, seen, runs, plan,
                 index, states, completed, evidence, trace, verdict, final>>

-----------------------------------------------------------------------------
(* CompletionGate, ReportGenerator and the life of a process.              *)

\* Mutant of ExpectedSteps: steps are counted by their ids.
CountStates(s) == Cardinality(DOMAIN states[s])

\* expected_step_count or len(states): a count of zero falls through.
ExpectedSteps(s) ==
  IF Len(plan[s].steps) # 0 THEN Len(plan[s].steps) ELSE Cardinality(DOMAIN states[s])

\* Mutant of ComputeStatus: any run that returned without an error completes.
TrustRunner(s) ==
  IF outcome[s].status \in {"ESCALATED", "FAILED"} THEN outcome[s].status ELSE "COMPLETE"

ComputeStatus(s) ==
  IF /\ outcome[s].status = "COMPLETE"
     /\ Len(completed[s]) = ExpectedSteps(s)
     /\ \A i \in 1..Len(evidence[s]) : evidence[s][i].result = "VERIFIED"
    THEN "COMPLETE"
  ELSE IF outcome[s].status \in {"ESCALATED", "FAILED"} THEN outcome[s].status
  ELSE "PARTIAL"

Gate(s) ==
  /\ pc[s] = "returned"
  /\ final' = [final EXCEPT ![s] = ComputeStatus(s)]
  /\ pc' = [pc EXCEPT ![s] = "gated"]
  /\ UNCHANGED <<eligibility, refunds, outbox, queue, ledger, seen, runs, plan, index,
                 states, completed, evidence, trace, verdict, outcome>>

\* The report lists as unproven the one step the runner failed on.
UnprovenClaims(s) ==
  IF outcome[s].status = "COMPLETE" THEN {} ELSE outcome[s].failed

\* RollbackEngine.rollback_refund: part of the package, called by no one.
Rollback(q) ==
  /\ UpdateRefundStatus(q, "CANCELLED")
  /\ UNCHANGED <<queue, ledger, seen, runs, pc, plan, index, states, completed,
                 evidence, trace, verdict, outcome, final>>

\* The process ends, or the browser session does: its memory is gone.
Crash(s) ==
  /\ "crash" \in Faults /\ pc[s] # "idle"
  /\ ledger' = [ledger EXCEPT ![s] = <<>>]
  /\ seen' = [seen EXCEPT ![s] = {}]
  /\ pc' = [pc EXCEPT ![s] = "idle"]
  /\ plan' = [plan EXCEPT ![s] = NoPlan]
  /\ index' = [index EXCEPT ![s] = 1]
  /\ states' = [states EXCEPT ![s] = <<>>]
  /\ completed' = [completed EXCEPT ![s] = <<>>]
  /\ evidence' = [evidence EXCEPT ![s] = <<>>]
  /\ trace' = [trace EXCEPT ![s] = {}]
  /\ verdict' = [verdict EXCEPT ![s] = "none"]
  /\ outcome' = [outcome EXCEPT ![s] = NoOutcome]
  /\ final' = [final EXCEPT ![s] = "NONE"]
  /\ UNCHANGED <<eligibility, refunds, outbox, queue, runs>>

RunnerStep(s) ==
  \/ Execute(s) \/ ToolRaises(s)
  \/ Check(s) \/ CheckRaises(s)
  \/ RecordVerified(s) \/ RecordMismatch(s) \/ EnqueueRaises(s)
  \/ Finish(s) \/ Gate(s)

\* Every session has returned and no caller starts another run.
Quiescent ==
  /\ \A s \in Sessions : pc[s] \in {"idle", "gated", "raised"} /\ runs[s] = MaxRuns
  /\ UNCHANGED vars

Next ==
  \/ \E s \in Sessions :
       \/ \E p \in Plans, fresh \in BOOLEAN : StartRun(s, p, fresh)
       \/ RunnerStep(s)
       \/ Crash(s)
  \/ \E q \in Requests : Rollback(q)
  \/ Quiescent

Spec == Init /\ [][Next]_vars

\* A thread that is inside run_plan is scheduled again and again.
FairSpec == Spec /\ \A s \in Sessions : WF_vars(RunnerStep(s))

-----------------------------------------------------------------------------
(* Properties.                                                             *)

\* The variables hold what the code's fields and tables can hold; in
\* particular the step index never passes the end of the plan and the state
\* map always covers exactly the plan's steps (dag_runner.py:28-38).
TypeOK ==
  /\ eligibility \subseteq EligibilityRows
  /\ refunds \subseteq RefundRows
  /\ outbox \subseteq Requests
  /\ queue \subseteq QueuedSessions \X Receipts
  /\ ledger \in [Sessions -> Seq(Receipts)]
  /\ seen \in [Sessions -> SUBSET Keys]
  /\ runs \in [Sessions -> 0..MaxRuns]
  /\ pc \in [Sessions -> PCs]
  /\ plan \in [Sessions -> Plans \cup {NoPlan}]
  /\ index \in [Sessions -> Nat \ {0}]
  /\ DOMAIN states = Sessions
  /\ completed \in [Sessions -> Seq(StepIds)]
  /\ evidence \in [Sessions -> Seq(Receipts)]
  /\ trace \in [Sessions -> SUBSET Fields]
  /\ verdict \in [Sessions -> Verdicts]
  /\ outcome \in [Sessions -> Outcomes]
  /\ final \in [Sessions -> Statuses]
  /\ \A s \in Sessions :
       /\ IF pc[s] = "idle" THEN plan[s] = NoPlan ELSE plan[s] \in Plans
       /\ states[s] \in [StepIdsOf(plan[s]) -> StepStates]
       /\ index[s] <= Len(plan[s].steps) + 1
       /\ pc[s] \in {"verify", "record"} => HasStep(s)

\* What a step's checker looks for in the database.
Holds(step, ctx) == VerdictOf(step.checker, ctx) = "match"

\* A step reported as completed is true of the database, in every later state
\* too: whatever other sessions, retries, ghost tools and rollbacks do after
\* the verifier's read, no claim of a run becomes false (run_plan appends to
\* completed_steps only after verify_step passed, dag_runner.py:46-56).
NoFalseClaim ==
  \A s \in Sessions : \A i \in 1..Len(completed[s]) :
    Holds(plan[s].steps[i], Context(s))

\* COMPLETE is backed by the ledger: for every planned step it has the run's
\* VERIFIED receipt, and no receipt of the run says MISMATCH
\* (completion_gate.py:18, independent_verifier.py:31).
CompleteIsEvidenced ==
  \A s \in Sessions : final[s] = "COMPLETE" =>
    /\ \A i \in 1..Len(plan[s].steps) : \E k \in 1..Len(ledger[s]) :
         ledger[s][k] = [run |-> runs[s], index |-> i,
                         step |-> plan[s].steps[i].id, result |-> "VERIFIED"]
    /\ \A k \in 1..Len(ledger[s]) :
         ledger[s][k].run = runs[s] => ledger[s][k].result = "VERIFIED"

\* A mismatch ends its run: no later receipt of the same run is in the ledger,
\* so no step was taken on top of one the verifier refused
\* (dag_runner.py:48-54).
NothingAfterMismatch ==
  \A s \in Sessions : \A j, k \in 1..Len(ledger[s]) :
    /\ j < k
    /\ ledger[s][j].run = ledger[s][k].run
    => /\ ledger[s][j].result = "VERIFIED"
       /\ ledger[s][j].index < ledger[s][k].index

\* A confirmation email is queued only for a refund that is in the database:
\* the irreversible step waits for the verified one before it, although the
\* tools may lie (planner.py:19-27 with dag_runner.py:48-56).
EmailOnlyAfterRefund ==
  \A q \in outbox : \E row \in refunds : row.request = q

\* A planner's plan is refused for a reason, and the failure that is named is
\* one of these: DUPLICATE if the runner had the key already, DUPLICATE too if
\* the request was refunded with another amount, NO_EFFECT if the tool lied
\* about its work; the classifier's other answers are never given.  An honest
\* run is never refused, however sessions interleave (AGENT.md:87, the
\* false-reject rate on clean runs; dag_runner.py:40-54).
NoFalseReject ==
  \A s \in Sessions : final[s] \notin {"NONE", "COMPLETE"} =>
    \/ /\ outcome[s].failure = "DUPLICATE" /\ outcome[s].status = "FAILED"
       /\ CurrentStep(s).key \in seen[s]
    \/ outcome[s].failure = "NO_EFFECT" /\ trace[s] = GhostFields
    \/ /\ outcome[s].failure = "DUPLICATE"
       /\ \E row \in refunds : /\ row.request = Context(s).request
                               /\ ~Close(row.amount, Context(s).amount)

\* The report agrees with the gate: each claim has a receipt of its step, and a
\* run that is not COMPLETE names an unproven step, although the report asks
\* the runner's status and not the gate's (report_generator.py:7-15).
ReportIsHonest ==
  \A s \in Sessions : final[s] # "NONE" =>
    /\ \A i \in 1..Len(completed[s]) : \E k \in 1..Len(evidence[s]) :
         evidence[s][k].step = completed[s][i] /\ evidence[s][k].result = "VERIFIED"
    /\ final[s] # "COMPLETE" => UnprovenClaims(s) # {}

\* Every run comes to an end: a result is gated or an exception leaves
\* run_plan, or the process is gone (dag_runner.py:31-57).
EveryRunEnds ==
  \A s \in Sessions : pc[s] = "loop" ~> pc[s] \in {"gated", "raised", "idle"}

-----------------------------------------------------------------------------
(* The pipeline implements EvidenceGate.                                   *)

\* A postcondition names its checker and all the checker compares.
Fact(step, ctx) == [checker |-> step.checker, request |-> ctx.request,
                    customer |-> ctx.customer, amount |-> ctx.amount]
FactsOf(p) == {Fact(p.steps[i], p.context) : i \in 1..Len(p.steps)}
PlanFacts == UNION {FactsOf(p) : p \in Plans}
TrueFacts == {f \in PlanFacts : VerdictOf(f.checker, f) = "match"}
Goal(s) == IF pc[s] = "idle" THEN {} ELSE FactsOf(plan[s])
Reported(s) == IF final[s] = "NONE" THEN "open" ELSE final[s]

Abstract == INSTANCE EvidenceGate WITH
  Facts <- PlanFacts,
  facts <- TrueFacts,
  goal <- [s \in Sessions |-> Goal(s)],
  status <- [s \in Sessions |-> Reported(s)]

\* COMPLETE is reported only when the postconditions of every planned step
\* are true of the database at that moment, the truth of the database only
\* grows, and a report never changes afterwards: the pipeline implements the
\* abstract gate (completion_gate.py:14-26 over dag_runner.py:27-57).
ImplementsGate == Abstract!Spec

-----------------------------------------------------------------------------
(* The inductive invariants behind NoFalseClaim and CompleteIsEvidenced.   *)

FactAt(s, i) == Fact(plan[s].steps[i], Context(s))

\* What s has completed is true, and so is what its checker has just read.
ClaimsOf(s) ==
  /\ Len(completed[s]) = index[s] - 1
  /\ \A i \in 1..(index[s] - 1) : FactAt(s, i) \in TrueFacts
  /\ pc[s] = "record" /\ verdict[s] = "match" => FactAt(s, index[s]) \in TrueFacts

ClaimInv == \A s \in Sessions : ClaimsOf(s)

InLedger(s, receipt) == \E k \in 1..Len(ledger[s]) : ledger[s][k] = receipt
VerifiedReceipt(s, i) == [run |-> runs[s], index |-> i, step |-> plan[s].steps[i].id,
                          result |-> "VERIFIED"]
\* No receipt of the run says MISMATCH.
NoMismatch(s) ==
  \A k \in 1..Len(ledger[s]) :
    ledger[s][k].run = runs[s] => ledger[s][k].result = "VERIFIED"

EvidenceOf(s) ==
  /\ \A k \in 1..Len(ledger[s]) : ledger[s][k].run <= runs[s]
  /\ \A i \in 1..(index[s] - 1) : InLedger(s, VerifiedReceipt(s, i))
  /\ pc[s] \in {"loop", "verify", "record"} => NoMismatch(s)
  /\ outcome[s].status = "COMPLETE" =>
       pc[s] \in {"returned", "gated"} /\ ~HasStep(s) /\ NoMismatch(s)
  /\ final[s] = "COMPLETE" => outcome[s].status = "COMPLETE"

EvidenceInv == \A s \in Sessions : EvidenceOf(s)

-----------------------------------------------------------------------------
(* What the documents say and the code does not do.                        *)

\* "no duplicate refund for same order" is a postcondition of step S2
\* (AGENT.md:277): a COMPLETE run leaves its order with one refund.
OneRefundPerOrder ==
  \A s \in Sessions : final[s] = "COMPLETE" =>
    Cardinality({row \in refunds : row.order = Context(s).order}) = 1
=============================================================================
