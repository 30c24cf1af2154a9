----------------------- MODULE EvidenceDeliveryProofs -----------------------
(***************************************************************************)
(* Theorems about EvidenceDelivery, for all values of its constants.  A    *)
(* step of the whole is a step of each component or leaves it alone, so    *)
(* that the invariants of both carry over; what is new is that the rows of *)
(* the store are the receipts in the queue, what those are about, and that *)
(* the verdicts given can be told from them.                               *)
(***************************************************************************)
EXTENDS EvidenceDelivery, TLAPS

LEMMA PriorityTyping == ReceiptPriority \in [Items -> Nat]
BY DEF ReceiptPriority

LEMMA FiniteItems ==
  ASSUME IsFiniteSet(Items)
  PROVE  Sync!IsFiniteSet(Items)
BY DEF IsFiniteSet, Sync!IsFiniteSet

\* The store has a row for each receipt that was queued, and no other.
StoreIsQueue ==
  /\ queue \subseteq Items
  /\ \A i \in Items : status[i] # "absent" <=> i \in queue

\* What a queued VERIFIED receipt is about is true of the database.
ClaimsHold ==
  /\ DOMAIN claim = Items
  /\ \A i \in queue : i[2].result = "VERIFIED" => claim[i] \in Pipeline!TrueFacts

ReceiptFor(r, i, v) ==
  <<r.session, [run |-> r.run, index |-> i, step |-> r.plan.steps[i].id, result |-> v]>>

\* The queue has what tells verdict r.
Backed(r) ==
  /\ r.verdict = "COMPLETE" =>
       \A i \in 1..Len(r.plan.steps) : /\ ReceiptFor(r, i, "VERIFIED") \in queue
                                       /\ ReceiptFor(r, i, "MISMATCH") \notin queue
  /\ r.verdict \in {"PARTIAL", "ESCALATED"} =>
       \E i \in 1..Len(r.plan.steps) : ReceiptFor(r, i, "MISMATCH") \in queue

\* The run of a verdict is over: the session's next receipt is of a later one.
Over(r) ==
  /\ r.session \in QueuedSessions /\ r.plan \in Plans
  /\ r.run \in 1..MaxRuns /\ r.run <= runs[r.session]
  /\ r.run = runs[r.session] => pc[r.session] \in {"gated", "idle"}

ReportsKept == \A r \in reported : Backed(r) /\ Over(r)

DeliveryInv ==
  Pipeline!RunInv /\ Sync!OrderInv /\ StoreIsQueue /\ ClaimsHold /\ ReportsKept

LEMMA ItemOf ==
  ASSUME NEW s \in QueuedSessions, NEW n \in 1..MaxRuns, NEW p \in Plans,
         NEW i \in 1..Len(p.steps), NEW v \in {"VERIFIED", "MISMATCH"}
  PROVE  <<s, [run |-> n, index |-> i, step |-> p.steps[i].id, result |-> v]>> \in Items
<1>. DEFINE part(t, m, q) ==
       {<<t, [run |-> m, index |-> j, step |-> q.steps[j].id, result |-> w]>> :
          j \in 1..Len(q.steps), w \in {"VERIFIED", "MISMATCH"}}
<1>1. <<s, [run |-> n, index |-> i, step |-> p.steps[i].id, result |-> v]>> \in part(s, n, p)
  OBVIOUS
<1>2. part(s, n, p) \in {part(t, m, q) : t \in QueuedSessions, m \in 1..MaxRuns, q \in Plans}
  <2>. HIDE DEF part
  <2>. QED
    OBVIOUS
<1>3. Items = UNION {part(t, m, q) : t \in QueuedSessions, m \in 1..MaxRuns, q \in Plans}
  BY DEF Items
<1>. QED
  <2>. HIDE DEF part
  <2>. QED
    BY <1>1, <1>2, <1>3

LEMMA ReceiptIsItem ==
  ASSUME Pipeline!RunInv, NEW s \in QueuedSessions \cap Sessions, pc[s] = "record"
  PROVE  <<s, Pipeline!ReceiptOf(s)>> \in Items
<1>1. Pipeline!TypeOK /\ Pipeline!QueueOf(s)
  BY DEF Pipeline!RunInv, Pipeline!GateInv, Pipeline!QueueInv
<1>2. plan[s] \in Plans /\ index[s] \in 1..Len(plan[s].steps)
  BY <1>1, PipelineAssumption, Pipeline!CurrentStepTyping DEF Pipeline!TypeOK
<1>3. runs[s] \in 1..MaxRuns
  BY <1>1, PipelineAssumption DEF Pipeline!TypeOK, Pipeline!QueueOf
<1>. QED
  BY <1>2, <1>3, ItemOf DEF Pipeline!ReceiptOf, Pipeline!CurrentStep

LEMMA ComponentSteps ==
  ASSUME DeliveryInv, [Next]_vars
  PROVE  [Pipeline!Next]_(Pipeline!vars) /\ [Sync!Next]_(Sync!vars)
<1>1. CASE UNCHANGED vars
  BY <1>1 DEF vars, pipeline, sync, Pipeline!vars, Sync!vars
<1>4. CASE \E s \in QueuedSessions : MakeStep(s)
  <2>1. PICK s \in QueuedSessions : MakeStep(s)
    BY <1>4
  <2>2. <<s, Pipeline!ReceiptOf(s)>> \in Items
    BY <2>1, PipelineAssumption, ReceiptIsItem DEF MakeStep, DeliveryInv
  <2>3. Sync!Next
    BY <2>1, <2>2 DEF MakeStep, Sync!Next
  <2>. QED
    BY <2>1, <2>3 DEF MakeStep, pipeline, Pipeline!vars
<1>2. CASE SyncStep
  <2>1. Sync!Next
    BY <1>2 DEF SyncStep, Sync!Next
  <2>. QED
    BY <1>2, <2>1 DEF SyncStep, pipeline, Pipeline!vars
<1>3. CASE PipelineStep
  <2>1. CASE queue' = queue
    BY <1>3, <2>1 DEF PipelineStep, sync, Sync!vars
  <2>2. CASE queue' # queue
    <3>1. PICK s \in QueuedSessions \cap Sessions :
            /\ Pipeline!RecordVerified(s) \/ Pipeline!RecordMismatch(s)
            /\ queue' = queue \cup {<<s, Pipeline!ReceiptOf(s)>>}
      BY <1>3, <2>2, PipelineAssumption, Pipeline!QueueGrows DEF PipelineStep
    <3>2. <<s, Pipeline!ReceiptOf(s)>> \in Items
      BY <3>1, ReceiptIsItem DEF Pipeline!RecordVerified, Pipeline!RecordMismatch, DeliveryInv
    <3>3. Sync!Enqueue(<<s, Pipeline!ReceiptOf(s)>>)
      BY <1>3, <2>2, <3>1 DEF PipelineStep
    <3>4. Sync!Next
      BY <3>2, <3>3 DEF Sync!Next
    <3>. QED
      BY <1>3, <3>4 DEF PipelineStep
  <2>. QED
    BY <2>1, <2>2
<1>. QED
  BY <1>1, <1>2, <1>3, <1>4 DEF Next

\* The receipt of a verified step is about what its checker has just read.
LEMMA VerifiedClaim ==
  ASSUME Pipeline!RunInv, NEW s \in Sessions,
         Pipeline!RecordVerified(s) \/ Pipeline!RecordMismatch(s),
         Pipeline!ReceiptOf(s).result = "VERIFIED"
  PROVE  ClaimOf(s) \in Pipeline!TrueFacts
<1>1. pc[s] = "record" /\ verdict[s] = "match"
  BY DEF Pipeline!RecordVerified, Pipeline!RecordMismatch, Pipeline!ReceiptOf
<1>2. Pipeline!FactAt(s, index[s]) \in Pipeline!TrueFacts
  BY <1>1 DEF Pipeline!RunInv, Pipeline!GateInv, Pipeline!ClaimInv, Pipeline!ClaimsOf
<1>. QED
  BY <1>2 DEF ClaimOf, Pipeline!FactAt, Pipeline!CurrentStep

LEMMA PipelineDelivers ==
  ASSUME DeliveryInv, PipelineStep
  PROVE  StoreIsQueue' /\ ClaimsHold'
<1>1. Pipeline!Next /\ Pipeline!TypeOK /\ Pipeline!RunInv
  BY DEF PipelineStep, DeliveryInv, Pipeline!RunInv, Pipeline!GateInv
<1>2. Pipeline!TrueFacts \subseteq Pipeline!TrueFacts'
  BY <1>1, PipelineAssumption, Pipeline!FactsGrow
<1>3. CASE queue' = queue
  <2>1. UNCHANGED <<status, claim>>
    BY <1>3 DEF PipelineStep, sync
  <2>. QED
    BY <1>2, <1>3, <2>1 DEF DeliveryInv, StoreIsQueue, ClaimsHold
<1>4. CASE queue' # queue
  <2>1. PICK s \in QueuedSessions \cap Sessions :
          /\ Pipeline!RecordVerified(s) \/ Pipeline!RecordMismatch(s)
          /\ queue' = queue \cup {<<s, Pipeline!ReceiptOf(s)>>}
    BY <1>1, <1>4, PipelineAssumption, Pipeline!QueueGrows
  <2>. DEFINE new == <<s, Pipeline!ReceiptOf(s)>>
  <2>2. new \in Items
    BY <1>1, <2>1, ReceiptIsItem DEF Pipeline!RecordVerified, Pipeline!RecordMismatch
  <2>3. Sync!Enqueue(new) /\ claim' = [claim EXCEPT ![new] = ClaimOf(s)]
    BY <1>4, <2>1 DEF PipelineStep
  <2>4. Pipeline!ReceiptOf(s).result = "VERIFIED" => ClaimOf(s) \in Pipeline!TrueFacts
    BY <1>1, <2>1, VerifiedClaim
  <2>5. new[1] = s /\ new[2] = Pipeline!ReceiptOf(s)
    OBVIOUS
  <2>. HIDE DEF new
  <2>6. status' = [status EXCEPT ![new] = "PENDING"] /\ DOMAIN status = Items
    BY <2>3 DEF Sync!Enqueue, DeliveryInv, Sync!OrderInv, Sync!SyncInv, Sync!TableTyped
  <2>7. StoreIsQueue'
    BY <2>1, <2>2, <2>6 DEF DeliveryInv, StoreIsQueue, new
  <2>8. ClaimsHold'
    BY <1>2, <2>1, <2>2, <2>3, <2>4, <2>5 DEF DeliveryInv, ClaimsHold, new
  <2>. QED
    BY <2>7, <2>8
<1>. QED
  BY <1>3, <1>4

\* The other steps leave the pipeline alone.
LEMMA OthersDeliver ==
  ASSUME DeliveryInv,
         SyncStep \/ UNCHANGED vars \/ \E s \in QueuedSessions : MakeStep(s)
  PROVE  StoreIsQueue' /\ ClaimsHold' /\ ReportsKept'
<1>1. /\ UNCHANGED <<queue, runs, pc, claim, reported>> /\ Pipeline!TypeOK
      /\ UNCHANGED (Pipeline!vars)
  BY DEF SyncStep, MakeStep, vars, pipeline, Pipeline!vars, DeliveryInv, Pipeline!RunInv,
         Pipeline!GateInv
<1>2. Pipeline!TrueFacts \subseteq Pipeline!TrueFacts'
  BY <1>1, PipelineAssumption, Pipeline!FactsGrow
<1>3. \A i \in Items : status'[i] = "absent" <=> status[i] = "absent"
  <2>1. CASE SyncStep
    BY <2>1, SyncAssumption, PriorityTyping, Sync!ServeAddsNoRow DEF SyncStep, DeliveryInv
  <2>2. CASE UNCHANGED vars \/ \E s \in QueuedSessions : MakeStep(s)
    BY <2>2 DEF vars, sync, MakeStep, Sync!MakeItem
  <2>. QED
    BY <2>1, <2>2
<1>4. ReportsKept'
  BY <1>1 DEF DeliveryInv, ReportsKept, Backed, Over, ReceiptFor
<1>. QED
  BY <1>1, <1>2, <1>3, <1>4 DEF DeliveryInv, StoreIsQueue, ClaimsHold

\* A session's run number only grows, and a run that is over stays over.
LEMMA RunsMove ==
  ASSUME Pipeline!TypeOK, Pipeline!Next, NEW s \in Sessions
  PROVE  \/ runs'[s] = runs[s] + 1
         \/ /\ runs'[s] = runs[s]
            /\ pc[s] \in {"gated", "idle"} => pc'[s] \in {"gated", "idle"}
<1>1. ASSUME NEW r \in Sessions,
             \/ \E p \in Plans, fresh \in BOOLEAN : Pipeline!StartRun(r, p, fresh)
             \/ Pipeline!RunnerStep(r) \/ Pipeline!Crash(r),
             r # s
      PROVE  runs'[s] = runs[s] /\ pc'[s] = pc[s]
  BY <1>1, PipelineAssumption, Pipeline!OthersSame DEF Pipeline!Same
<1>2. ASSUME NEW p \in Plans, NEW fresh \in BOOLEAN, Pipeline!StartRun(s, p, fresh)
      PROVE  runs'[s] = runs[s] + 1
  BY <1>2 DEF Pipeline!StartRun, Pipeline!TypeOK
<1>3. CASE Pipeline!Crash(s)
  BY <1>3 DEF Pipeline!Crash, Pipeline!TypeOK
<1>4. CASE Pipeline!RunnerStep(s)
  <2>1. runs' = runs /\ pc[s] \notin {"gated", "idle"}
    BY <1>4 DEF Pipeline!RunnerStep, Pipeline!Execute, Pipeline!ToolRaises, Pipeline!Check,
                Pipeline!CheckRaises, Pipeline!RecordVerified, Pipeline!RecordMismatch,
                Pipeline!AppendReceipt, Pipeline!EnqueueRaises, Pipeline!Finish,
                Pipeline!Gate
  <2>. QED
    BY <2>1
<1>5. ASSUME NEW q \in Requests, Pipeline!Rollback(q) PROVE runs' = runs /\ pc' = pc
  BY <1>5 DEF Pipeline!Rollback
<1>6. CASE Pipeline!Quiescent
  BY <1>6 DEF Pipeline!Quiescent, Pipeline!vars
<1>. QED
  BY <1>1, <1>2, <1>3, <1>4, <1>5, <1>6 DEF Pipeline!Next

\* Only the gate gives a verdict.
LEMMA GateReports ==
  ASSUME Pipeline!TypeOK, Pipeline!Next, NEW s \in Sessions,
         final'[s] \notin {"NONE", final[s]}
  PROVE  Pipeline!Gate(s)
<1>1. ASSUME NEW r \in Sessions,
             \/ \E p \in Plans, fresh \in BOOLEAN : Pipeline!StartRun(r, p, fresh)
             \/ Pipeline!RunnerStep(r) \/ Pipeline!Crash(r)
      PROVE  r = s
  BY <1>1, PipelineAssumption, Pipeline!OthersSame DEF Pipeline!Same
<1>2. ASSUME NEW p \in Plans, NEW fresh \in BOOLEAN PROVE ~Pipeline!StartRun(s, p, fresh)
  BY DEF Pipeline!StartRun, Pipeline!TypeOK
<1>3. ~Pipeline!Crash(s)
  BY DEF Pipeline!Crash, Pipeline!TypeOK
<1>4. Pipeline!RunnerStep(s) => Pipeline!Gate(s)
  BY DEF Pipeline!RunnerStep, Pipeline!Execute, Pipeline!ToolRaises, Pipeline!Check,
         Pipeline!CheckRaises, Pipeline!RecordVerified, Pipeline!RecordMismatch,
         Pipeline!AppendReceipt, Pipeline!EnqueueRaises, Pipeline!Finish
<1>5. \A q \in Requests : ~Pipeline!Rollback(q)
  BY DEF Pipeline!Rollback
<1>6. ~Pipeline!Quiescent
  BY DEF Pipeline!Quiescent, Pipeline!vars
<1>. QED
  BY <1>1, <1>2, <1>3, <1>4, <1>5, <1>6 DEF Pipeline!Next

\* A verdict that is given is told by the queue.
LEMMA GateIsBacked ==
  ASSUME Pipeline!RunInv, Pipeline!RunInv', NEW s \in QueuedSessions, Pipeline!Gate(s),
         NEW r, r = [session |-> s, run |-> runs[s], plan |-> plan[s], verdict |-> final'[s]]
  PROVE  (Backed(r) /\ Over(r))'
<1>1. /\ s \in Sessions /\ Pipeline!TypeOK /\ Pipeline!TypeOK'
      /\ Pipeline!QueueOf(s) /\ Pipeline!QueueOf(s)'
      /\ Pipeline!EvidenceOf(s) /\ Pipeline!EvidenceOf(s)'
  BY PipelineAssumption
  DEF Pipeline!RunInv, Pipeline!GateInv, Pipeline!QueueInv, Pipeline!EvidenceInv
<1>2. /\ pc[s] = "returned" /\ pc'[s] = "gated"
      /\ UNCHANGED <<queue, runs, plan, index, outcome>>
  BY <1>1 DEF Pipeline!Gate, Pipeline!TypeOK
<1>3. plan[s] \in Plans /\ runs[s] \in 1..MaxRuns /\ plan[s].steps \in Seq(Pipeline!Steps)
  BY <1>1, <1>2, PipelineAssumption DEF Pipeline!TypeOK, Pipeline!QueueOf
<1>4. Over(r)'
  BY <1>2, <1>3 DEF Over
<1>5. \A i : /\ ReceiptFor(r, i, "VERIFIED") = <<s, Pipeline!VerifiedReceipt(s, i)>>
            /\ ReceiptFor(r, i, "MISMATCH") = <<s, Pipeline!MismatchReceipt(s, i)>>
  BY DEF ReceiptFor, Pipeline!VerifiedReceipt, Pipeline!MismatchReceipt
<1>6. ASSUME final'[s] = "COMPLETE", NEW i \in 1..Len(plan[s].steps)
      PROVE  /\ ReceiptFor(r, i, "VERIFIED") \in queue
             /\ ReceiptFor(r, i, "MISMATCH") \notin queue
  <2>1. outcome[s].status = "COMPLETE" /\ ~Pipeline!HasStep(s)
    BY <1>1, <1>2, <1>6 DEF Pipeline!EvidenceOf, Pipeline!HasStep
  <2>2. i \in 1..(index[s] - 1)
    BY <1>1, <1>3, <1>6, <2>1 DEF Pipeline!HasStep, Pipeline!TypeOK
  <2>3. <<s, Pipeline!VerifiedReceipt(s, i)>> \in queue
    BY <1>1, <2>2 DEF Pipeline!QueueOf, Pipeline!Queued
  <2>4. <<s, Pipeline!MismatchReceipt(s, i)>> \notin queue
    BY <1>1, <2>1 DEF Pipeline!QueueOf, Pipeline!Clean, Pipeline!MismatchReceipt
  <2>. QED
    BY <1>5, <2>3, <2>4
<1>7. ASSUME final'[s] \in {"PARTIAL", "ESCALATED"}
      PROVE  \E i \in 1..Len(plan[s].steps) : ReceiptFor(r, i, "MISMATCH") \in queue
  <2>1. Pipeline!Refused(s)
    BY <1>1, <1>2, <1>7 DEF Pipeline!QueueOf, Pipeline!Stopped
  <2>. QED
    BY <1>5, <2>1 DEF Pipeline!Refused
<1>8. Backed(r)'
  BY <1>2, <1>6, <1>7 DEF Backed
<1>. QED
  BY <1>4, <1>8

\* A new receipt is of a run in progress: what tells earlier verdicts stays.
LEMMA ReportsStay ==
  ASSUME DeliveryInv, PipelineStep, NEW r \in reported
  PROVE  (Backed(r) /\ Over(r))'
<1>1. /\ Pipeline!Next /\ Pipeline!TypeOK /\ Pipeline!RunInv /\ Backed(r) /\ Over(r)
      /\ r.session \in Sessions
  BY PipelineAssumption
  DEF PipelineStep, DeliveryInv, Pipeline!RunInv, Pipeline!GateInv, ReportsKept, Over
<1>2. Over(r)'
  <2>1. runs[r.session] \in Nat
    BY <1>1, PipelineAssumption DEF Pipeline!TypeOK
  <2>. QED
    BY <1>1, <2>1, RunsMove DEF Over
<1>3. queue \subseteq queue' /\ \A i : ReceiptFor(r, i, "MISMATCH") \in queue' =>
        ReceiptFor(r, i, "MISMATCH") \in queue
  <2>1. CASE queue' # queue
    <3>1. PICK s \in QueuedSessions \cap Sessions :
            /\ Pipeline!RecordVerified(s) \/ Pipeline!RecordMismatch(s)
            /\ queue' = queue \cup {<<s, Pipeline!ReceiptOf(s)>>}
      BY <1>1, <2>1, PipelineAssumption, Pipeline!QueueGrows
    <3>2. pc[s] = "record"
      BY <3>1 DEF Pipeline!RecordVerified, Pipeline!RecordMismatch
    <3>3. ~(r.session = s /\ r.run = runs[s])
      BY <1>1, <3>2 DEF Over
    <3>4. \A i : ReceiptFor(r, i, "MISMATCH") # <<s, Pipeline!ReceiptOf(s)>>
      BY <3>3 DEF ReceiptFor, Pipeline!ReceiptOf
    <3>. QED
      BY <3>1, <3>4
  <2>. QED
    BY <2>1
<1>4. Backed(r)'
  BY <1>1, <1>3 DEF Backed, ReceiptFor
<1>. QED
  BY <1>2, <1>4

LEMMA PipelineReports ==
  ASSUME DeliveryInv, Pipeline!RunInv', PipelineStep
  PROVE  ReportsKept'
<1>. SUFFICES ASSUME NEW r \in reported', r \notin reported PROVE (Backed(r) /\ Over(r))'
  BY ReportsStay DEF ReportsKept
<1>1. PICK s \in QueuedSessions :
        /\ final'[s] \notin {"NONE", final[s]}
        /\ r = [session |-> s, run |-> runs[s], plan |-> plan[s], verdict |-> final'[s]]
  BY DEF PipelineStep, NoteVerdicts
<1>2. Pipeline!Gate(s)
  BY <1>1, PipelineAssumption, GateReports
  DEF PipelineStep, DeliveryInv, Pipeline!RunInv, Pipeline!GateInv
<1>. QED
  BY <1>1, <1>2, GateIsBacked DEF DeliveryInv

LEMMA DeliveryInvStep ==
  ASSUME IsFiniteSet(Items)
  PROVE  DeliveryInv /\ [Next]_vars => DeliveryInv'
<1>. SUFFICES ASSUME DeliveryInv, [Next]_vars PROVE DeliveryInv'
  OBVIOUS
<1>1. [Pipeline!Next]_(Pipeline!vars) /\ [Sync!Next]_(Sync!vars)
  BY ComponentSteps
<1>2. Pipeline!RunInv'
  BY <1>1, PipelineAssumption, Pipeline!RunStepInv DEF DeliveryInv
<1>3. Sync!OrderInv'
  BY <1>1, SyncAssumption, PriorityTyping, FiniteItems, Sync!OrderStep DEF DeliveryInv
<1>4. StoreIsQueue' /\ ClaimsHold' /\ ReportsKept'
  BY <1>2, PipelineDelivers, PipelineReports, OthersDeliver DEF Next
<1>. QED
  BY <1>2, <1>3, <1>4 DEF DeliveryInv

LEMMA DeliveryInvariant ==
  ASSUME IsFiniteSet(Items)
  PROVE  Spec => []DeliveryInv
<1>1. Init => DeliveryInv
  <2>. SUFFICES ASSUME Init PROVE DeliveryInv
    OBVIOUS
  <2>1. Pipeline!RunInv /\ Sync!OrderInv
    BY PipelineAssumption, Pipeline!InitRun, SyncAssumption, PriorityTyping,
       FiniteItems, Sync!InitOrder
    DEF Init
  <2>2. /\ queue = {} /\ status = [i \in Items |-> "absent"] /\ DOMAIN claim = Items
        /\ reported = {}
    BY DEF Init, Pipeline!Init, Sync!Init
  <2>. QED
    BY <2>1, <2>2 DEF DeliveryInv, StoreIsQueue, ClaimsHold, ReportsKept
<1>2. DeliveryInv /\ [Next]_vars => DeliveryInv'
  BY DeliveryInvStep
<1>. QED
  BY <1>1, <1>2, PTL DEF Spec

\* A queued receipt is on record: its row waits or failed, or the cloud has it.
LEMMA QueuedIsOnRecord ==
  ASSUME DeliveryInv, NEW i \in queue
  PROVE  OnRecord(i)
<1>1. i \in Items /\ status[i] # "absent"
  BY DEF DeliveryInv, StoreIsQueue
<1>2. status[i] \in Sync!Statuses
  BY <1>1 DEF DeliveryInv, Sync!OrderInv, Sync!SyncInv, Sync!TableTyped
<1>3. status[i] \in {"SYNCED", "cleared"} => delivered[i] > 0
  BY <1>1 DEF DeliveryInv, Sync!OrderInv, Sync!DeliveryInv, Sync!OnlyDeliveredLeaves
<1>. QED
  BY <1>1, <1>2, <1>3 DEF OnRecord, Sync!Statuses

\* Each verdict ever given can be told from the store and the cloud, also when
\* the process and its ledger are gone and in later runs (VerdictIsOnRecord):
\* receipts are queued as they are sealed (evidence_ledger.py:69-70), a queued
\* one stays in the store until the cloud has it, and a run that is over gets
\* no more of them.
THEOREM VerdictIsRecorded ==
  ASSUME IsFiniteSet(Items)
  PROVE  Spec => []VerdictIsOnRecord
<1>1. DeliveryInv => VerdictIsOnRecord
  <2>. SUFFICES ASSUME DeliveryInv, NEW r \in reported
                PROVE  /\ r.verdict = "COMPLETE" =>
                            \A i \in 1..Len(r.plan.steps) :
                              /\ OnRecord(ReceiptFor(r, i, "VERIFIED"))
                              /\ status[ReceiptFor(r, i, "MISMATCH")] = "absent"
                       /\ r.verdict \in {"PARTIAL", "ESCALATED"} =>
                            \E i \in 1..Len(r.plan.steps) :
                              OnRecord(ReceiptFor(r, i, "MISMATCH"))
    BY DEF VerdictIsOnRecord, ReceiptFor
  <2>1. Backed(r) /\ Over(r)
    BY DEF DeliveryInv, ReportsKept
  <2>2. \A i \in 1..Len(r.plan.steps) : ReceiptFor(r, i, "MISMATCH") \in Items
    BY <2>1, ItemOf DEF Over, ReceiptFor
  <2>. QED
    BY <2>1, <2>2, QueuedIsOnRecord DEF Backed, DeliveryInv, StoreIsQueue
<1>. QED
  BY <1>1, DeliveryInvariant, PTL

\* What the cloud has as VERIFIED is true of the database (CloudIsTrue): the
\* claim of a receipt is true when it is queued, and no tool of any session
\* makes it false while the receipt is under way (dag_runner.py:46-56,
\* sync_manager.py:49-55).
THEOREM CloudHasTruth ==
  ASSUME IsFiniteSet(Items)
  PROVE  Spec => []CloudIsTrue
<1>1. DeliveryInv => CloudIsTrue
  <2>. SUFFICES ASSUME DeliveryInv, NEW i \in Items, delivered[i] > 0,
                       i[2].result = "VERIFIED"
                PROVE  Pipeline!VerdictOf(claim[i].checker, claim[i]) = "match"
    BY DEF CloudIsTrue
  <2>1. status[i] # "absent"
    BY DEF DeliveryInv, Sync!OrderInv, Sync!RowsSettle
  <2>2. claim[i] \in Pipeline!TrueFacts
    BY <2>1 DEF DeliveryInv, StoreIsQueue, ClaimsHold
  <2>. QED
    BY <2>2 DEF Pipeline!TrueFacts
<1>. QED
  BY <1>1, DeliveryInvariant, PTL

\* The cloud gets a session's receipts in the order of its ledger, but for those
\* whose upload was recorded as failed (DeliveredInOrder): receipts have one
\* priority, so that of two rows of a session the older one is first in every
\* batch.  Of two sessions' receipts it says nothing: the time one is made at is
\* not the time it is inserted at (manager.py:58-64, 100-104).
THEOREM DeliveryKeepsOrder ==
  ASSUME IsFiniteSet(Items)
  PROVE  Spec => []DeliveredInOrder
<1>1. DeliveryInv => DeliveredInOrder
  <2>. SUFFICES ASSUME DeliveryInv, NEW i \in Items, NEW j \in Items, i[1] = j[1],
                       status[i] # "absent", created[i] < created[j], delivered[j] > 0
                PROVE  delivered[i] > 0 \/ retryCount[i] > 0
    BY DEF DeliveredInOrder
  <2>1. Sync!Older(i, j)
    BY DEF Sync!Older, ReceiptPriority, ReceiptWriter
  <2>. QED
    BY <2>1 DEF DeliveryInv, Sync!OrderInv, Sync!DeliveryOrder, Sync!Settled
<1>. QED
  BY <1>1, DeliveryInvariant, PTL
=============================================================================
