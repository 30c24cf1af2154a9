# VERITAS in TLA+

VERITAS runs an agent's plan against a database and reports a task COMPLETE
only when an independent verifier has read each step's effect back and a signed
receipt of that reading exists. This directory models that promise and the
parts it rests on, checks them with TLC on small instances, and proves the main
results with TLAPS for every value of the constants. All paths below are
relative to `src/`.

## 1. The system

| part | source | state | operations |
|---|---|---|---|
| planner | `agent/planner.py` | none | a fixed three-step refund plan; plans of a model or a YAML file |
| executor, database tool | `agent/executor.py`, `agent/tools/database.py` | tables `refund_eligibility`, `refunds`, `email_outbox` | one transaction a tool: replace, insert-or-ignore, insert-or-ignore, update of a status |
| verifier, checker | `verifier/*.py` | none (read-only connection) | one query a step, then a receipt to the ledger |
| classifier | `verifier/failure_classifier.py` | none | a decision list over before, after, declared fields and keys |
| DAG runner | `runner/dag_runner.py` | seen keys; in a run: states, completed, evidence | `run_plan` |
| gate, report | `runner/completion_gate.py`, `runner/report_generator.py` | none | `compute_status`, `generate` |
| ledger, crypto | `ledger/evidence_ledger.py`, `ledger/crypto.py` | receipts in memory, keys | `append`, `verify`, exports |
| Merkle accumulator | `ledger/merkle.py` | leaves, root | `add`, `verify_inclusion` |
| offline queue | `offline_queue/manager.py` | table `offline_queue`, shared by processes | enqueue, dequeue, mark, retry, clear |
| sync manager | `sync/sync_manager.py` | a lock, a flag, a cloud client | `sync_now`, in a caller's thread or one started by a callback |
| connectivity monitor | `utils/connectivity.py` | status, callbacks, a thread | `poll_once` in a loop of its own thread, start, stop with a join that may time out |
| demo, dashboard | `main.py`, `dashboard/streamlit_app.py` | a ledger per process or browser session | one fresh runner for each task |
| recovery | `recovery/*.py` | none | a rollback and a retry table; nothing calls either |
| login | `auth/otp_auth.py`, `auth/login_page.py` | tables `otp_sessions`, `active_sessions`; a browser tab's step, email and session id | request and deliver a code, verify, validate, sign out |
| achievements, anomalies | `gamification/`, `analytics/` | statistics and badges of a user; a history of executions | after a task of the dashboard |
| replay | `replay/` | a cursor | next, previous |

What interacts: any number of sessions (the demo, browser tabs) share one SQLite
system of record and one queue file. A session is sequential inside, and any
other session may move between two of its database accesses. A receipt travels
from the verifier into the session's ledger, from there into the queue (only if
the ledger was given one: `main.py:33` does, `dashboard/streamlit_app.py:57`
does not), and from the queue to a cloud client by way of `sync_now`, which runs
in the monitor's callback thread and in callers' threads.

What is hard: a verdict is about a table other sessions write; a tool's result
may be a lie; an exception leaves `run_plan` with its writes done and no result;
a ledger dies with its process while database and queue stay; receipts are
shared objects; the sync's dequeue, upload and mark are separate steps, and
nothing but the lock of one manager orders them; what follows a dashboard task
is seven database accesses, each of them one that another tab may come before;
a code is read and closed in two; a monitor that is stopped and started again
may have two loops. `PROJECT.json` lists each of these hazards at its line with
the properties that cover it.

## 2. Modules

| module | what it is |
|---|---|
| `EvidencePipeline` | sessions, runner, executor, tools, verifier, classifier, gate, report, rollback, crashes |
| `EvidenceGate` | the abstract promise of the pipeline; `EvidencePipeline` implements it |
| `EvidencePipelineProofs` | proofs about `EvidencePipeline` |
| `MCEvidencePipeline` | the plans of its small instances |
| `MerkleTree` | the root computation and its reference, a tree from the top down |
| `MerkleTreeProofs` | proofs about both, for lists of any length |
| `EvidenceLedger` | receipts: link, leaf, root, signature, queue, verification, holders that alter them; it has the accumulator's leaves and root |
| `EvidenceLedgerProofs` | proofs about `EvidenceLedger` |
| `OfflineSync`, `MCOfflineSync` | the queue's table, managers and their threads, monitors, cloud |
| `OfflineSyncProofs` | proofs about `OfflineSync` |
| `ConnectivityMonitor` | the monitor's controller, its loops and time |
| `ConnectivityMonitorProofs` | proofs about `ConnectivityMonitor` |
| `EvidenceDelivery`, `MCEvidenceDelivery` | `EvidencePipeline` and `OfflineSync` composed on one queue |
| `EvidenceDeliveryProofs` | proofs about the composition, on top of those of its parts |
| `Login`, `MCLogin` | one-time codes, sessions, and the tabs that use them |
| `LoginProofs` | proofs about `Login` |
| `TaskRecords`, `MCTaskRecords` | after a dashboard task: anomalies, history, statistics, badges |
| `TaskRecordsProofs` | proofs about `TaskRecords` |

### EvidencePipeline and the code

An action is what happens between two points where another session may be seen:

| action | code |
|---|---|
| `StartRun` | a caller's `run_plan(plan)`, with a fresh runner (as both callers do) or the one of the last run |
| `Execute` | the loop head, the BLOCKED test, `execute_step` with its transaction, and the key test after it (`dag_runner.py:31-45`) |
| `ToolRaises` | the tool, or an unknown step type, raises out of `run_plan` |
| `Check`, `CheckRaises` | the verifier's query (`independent_verifier.py:15-31`), or its exception |
| `RecordVerified`, `RecordMismatch` | `ledger.append` with its enqueue, then the runner's verdict (`dag_runner.py:46-56`) |
| `EnqueueRaises` | the queue raises after the ledger took the receipt |
| `Finish`, `Gate` | `return COMPLETE` and `compute_status` |
| `Rollback` | `rollback_refund`, at any moment |
| `Crash` | a process or browser session ends: ledger, keys and locals are gone, the tables stay |

`pc` is the point of `run_plan` a session is at, `index` its loop variable;
`states`, `completed`, `evidence`, `outcome` and `final` are the fields of the
result. `trace` is the set of the fields the tool's result has, which is all the
classifier and the email check look at; a ghost result has other fields. Money
is counted in half cents, so that the checker's 0.01 is 2. Amounts exactly that
far apart are decided by the rounding of doubles (`checker.py:53`): 0.06 and
0.05 are close, 0.07 and 0.06 are not. `RoundedDown` is the set of the pairs that
are, any set in the proofs and one of two pairs in the runs; amounts that are not
whole half cents are not modelled. Refund and email ids are
derived from the request id, as the planner derives them. Signing that raises
(`evidence_ledger.py:67`) is `CheckRaises` here, a failure before the ledger has
the receipt; `EvidenceLedger` has it in detail. `Receipts` carry the run and the
step's index so that a ledger that spans runs can be told apart.

`RequestAssumption` says that one request id belongs to one customer. Both
callers satisfy it: `main.py:34` has constants and the dashboard's id is the
time of the click. Without it `INSERT OR REPLACE` lets one run take another's
eligibility row away, and `NoFalseClaim` is false.

### EvidenceLedger, MerkleTree

A hash is the hashed value itself, wrapped once, so hashes collide only when the
values are equal; a signature is the signed value. `AppendReceipt`,
`AppendUnqueued` and `SignRaises` are the three ways a call of `append` ends:
through, with the queue raising after the receipt is in (or no queue at all), and
with `sign_message` raising when only the leaf is in. Signing may raise at any
call: a malformed key would raise at every one, so that no receipt ever existed,
and the model does not assume that this is the only cause. A leaf without a
receipt may therefore stand between two that have one. `Alter` is a holder of a receipt that writes its result, as
`tests/test_ledger.py:16` does: the ledger hands out the objects it keeps.
`issued` and `stale` are history, for the properties.

### OfflineSync

The table's operations are one statement each. A row's `created_at` is not the
time of its INSERT: `MakeItem` takes it when the item is made (`manager.py:103`),
`Enqueue` inserts the item later, and other writers may come in between, so that
rows may appear with a time before that of rows already there. `Writer` says
which items are made by one sequential writer, who inserts an item, or gives it
up, before making the next. The clock is taken not to go back. `sync_now` is split at every
access another thread can see: status, lock, dequeue, upload, mark, release. An
upload may fail before or after the cloud took the item (`Faults`), and
`delivered` counts what it took; the cloud is external, modelled from
`sync_manager.py:29-40`. `QueueRaises` is any queue access inside the `try` that
raises, `ProcessEnds` kills the daemon threads of a manager. A manager in
`Forced` is the dashboard's button: a new monitor that never polls. A manager in
`NoClient` never gets a client (as in `main.py:30`), so each of its uploads
raises and its items become FAILED.

### EvidenceDelivery

The composition instantiates both modules on one set of variables. A session
that is about to record a receipt makes its item (`MakeStep`), and a step of the
pipeline that adds to its `queue` is, in the same step, `OfflineSync`'s
`Enqueue` of that item, since `ledger.append` calls the queue
(`evidence_ledger.py:69-70`); a session may die in between. Every other step of either module leaves the
other's variables alone (`Serve` is all that `OfflineSync` does but an enqueue).
The items of the store are the receipts, all of one type and priority
(`manager.py:100`). `claim` is history: the postcondition each receipt was
about, for `CloudIsTrue`; `reported` is history too: every verdict a session with
a queue has given, with its run and plan. A crash empties the session and leaves
`reported`, and it is over `reported` that `VerdictIsOnRecord` quantifies. What it instantiates are the modules with the proofs
(`Pipeline == INSTANCE EvidencePipelineProofs`, `Sync == INSTANCE
OfflineSyncProofs WITH ...`), so that a lemma about a component is one about the
whole; `PipelineAssumption` and `SyncAssumption` repeat what the components
assume of their constants.

### ConnectivityMonitor

One controller calls `start` and `stop`; each `start` that finds `_running`
False makes a new loop. A loop is split at each access to `_running`, `status`
and the network: `Test`, `CheckReturns`, `ReadStatus`, `WriteStatus`, `Notify`,
`Wake`. `Stop` sets the flag and begins the join, `StopReturns` ends it, when
the thread has ended or the time is up; it forgets the thread either way, as
`connectivity.py:79` does. A later `Start` sets the flag again and a forgotten
loop runs on beside the new one.

`Tick` is a second. Time passes only when every loop is inside a request or
asleep: between its waits a loop takes no time, an assumption about the
interpreter that `LostLoopsWereChecking` depends on, as `stop` leaves one second
of margin. A request answers at any moment up to `CheckBound`, with what the
network is at that moment; `urlopen`'s five seconds bound each socket operation
and not the whole request, which is why `CheckBound` may exceed `JoinTimeout`.
`LoopDies` is an exception that is neither an `OSError` nor a `URLError`
(`http.client.HTTPException`, for one): the thread ends and `_running` stays
True. The callbacks are taken not to raise; the only one registered in `src/`
starts a thread.

### Login

A code is the row of `otp_sessions` with its id, so the codes of two rows are
taken to differ, and what a user types is a delivered code or no code at all.
`RequestOtp` is the transaction that closes the older codes and stores the new
one; `Deliver` comes after it and may report a failure although the message is
out. `ReadCode` is the SELECT, and `CountAttempt` or `OpenSession` the write
after it: SQLite opens the transaction at the first write, so another tab may
read, close or supersede the row in between. `AccessRaises` is an exception of
that write, rolled back.

`SignIn` makes the assignments of `login_page.py:50-53`, or a prefix of them: a
click ends a running Streamlit script at its next access to the session state.
So do `Deliver` (30-31), `DifferentEmail` (57-58), and `SignOut`, the sidebar
button, which deletes the session's row and then pops the keys
(`dashboard/streamlit_app.py:159-161`), but not `login_step`. `Render` is a run
of the script with its `validate_session`. `TabEnds` loses a tab's state,
wherever its script is. Codes expire in the order of their rows, and so do
sessions, since all live equally long. Emails are valid ones; another is refused
before anything changes.

### TaskRecords

One action for each database access behind `streamlit_app.py:122`: read the
history, store what is flagged, record, update the statistics, read them, read
the badges, insert the missing ones. `with sqlite3.connect(...)` opens a
transaction only at the first write, so that the two reads of
`check_achievements` and its inserts are three accesses. When another session of
the user has stored a badge meanwhile, the primary key refuses it
(`UnlockConflicts`): the transaction rolls back and `_run_task` raises, so the
session sees an error for a task that is counted; what it earned is made up for
by the user's next task. `AccessRaises` is an exception at any access.

`task_id` is unique (the dashboard's request id is the time of the click), rates
are in tenths of a percent, times in ticks, and the comparison is in integers,
so that what floating-point rounding does at the exact threshold, or to the
variance of equal times, is not modelled. The rule for retries is left out
because it cannot fire: the dashboard passes no `retry_count`. `FlagsAreNews`
holds for ten rows or fewer. With eleven, ten equal times and one outlier, the
outlier is more than three deviations from the mean, and another like it is
called "outside the historical range" although it is within.

## 3. Runs

| run | shows | instance and why it is enough |
|---|---|---|
| `pipeline_sessions` | `NoFalseClaim`, `NothingAfterMismatch`, `EmailOnlyAfterRefund`, `NoFalseReject`, `ImplementsGate` | two sessions, two runs each, one request with three amounts, a cent (the tolerance) and two apart, one of the two pairs a cent apart rounded down; ghosts, tools that raise, crashes. Two sessions have every pairwise race, the second run a used database, ledger and key set |
| `pipeline_faults` | `TypeOK`, `CompleteIsEvidenced`, `ReportIsHonest`, `EveryRunEnds` | one session, three runs, every fault, the planner's plan and six foreign ones (empty, repeated ids, repeated keys, unknown type, no checker, an email check on another tool's result). Three runs: fail, repair, repeat |
| `ledger` | `AlteredNeverVerifies`, `LatestVerifies`, `AuditFindsAlteration`, `RootIsTreeRoot` | four calls of `append`, any of which fails to sign or to queue, alterations and restorations at any time: a receipt before, at and behind the altered one and a leaf without a receipt among them. Trees of up to four leaves have one padded level at most; `RootIsTree` is for all |
| `sync_one` | `TypeOK`, `OnlyDeliveredLeaves`, `DuplicatesAreAccounted`, `SyncedIsFinal`, `LockIsReleased`, `ReconnectFlushes` | one manager, two threads, two items of different priority, all faults, one recorded retry, one mishap |
| `delivery` | `VerdictIsOnRecord`, `CloudIsTrue`, `DeliveredInOrder` | one session with two runs of plan files that have the refund step alone, of two amounts of one request, and crashes anywhere; two managers, `main.py`'s without a client and one with, a thread each, symmetric; batches of one. The second run writes after a crash or a verdict of the first, and may be refused for its amount; two managers have every race on the queue, a batch of one leaves the other receipt behind. Ghosts, a queue that raises, retries and upload faults are left to the theorems |
| `monitor` | `LostLoopsWereChecking`, `CallbacksKnowStatus`, `ReconnectIsNoticed`, `StoppedLoopsEnd` | two starts, an interval of two seconds, requests of up to three, as long as the join: the join may give up on the first loop and the second run beside it |
| `login` | `TypeOK`, `CodesCloseInTurn`, `ReuseNeedsRace`, `AttemptsAreBounded`, `SignedInIsProven`, `RefusedForAReason` | two tabs, two emails, two codes, two attempts, every fault. Two codes are a superseded one and its successor, or the codes of two emails; two tabs have every race on a row |
| `task_records` | `TypeOK`, `StatsAreSums`, `UnlockedIsEarned`, `ReturnedTaskLeavesNone`, `AnnouncedOnce`, `CountedIsRecorded`, `FlagsAreNews` | two tabs of one user (symmetric), two tasks each, three results (complete, complete offline, refused offline), one exception. The fourth task is compared with three rows, the fewest for which times are; `EvidenceGoal` is two complete tasks, so that the tabs meet at it |

The run `delivery` has a `VIEW`, `InUse`: it takes two states for the same that
differ only in variables or details no step and no property of that run reads.
They are the ledger, the status of a refund row (`Rollback` writes it, no checker
asks for it), whether a monitor is OFFLINE or DEGRADED, how far above zero a
count of deliveries or failures is (with `MaxRetries` 0 no failed item is retried,
and the properties test for zero only), and the manager and
the answer of a thread's call that is over. Equal views therefore have equal
continuations, up to those details.

Bounds, by name: `MaxRuns` caps the runs of a session, `MaxAppends` the calls of
`append`, `MaxRetries` the attempts of an
item that may still be retried, `MaxTasks` the tasks of a tab, `MaxMishaps` the
accesses that raise and the processes that end, `MaxCodes` the codes requested,
`MaxAttempts` the code's five attempts, `MaxStarts` the loops a monitor makes,
`CheckBound` the seconds of a request. `EvidenceGoal` and `Window`
stand for the two 100s of the code.
`ledger` stops checking deadlock, since it is a passive object nobody need call
again; elsewhere deadlock is checked, and `Quiescent` is the
allowed end: every session returned and its runs or tasks used up.

Fairness is weak and only on threads inside a call: `RunnerStep` of a session
(`run_plan` has no wait in it, and SQLite calls return or raise) and `WorkerStep`
of a sync thread (the lock is tried without blocking, and a cloud call returns
or raises). In `ConnectivityMonitor` also on `Tick`, since time passes, on
`LoopStep`, since threads run and requests end, and on `StopReturns`, since a
join ends. Nothing is assumed of callers, polls, retries or crashes.

What `ReconnectFlushes` promises has limits the code sets: the item waited
already when the network came back, and no thread of the manager was inside
`sync_now`, for then the callback's thread finds the lock taken and gives up. An
item that comes in later waits for the next outage or a caller, and an item that
FAILED for a caller of `retry_failed`, of which there is none in `src/`.
`ReconnectIsNoticed` holds of a monitor no exception has ended; with two loops
the callbacks may end up with an older status than the monitor, which is why
`CallbacksKnowStatus` and its second half exempt them. `ReuseNeedsRace` and
`AttemptsAreBounded` say by how much racing tabs may exceed the limits.

Runs that end in a violation, each a statement of the repository the code does
not satisfy:

| run | statement | what TLC finds |
|---|---|---|
| `pipeline_one_refund` | "no duplicate refund for same order" (`AGENT.md:277`) | two requests for one order are both COMPLETE; `check_no_duplicate_refund` is never called |
| `ledger_valid` | every receipt is valid (`README.md:45`), or else altered (`streamlit_app.py:245`) | a receipt stops verifying when the next is appended |
| `login_single_use` | a "single-use OTP" (`otp_auth.py:117`), "Verify an OTP once" (143), tested at `test_auth.py:8` | two tabs read the open code side by side, each closes it, and it has opened two sessions. `ReuseNeedsRace` is what is left: without such a race a code opens one |
| `sync_force` | "Queue sync completed." (`streamlit_app.py:290`) | the button's monitor is OFFLINE and never polls, so nothing is synchronized |

Further divergences, without a run of their own:

- "downstream steps are `BLOCKED`" after a mismatch (`README.md:45`): they stay
  PENDING. `run_plan` returns at the mismatch, and whatever the plan its loop
  comes to a step only with all steps before it VERIFIED, so the BLOCKED branch
  is never taken.
- WRONG_VALUE for an amount mismatch (`AGENT.md:585`): the failure is DUPLICATE,
  since the runner adds the key (`dag_runner.py:45`) before the classifier asks
  whether it was seen. `NoFalseReject` states which failures can occur.
- Receipts are persisted (`README.md:18-20`): those of the dashboard are not,
  whose ledger has no queue. `VerdictIsOnRecord` is about `QueuedSessions`.
- A list of what is missing (`AGENT.md:16`): the report of a run that is not
  COMPLETE names the failed step only, not those never taken. `ReportIsHonest`
  states what the report does guarantee.
- "Complete a task while offline" and "your first verified task"
  (`achievements.py:15, 13`): the code gives both badges for any offline task and
  any task at all (64, 68), to a user whose only task was refused offline, too.
  `Earned`, and with it `UnlockedIsEarned` and `ReturnedTaskLeavesNone`, follows
  the code here and the descriptions for the other two; an offline refusal is
  among the results of `task_records`.
- A plan without steps is COMPLETE with no receipt (`completion_gate.py:15`, where
  an expected count of zero gives way to the number of states, also zero). No
  caller makes one. `CompleteIsEvidenced` asks for a receipt of each step.

## 4. Proofs

Every theorem holds for all constants that satisfy the named assumptions of its
module: sets of any size, any plans, any faults, any bounds. The last column
names what a theorem needs beyond them.

| module | theorem | states | inductive invariant | also needs |
|---|---|---|---|---|
| `EvidencePipelineProofs` | `TypeCorrect` | `TypeOK` | `TypeOK` | |
| | `ClaimsAreTrue` | `NoFalseClaim` | `ClaimInv` | |
| | `CompletionIsEvidenced` | `CompleteIsEvidenced` | `EvidenceInv` | |
| | `MismatchEndsItsRun` | `NothingAfterMismatch` | `EvidenceInv`, `OrderInv` | |
| | `PipelineImplementsGate` | `ImplementsGate` | `GateInv` | |
| | `ReportsAreHonest` | `ReportIsHonest` | `GateInv`, `HonestInv` | |
| | `EmailsFollowRefunds` | `EmailOnlyAfterRefund` | `GateInv` | every plan is `RefundFirst` |
| | `RefusalsAreJust` | `NoFalseReject` | `HonestInv`, `RefusalInv` | every plan is `WellPlanned` |
| | `PlannerRuns` | the last two, of the planner's plans | | the plans are the planner's |
| `EvidenceLedgerProofs` | `AlterationIsDetected` | `AlteredNeverVerifies` | `LedgerInv` | |
| | `LatestIsVerified` | `LatestVerifies` | `LedgerInv` | |
| | `AuditIsComplete` | `AuditFindsAlteration` | `LedgerInv` | |
| | `RootIsTree` | `RootIsTreeRoot` | `LedgerInv` | |
| `MerkleTreeProofs` | `RootsCommit` | lists of one length with one root are equal | | |
| | `LoopComputesTree` | the loop's root is the tree's, for any list | | |
| `OfflineSyncProofs` | `NothingIsLost` | `OnlyDeliveredLeaves` | `DeliveryInv` | |
| | `SyncIsTyped` | `TypeOK` | `SyncInv` | finitely many items |
| | `DuplicatesHaveACause` | `DuplicatesAreAccounted` | `OneInv` | the same, and one manager |
| | `SyncedStays` | `SyncedIsFinal` | `OneInv` | the same, and one manager |
| `EvidenceDeliveryProofs` | `VerdictIsRecorded` | `VerdictIsOnRecord` | `DeliveryInv` | finitely many items |
| | `CloudHasTruth` | `CloudIsTrue` | `DeliveryInv` | finitely many items |
| | `DeliveryKeepsOrder` | `DeliveredInOrder` | `DeliveryInv` | finitely many items |
| `ConnectivityMonitorProofs` | `TypeCorrect` | `TypeOK` | `MonitorTyping` | |
| | `OnlyRequestsOutliveStop` | `LostLoopsWereChecking` | `MonitorInv` | |
| | `CallbacksAreCurrent` | `CallbacksKnowStatus` | `CallbackInv` | |
| `LoginProofs` | `TypeCorrect` | `TypeOK` | `TypeOK` and the shapes it rests on | |
| | `DashboardIsProven` | `SignedInIsProven` | `SignedInInv` | |
| | `CodesClose` | `CodesCloseInTurn` | `CodeInv` | |
| | `RefusalsHaveReasons` | `RefusedForAReason` | `CodeInv` | |
| | `ReuseIsRaced` | `ReuseNeedsRace` | `CodeInv`, `RaceInv` | finitely many tabs |
| | `AttemptsStop` | `AttemptsAreBounded` | `CodeInv`, `RaceInv` | finitely many tabs |
| `TaskRecordsProofs` | `TasksAreTyped` | `TypeOK` | `TaskTyping` | |
| | `BadgesHaveOneWinner` | `AnnouncedOnce` | `AnnounceInv` | |
| | `CountedTasksAreRecorded` | `CountedIsRecorded` | `RecordInv` | |
| | `StatisticsAreSums` | `StatsAreSums` | `StatsAreSums` | |
| | `UnlockedBadgesAreEarned` | `UnlockedIsEarned` | `EarnedInv` | a complete result has all receipts verified |
| | `ReturnsLeaveNone` | `ReturnedTaskLeavesNone` | `RecordInv`, `LeavesInv` | |
| | `FlaggedIsNews` | `FlagsAreNews` | `RecordInv`, `NewsInv` | a result has three receipts at most |

What some of them need is what the code gives. The planner's plan has the step
that checks the refund before the one that sends the email, and the checker of
each tool (`PlannerIsWellPlanned`); foreign plans need have neither. Sets of
items and tabs are finite because a store and a browser are, and a batch of an
infinite table would have no length. One manager on a queue file is the case in
which the lock orders anything; with two, an item may go to the cloud twice, and
what is proved is what remains true (`NothingIsLost`, `DeliveryKeepsOrder`). That
a complete result has no unverified receipt is `CompletionIsEvidenced`, and that
it has three at most is the plan of the dashboard, which is always the planner's
(`dashboard/streamlit_app.py:90`).

**The pipeline.** `TypeOK` is inductive because it relates `pc`, `plan` and
`index`: a session in "verify" or "record" has a current step, and the state map
has the plan's steps as its domain. `OthersSame` serves all that follows: a
session's step leaves the other sessions' variables alone, so that the work of a
step is on one session.

`NoFalseClaim` is not inductive: nothing in it says what the checker has read
for the step whose receipt is being written. `ClaimInv` adds that this, too, is
true now, and that `completed` is as long as `index` says. The key is
`FactsGrow`: no step of any session makes a postcondition of any plan false.
`RowsKept` says what the tables keep (the eligibility row is replaced by an
equal one because of `RequestAssumption`, a refund row is never overwritten, the
outbox only grows, a rollback keeps the amount), and `FactKept` what follows for
each checker.

`CompleteIsEvidenced` needs that the ledger has no receipt of a run that has not
begun, that the steps before `index` have theirs, and that a run still in its
loop has no MISMATCH. `EvidenceInv` says so; its proof has a lemma for each kind
of action (`StartEvidence`, `VerifiedEvidence`, `RefusedEvidence`,
`QuietEvidence`, `CrashEvidence`) on top of two lemmas on what an append keeps.
`NothingAfterMismatch` needs that a run in its loop has receipts of steps before
`index` only (`Behind`); that they are all VERIFIED is in `EvidenceInv`.

The refinement maps the facts of `EvidenceGate` to the postconditions that are
true of the tables, and a session's report to the gate's answer. A step of
`Gate` is the abstract session's COMPLETE or its giving up; COMPLETE needs
`ClaimInv` and `EvidenceInv`, for all its facts to be true at that moment. A run
that starts and a session that crashes are `Begin`. Every other step leaves goals
and reports alone and adds facts or none, which is `FactsGrow` again: an
abstract `Learn` or a stutter.

`HonestInv` follows the evidence list of the result along the loop: a completed
step has its VERIFIED entry there, and a run that ended otherwise has a step
without one. `EmailOnlyAfterRefund` comes from `ClaimInv`: at the email's step
the claim of the refund's step is true, and the row is never taken away.
`RefusalInv` says where a refusal's reason comes from: between tool and verdict
the tool's work is in the tables unless the tool lied, the step's key is among
those seen, and the checker's answer "different" needs a row of another amount.

`QueueInv` is for the delivery: of a session with a queue, the receipts of the
steps before `index` are in it, a stopped run's refusal is, and a run still in
its loop or COMPLETE has no refusal there. A queue that raises ends the run
before `index` moves on.

**The ledger.** `LedgerInv` says what the three properties share: the issued
receipts carry their signatures; a receipt in the ledger differs from the issued
one in its result only; that of the latest call has the root of now and its leaf
in the tree; ids are the numbers of the calls, those that failed included; and a
receipt that was altered when its successor came is not the one the successor is
linked to. The signature covers the result, so a signed receipt is the issued one
(`SignatureFixesResult`). The hash and the signature are free of collisions by
construction. `RootIsTree` has an invariant of its own, that the root is the
loop's over the leaves, and takes the rest from `LoopComputesTree`.

**The Merkle tree.** Both theorems are inductions over the levels of the tree,
for lists of any length. The library's induction theorems cannot be
instantiated, so an induction is an argument about the least counterexample:
`LeastNumber` gets it from the well-foundedness of finite sets, and `LevelsExist`,
`WidthsExist` and `SubtreesExist` get the recursive functions' equations from
it. For `RootsCommit`, a level determines the one below it (`NextLevelCommits`),
so two lists of one length with one root agree on every level. For
`LoopComputesTree`, row k of the loop consists of the subtrees of height k at the
multiples of 2^k (`FirstRow`, `NextRow`), and a level of odd length repeats just
the node whose sibling is missing. That roots of lists of different length may
agree (a list, and the same with its odd last leaf repeated) is the code's
padding; `RootsCommit` does not exclude it.

**The queue.** `OnlyDeliveredLeaves` is not inductive: between upload and mark
the outcome is in a thread's local. `DeliveryInv` adds that a thread about to
mark an item as synced has seen the cloud take it. `SyncInv` relates the threads
to the lock: those inside `sync_now` past the acquire hold their manager's, one a
manager. With one manager this makes `BatchWaits` inductive: a row of a batch
waits until its thread marks it. Then `Accounted` counts: an item has been taken
at most once more than its failures and the mishaps account for, and that once
only if it has left the store or its mark is next. For any number of managers
`OrderInv` has, of each row of a batch, that what the same writer made earlier, if
it is in the table and no less urgent, is before it in the batch or settled:
delivered, or its failure recorded. Of two writers nothing is said: an item made
earlier by one may be inserted after the other's was sent.

**The delivery.** A step of the whole is a step of each component or leaves it
alone (`ComponentSteps`), so `RunInv` of the pipeline and `OrderInv` of the queue
carry over. New are `StoreIsQueue`, that the rows of the store are the receipts
in the queue, `ClaimsHold`, that what a queued VERIFIED receipt is about is true
(at its enqueue by `ClaimInv`, and from then on by `FactsGrow`), and
`ReportsKept`, that each verdict ever given has its receipts in the queue and that
its run is over. A verdict is backed when it is given, by `QueueInv`, and stays so
because the queue loses nothing in a crash and later receipts carry the number of
a later run.

**The monitor.** `LostLoopsWereChecking` is about the end of a join, and follows
from where the loop was at its start. `JoinedLoopEndsInTime` says so: unless the
loop was in a request, its sleep ends before the join's time is up, and
afterwards it finds `_running` FALSE, as no start comes before the join is over.
It is here that the timeout must be longer than the interval. The module's
`TypeOK` is proved and is not among the run's invariants. `CallbackInv` is about
a monitor whose loops never ran side by side: there is one loop, the status it
replaces is the monitor's, and the one it reports is, too (`PollKnows`).

**The login.** `SignedInInv` adds that a session keeps the email of its code and
that a script between the call of verify_otp and its last assignment was started
from the login page, so that the dashboard is not yet shown. `CodeInv` adds that
the reasons to refuse a code never go away once they are there, that a code a tab
entered and that was closed has such a reason, and that a row that is not in the
table has opened nothing. `RaceInv` bounds what racing tabs can do by counting
each verification that has read a row and not yet written it (`Load`) as if it
had: the sessions opened and the load are together at most the number of tabs,
the attempts and the load at most the limit, and one more for each further tab.
Without a race one tab is between read and write, so the limits are exact.

**The tasks.** A task's row of the screen, its history row and its entry in the
statistics appear in turn, so each invariant says what a session at an access
already has. `AnnounceInv` is the primary key's: what is unlocked was announced,
and by one task. `RecordInv` says that the history has a task at most once, and
not before the access that records it; that what is stored of a task's anomalies
is what it shows; and that a task counts once, after both.
`StatsAreSums` is inductive with the types; a sum over a sequence is a recursive
function, and `TotalAppend` and its kin come from `LeastNumber` as above.
`EarnedInv` and `LeavesInv` are about old reads: statistics only grow, and so
does what they earn, so badges computed from a row some accesses old are still
earned, and what the task itself earned is among them.

`FlaggedIsNews` is arithmetic. Among n numbers, none is further from the mean
than sqrt(n - 1) standard deviations (`NearTheMean`, with Cauchy-Schwarz taken
one number at a time in `OneMore`), so with ten rows the range of the
history is within three deviations, and what is beyond them is outside it; with
eleven it is not. And of three receipts a rate below 90 percent is at most 66.7,
so one such row among six brings the mean below the 95 percent under which
nothing is flagged.

Only model-checked is liveness: `LockIsReleased`, `ReconnectFlushes`,
`ReconnectIsNoticed`, `StoppedLoopsEnd` and `EveryRunEnds`. They need fairness and
ENABLED, which the prover does not handle. Every invariant of a run that passes,
`SyncedIsFinal` and the refinement are proved.

## 5. Not modelled, and the plan

Not modelled because there is no behaviour to check: rendering, the terminal
view, voice commands, comparison and harness metrics, key generation, scripts,
the language model's HTTP call. `recovery/recovery_engine.py` is stored by the
runner and never consulted. `check_no_duplicate_refund` is never called.

The replay is the cursor of one browser tab over a recorded list: nothing shares
it, and its two ends are one comparison each.

Next, in this order:

1. Larger instances, as far as five minutes allow: three codes in `login`, so
   that a code is superseded twice; upload faults in `delivery`.
2. Proofs: a bound on what several managers can deliver twice, in place of
   `OneManager`.
