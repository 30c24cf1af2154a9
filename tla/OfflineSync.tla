---------------------------- MODULE OfflineSync ----------------------------
(***************************************************************************)
(* The store-and-forward queue and the managers that flush it.  The queue  *)
(* is a SQLite table that outlives every process.  A SyncManager has a     *)
(* lock of its own, a connectivity monitor and maybe a cloud client; its   *)
(* sync_now runs in the caller's thread or in one the monitor's callback   *)
(* starts.  Between any two accesses to the table, the lock, the monitor's *)
(* status and the cloud, any other thread may move.                        *)
(***************************************************************************)
EXTENDS Integers, Sequences, FiniteSets

CONSTANTS
  Items,        \* item ids: enqueue draws a fresh one
  Priority,     \* of each item: 10 for receipts, 5 for LLM requests
  Writer,       \* of each item: whose calls of enqueue come one after another
  Unsupported,  \* items whose type the cloud clients do not handle
  Managers,     \* SyncManager objects on the one queue
  Forced,       \* those the dashboard's button makes: monitor never started
  NoClient,     \* managers that never get a cloud client, as in main.py
  Workers,      \* threads that may run sync_now
  Limit,        \* dequeue_pending's limit
  Faults,       \* which of FaultKinds may happen
  MaxRetries,   \* bound: retry_count of an item that is retried
  MaxMishaps    \* bound: queue accesses that raise and processes that end

FaultKinds == {"upload", "answer", "queue", "crash"}
None == "none"

ASSUME PriorityAssumption == Priority \in [Items -> Nat]
ASSUME ManagerAssumption == Forced \subseteq Managers /\ NoClient \subseteq Managers
ASSUME LimitAssumption == Limit \in Nat \ {0} /\ MaxRetries \in Nat /\ MaxMishaps \in Nat
ASSUME NameAssumption == None \notin Workers

VARIABLES
  status, retryCount, created,  \* the table: a row's status, or "absent"
  delivered,                    \* external: how often the cloud took the item
  online, lock, inProgress,     \* of a manager and its monitor
  pc, manager, batch, failed, result,   \* of a thread: sync_now's locals
  mishaps                       \* history: accesses that raised, processes ended

table == <<status, retryCount, created>>
vars == <<status, retryCount, created, delivered, online, lock, inProgress, pc,
          manager, batch, failed, result, mishaps>>

Statuses == {"absent", "PENDING", "SYNCED", "FAILED", "cleared"}
Connectivity == {"ONLINE", "OFFLINE", "DEGRADED"}
PCs == {"idle", "called", "acquire", "dequeue", "upload", "mark", "release"}

\* Tests make monitors that are ONLINE from the start; the default is OFFLINE.
Init ==
  /\ status = [i \in Items |-> "absent"]
  /\ retryCount = [i \in Items |-> 0]
  /\ created = [i \in Items |-> 0]
  /\ delivered = [i \in Items |-> 0]
  /\ online \in [Managers -> {"ONLINE", "OFFLINE"}]
  /\ \A m \in Forced : online[m] = "OFFLINE"
  /\ lock = [m \in Managers |-> None]
  /\ inProgress = [m \in Managers |-> FALSE]
  /\ pc = [w \in Workers |-> "idle"]
  /\ manager = [w \in Workers |-> None]
  /\ batch = [w \in Workers |-> <<>>]
  /\ failed = [w \in Workers |-> FALSE]
  /\ result = [w \in Workers |-> None]
  /\ mishaps = 0

-----------------------------------------------------------------------------
(* OfflineQueueManager: each operation is one SQLite statement.            *)

\* created_at is the time at which the caller makes the item, before enqueue
\* is called: other writers may insert in between.
MakeItem(i) ==
  /\ status[i] = "absent" /\ created[i] = 0
  /\ created' = [created EXCEPT ![i] = 1 + Cardinality({j \in Items : created[j] # 0})]
  /\ UNCHANGED <<status, retryCount, delivered, online, lock, inProgress, pc, manager,
                 batch, failed, result, mishaps>>

\* The INSERT of the item its writer made last; one made before it never came
\* to its INSERT.
Enqueue(i) ==
  /\ status[i] = "absent" /\ created[i] # 0
  /\ \A j \in Items : Writer[j] = Writer[i] => created[j] <= created[i]
  /\ status' = [status EXCEPT ![i] = "PENDING"]
  /\ UNCHANGED <<retryCount, created, delivered, online, lock, inProgress, pc, manager,
                 batch, failed, result, mishaps>>

\* What a SELECT with this order may answer: the first rows, at most Limit.
FirstRows(before(_, _)) ==
  LET pending == {i \in Items : status[i] = "PENDING"}
      size == IF Cardinality(pending) < Limit THEN Cardinality(pending) ELSE Limit
  IN  {q \in [1..size -> pending] :
         /\ \A a, b \in 1..size : a < b => before(q[a], q[b])
         /\ \A a \in 1..size, i \in pending :
              (\A b \in 1..size : q[b] # i) => before(q[a], i)}

\* Mutant of DequeuePending: the newest come first.
DequeueNewest == FirstRows(LAMBDA i, j : created[i] > created[j])

\* ORDER BY priority DESC, created_at ASC LIMIT.
DequeuePending ==
  FirstRows(LAMBDA i, j : \/ Priority[i] > Priority[j]
                          \/ Priority[i] = Priority[j] /\ created[i] < created[j])

\* An UPDATE by id: it asks for no status, and a row that is gone stays gone.
SetStatus(i, st) ==
  IF status[i] = "cleared" THEN UNCHANGED status
                           ELSE status' = [status EXCEPT ![i] = st]

MarkSynced(i) == SetStatus(i, "SYNCED") /\ UNCHANGED retryCount

MarkFailed(i) ==
  /\ SetStatus(i, "FAILED")
  /\ retryCount' = [retryCount EXCEPT ![i] = @ + 1]

\* retry_failed for all failed items or for one.
RetryFailed(ids) ==
  /\ ids # {} /\ \A i \in ids : status[i] = "FAILED" /\ retryCount[i] <= MaxRetries
  /\ status' = [i \in Items |-> IF i \in ids THEN "PENDING" ELSE status[i]]
  /\ UNCHANGED <<retryCount, created, delivered, online, lock, inProgress, pc, manager,
                 batch, failed, result, mishaps>>

\* clear_synced deletes the synced rows of some age.
ClearSynced(ids) ==
  /\ ids # {} /\ \A i \in ids : status[i] = "SYNCED"
  /\ status' = [i \in Items |-> IF i \in ids THEN "cleared" ELSE status[i]]
  /\ UNCHANGED <<retryCount, created, delivered, online, lock, inProgress, pc, manager,
                 batch, failed, result, mishaps>>

-----------------------------------------------------------------------------
(* SyncManager.sync_now.                                                   *)

Goto(w, label) == pc' = [pc EXCEPT ![w] = label]
ReturnFalse(w) == Goto(w, "idle") /\ result' = [result EXCEPT ![w] = "False"]

\* A thread calls sync_now: the application, a test or the dashboard's button.
CallSync(w, m) ==
  /\ pc[w] = "idle"
  /\ Goto(w, "called")
  /\ manager' = [manager EXCEPT ![w] = m]
  /\ result' = [result EXCEPT ![w] = None]
  /\ UNCHANGED <<table, delivered, online, lock, inProgress, batch, failed, mishaps>>

CheckOnline(w) ==
  /\ pc[w] = "called"
  /\ IF online[manager[w]] = "ONLINE"
       THEN Goto(w, "acquire") /\ UNCHANGED result
       ELSE ReturnFalse(w)
  /\ UNCHANGED <<table, delivered, online, lock, inProgress, manager, batch, failed,
                 mishaps>>

\* Mutant of Acquire: the answer of the lock is ignored.
AcquireAnyway(w) ==
  /\ pc[w] = "acquire"
  /\ lock' = [lock EXCEPT ![manager[w]] = w]
  /\ inProgress' = [inProgress EXCEPT ![manager[w]] = TRUE]
  /\ Goto(w, "dequeue")
  /\ UNCHANGED <<table, delivered, online, manager, batch, failed, result, mishaps>>

\* Mutant of Acquire: the early return is inside the try with its finally.
AcquireInsideTry(w) ==
  /\ pc[w] = "acquire"
  /\ IF lock[manager[w]] = None
       THEN /\ lock' = [lock EXCEPT ![manager[w]] = w]
            /\ inProgress' = [inProgress EXCEPT ![manager[w]] = TRUE]
            /\ Goto(w, "dequeue")
       ELSE Goto(w, "release") /\ UNCHANGED <<lock, inProgress>>
  /\ UNCHANGED <<table, delivered, online, manager, batch, failed, result, mishaps>>

\* acquire(blocking=False): a thread that finds the lock taken gives up.
Acquire(w) ==
  /\ pc[w] = "acquire"
  /\ IF lock[manager[w]] = None
       THEN /\ lock' = [lock EXCEPT ![manager[w]] = w]
            /\ inProgress' = [inProgress EXCEPT ![manager[w]] = TRUE]
            /\ Goto(w, "dequeue") /\ UNCHANGED result
       ELSE ReturnFalse(w) /\ UNCHANGED <<lock, inProgress>>
  /\ UNCHANGED <<table, delivered, online, manager, batch, failed, mishaps>>

Dequeue(w) ==
  /\ pc[w] = "dequeue"
  /\ \E q \in DequeuePending : batch' = [batch EXCEPT ![w] = q]
  /\ Goto(w, "upload")
  /\ UNCHANGED <<table, delivered, online, lock, inProgress, manager, failed, result,
                 mishaps>>

CanSync(w, i) == manager[w] \notin NoClient /\ i \notin Unsupported

\* _sync_item: it raises without a client or a handler; the cloud's method may
\* raise before it took the item, or after (the answer is lost).
Upload(w) ==
  /\ pc[w] = "upload" /\ batch[w] # <<>>
  /\ \E took \in {0, 1}, raised \in BOOLEAN :
       /\ \/ CanSync(w, Head(batch[w])) /\ took = 1 /\ ~raised
          \/ CanSync(w, Head(batch[w])) /\ "answer" \in Faults /\ took = 1 /\ raised
          \/ (CanSync(w, Head(batch[w])) => "upload" \in Faults) /\ took = 0 /\ raised
       /\ delivered' = [delivered EXCEPT ![Head(batch[w])] = @ + took]
       /\ failed' = [failed EXCEPT ![w] = raised]
  /\ Goto(w, "mark")
  /\ UNCHANGED <<table, online, lock, inProgress, manager, batch, result, mishaps>>

\* Mutant of Mark: mark_synced follows the try whatever happened in it.
MarkAlwaysSynced(w) ==
  /\ pc[w] = "mark"
  /\ MarkSynced(Head(batch[w]))
  /\ batch' = [batch EXCEPT ![w] = Tail(@)]
  /\ Goto(w, "upload")
  /\ UNCHANGED <<created, delivered, online, lock, inProgress, manager, failed, result,
                 mishaps>>

Mark(w) ==
  /\ pc[w] = "mark"
  /\ IF failed[w] THEN MarkFailed(Head(batch[w])) ELSE MarkSynced(Head(batch[w]))
  /\ batch' = [batch EXCEPT ![w] = Tail(@)]
  /\ Goto(w, "upload")
  /\ failed' = [failed EXCEPT ![w] = FALSE]
  /\ UNCHANGED <<created, delivered, online, lock, inProgress, manager, result, mishaps>>

\* Mutant of QueueRaises: the lock is not released in a finally.
QueueRaisesNoFinally(w) ==
  /\ pc[w] \in {"dequeue", "mark"} /\ "queue" \in Faults /\ mishaps < MaxMishaps
  /\ mishaps' = mishaps + 1
  /\ batch' = [batch EXCEPT ![w] = <<>>]
  /\ failed' = [failed EXCEPT ![w] = FALSE]
  /\ Goto(w, "idle")
  /\ UNCHANGED <<table, delivered, online, lock, inProgress, manager, result>>

\* The queue's SELECT or UPDATE raises: the try is left, its finally clause runs.
QueueRaises(w) ==
  /\ pc[w] \in {"dequeue", "mark"} /\ "queue" \in Faults /\ mishaps < MaxMishaps
  /\ mishaps' = mishaps + 1
  /\ batch' = [batch EXCEPT ![w] = <<>>]
  /\ failed' = [failed EXCEPT ![w] = FALSE]
  /\ Goto(w, "release")
  /\ UNCHANGED <<table, delivered, online, lock, inProgress, manager, result>>

\* All items of the batch are done: return True by way of the finally clause.
LoopEnds(w) ==
  /\ pc[w] = "upload" /\ batch[w] = <<>>
  /\ result' = [result EXCEPT ![w] = "True"]
  /\ Goto(w, "release")
  /\ UNCHANGED <<table, delivered, online, lock, inProgress, manager, batch, failed,
                 mishaps>>

Release(w) ==
  /\ pc[w] = "release"
  /\ inProgress' = [inProgress EXCEPT ![manager[w]] = FALSE]
  /\ lock' = [lock EXCEPT ![manager[w]] = None]
  /\ Goto(w, "idle")
  /\ UNCHANGED <<table, delivered, online, manager, batch, failed, result, mishaps>>

-----------------------------------------------------------------------------
(* ConnectivityMonitor.poll_once with the manager's callback, processes.   *)

\* Mutant of Poll: the callback runs at the end of an outage only.
PollFromOffline(m, new) ==
  /\ m \notin Forced
  /\ online' = [online EXCEPT ![m] = new]
  /\ IF new = "ONLINE" /\ online[m] = "OFFLINE"
       THEN \E w \in Workers :
              /\ pc[w] = "idle"
              /\ Goto(w, "called")
              /\ manager' = [manager EXCEPT ![w] = m]
              /\ result' = [result EXCEPT ![w] = None]
       ELSE UNCHANGED <<pc, manager, result>>
  /\ UNCHANGED <<table, delivered, lock, inProgress, batch, failed, mishaps>>

\* The status is written before the callbacks run, and they run on a change
\* only: the callback for ONLINE starts a thread.
Poll(m, new) ==
  /\ m \notin Forced
  /\ online' = [online EXCEPT ![m] = new]
  /\ IF new = "ONLINE" /\ online[m] # "ONLINE"
       THEN \E w \in Workers :
              /\ pc[w] = "idle"
              /\ Goto(w, "called")
              /\ manager' = [manager EXCEPT ![w] = m]
              /\ result' = [result EXCEPT ![w] = None]
       ELSE UNCHANGED <<pc, manager, result>>
  /\ UNCHANGED <<table, delivered, lock, inProgress, batch, failed, mishaps>>

\* The manager's process ends: its threads are daemons and die where they are.
ProcessEnds(m) ==
  LET dead == {w \in Workers : manager[w] = m /\ pc[w] # "idle"} IN
  /\ "crash" \in Faults /\ mishaps < MaxMishaps /\ dead # {}
  /\ mishaps' = mishaps + 1
  /\ pc' = [w \in Workers |-> IF w \in dead THEN "idle" ELSE pc[w]]
  /\ batch' = [w \in Workers |-> IF w \in dead THEN <<>> ELSE batch[w]]
  /\ failed' = [w \in Workers |-> IF w \in dead THEN FALSE ELSE failed[w]]
  /\ lock' = [lock EXCEPT ![m] = None]
  /\ inProgress' = [inProgress EXCEPT ![m] = FALSE]
  /\ online' = [online EXCEPT ![m] = "OFFLINE"]
  /\ UNCHANGED <<table, delivered, manager, result>>

WorkerStep(w) ==
  \/ CheckOnline(w) \/ Acquire(w) \/ Dequeue(w) \/ Upload(w) \/ Mark(w)
  \/ QueueRaises(w) \/ LoopEnds(w) \/ Release(w)

\* All that happens to the store but an enqueue.
Serve ==
  \/ \E i \in Items : RetryFailed({i})
  \/ RetryFailed({i \in Items : status[i] = "FAILED"})
  \/ \E ids \in SUBSET {i \in Items : status[i] = "SYNCED"} : ClearSynced(ids)
  \/ \E w \in Workers, m \in Managers : CallSync(w, m)
  \/ \E w \in Workers : WorkerStep(w)
  \/ \E m \in Managers : ProcessEnds(m) \/ \E new \in Connectivity : Poll(m, new)

Next == Serve \/ \E i \in Items : MakeItem(i) \/ Enqueue(i)

Spec == Init /\ [][Next]_vars

\* Threads inside sync_now run; the uploads return or raise.
FairSpec == Spec /\ \A w \in Workers : WF_vars(WorkerStep(w))

-----------------------------------------------------------------------------
(* Properties.                                                             *)

\* A thread between acquire and release holds its manager's lock and works on
\* rows that were enqueued (sync_manager.py:45-59).
TypeOK ==
  /\ status \in [Items -> Statuses]
  /\ retryCount \in [Items -> Nat] /\ delivered \in [Items -> Nat]
  /\ created \in [Items -> 0..Cardinality(Items)]
  /\ online \in [Managers -> Connectivity]
  /\ lock \in [Managers -> Workers \cup {None}] /\ inProgress \in [Managers -> BOOLEAN]
  /\ pc \in [Workers -> PCs] /\ manager \in [Workers -> Managers \cup {None}]
  /\ batch \in [Workers -> Seq(Items)] /\ failed \in [Workers -> BOOLEAN]
  /\ result \in [Workers -> {None, "True", "False"}]
  /\ \A w \in Workers : pc[w] \in {"dequeue", "upload", "mark", "release"} =>
       lock[manager[w]] = w /\ inProgress[manager[w]]

\* An item leaves the store only after the cloud took it: it is SYNCED, or
\* cleared, only if some upload was accepted, so an outage, an error, a crash
\* or a second manager never makes it look delivered (sync_manager.py:47-55,
\* manager.py:68-76, 94-98; README.md:20).
OnlyDeliveredLeaves ==
  \A i \in Items : status[i] \in {"SYNCED", "cleared"} => delivered[i] > 0

\* With one manager the cloud gets an item at most once for each attempt that
\* was recorded as failed, once for the last one, and once more for each mark
\* that raised or process that died (sync_manager.py:45-55).
DuplicatesAreAccounted ==
  \A i \in Items : delivered[i] <= retryCount[i] + 1 + mishaps

\* With one manager a SYNCED row is never reopened, by no thread that dequeued
\* it earlier and no retry (manager.py:68-85 under sync_manager.py:45).
SyncedIsFinal ==
  [][\A i \in Items : status[i] = "SYNCED" => status'[i] \in {"SYNCED", "cleared"}]_vars

\* A lock that was taken is released: no error of queue or cloud leaves the
\* manager unable to synchronize (sync_manager.py:57-59).
LockIsReleased ==
  \A m \in Managers : lock[m] # None ~> lock[m] = None

\* A lasting reconnect flushes the queue: an item that waits in it while its
\* manager is not online and no thread of the manager is inside sync_now is
\* taken out of PENDING after the last change to ONLINE, with no call of any
\* other kind, if the batches are large enough and nothing raises or dies
\* (sync_manager.py:23-27, connectivity.py:54-61).  An item that comes in during
\* a sync has no such promise: the reconnect finds the lock taken.
ReconnectFlushes ==
  \A i \in Items, m \in Managers :
    [](/\ status[i] = "PENDING" /\ online[m] # "ONLINE"
       /\ \A w \in Workers : manager[w] = m => pc[w] = "idle"
       /\ mishaps = MaxMishaps
       /\ <>[](online[m] = "ONLINE")
       => <>(status[i] # "PENDING"))

\* "Queue sync completed." (streamlit_app.py:290) is shown after every forced
\* sync: a forced sync does not return False.
ForceSyncCompletes ==
  \A w \in Workers : manager[w] \in Forced => result[w] # "False"
=============================================================================
