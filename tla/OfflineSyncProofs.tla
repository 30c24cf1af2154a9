------------------------- MODULE OfflineSyncProofs -------------------------
(***************************************************************************)
(* Theorems about OfflineSync, for all values of its constants, any items, *)
(* managers, threads, limits and faults, in this order: what leaves the    *)
(* store was delivered; types and the lock; what one manager on the queue  *)
(* adds; and the order of deliveries, for EvidenceDelivery.                *)
(***************************************************************************)
EXTENDS OfflineSync, FiniteSetTheorems, TLAPS

Tables ==
  /\ status \in [Items -> Statuses] /\ delivered \in [Items -> Nat]
  /\ pc \in [Workers -> PCs] /\ failed \in [Workers -> BOOLEAN]
  /\ DOMAIN batch = Workers

\* A thread that is about to mark an item as synced has seen the cloud take it.
AboutToMark ==
  \A w \in Workers :
    pc[w] = "mark" /\ ~failed[w] /\ Head(batch[w]) \in Items => delivered[Head(batch[w])] > 0

DeliveryInv == Tables /\ AboutToMark /\ OnlyDeliveredLeaves

-----------------------------------------------------------------------------

\* A step that leaves the table and the cloud alone, and brings no thread to
\* its mark, keeps the invariant.
LEMMA QuietDelivery ==
  ASSUME DeliveryInv, UNCHANGED <<status, delivered>>,
         pc' \in [Workers -> PCs], failed' \in [Workers -> BOOLEAN],
         DOMAIN batch' = Workers,
         \A w \in Workers : pc'[w] = "mark" =>
           pc[w] = "mark" /\ batch'[w] = batch[w] /\ failed'[w] = failed[w]
  PROVE  DeliveryInv'
BY DEF DeliveryInv, Tables, AboutToMark, OnlyDeliveredLeaves

\* A step of the table alone takes an item out of the store only if the item
\* had left it before.
LEMMA TableDelivery ==
  ASSUME DeliveryInv, UNCHANGED <<delivered, pc, batch, failed>>,
         status' \in [Items -> Statuses],
         \A i \in Items : status'[i] \in {"SYNCED", "cleared"} =>
           status[i] \in {"SYNCED", "cleared"}
  PROVE  DeliveryInv'
BY DEF DeliveryInv, Tables, AboutToMark, OnlyDeliveredLeaves

LEMMA UploadDelivery ==
  ASSUME DeliveryInv, NEW w \in Workers, Upload(w)
  PROVE  DeliveryInv'
<1>. DEFINE item == Head(batch[w])
<1>1. PICK took \in {0, 1}, raised \in BOOLEAN :
        /\ ~raised => took = 1
        /\ delivered' = [delivered EXCEPT ![item] = @ + took]
        /\ failed' = [failed EXCEPT ![w] = raised]
  BY DEF Upload
<1>2. pc' = [pc EXCEPT ![w] = "mark"] /\ UNCHANGED <<status, batch>>
  BY DEF Upload, Goto, table
<1>3. delivered' \in [Items -> Nat] /\ \A i \in Items : delivered'[i] >= delivered[i]
  <2>1. delivered \in [Items -> Nat] /\ took \in Nat
    BY DEF DeliveryInv, Tables
  <2>2. \A i \in Items :
          delivered'[i] = IF i = item THEN delivered[i] + took ELSE delivered[i]
    BY <1>1, <2>1
  <2>3. DOMAIN delivered' = Items /\ delivered' = [i \in Items |-> delivered'[i]]
    BY <1>1, <2>1
  <2>. HIDE DEF item
  <2>. QED
    BY <2>1, <2>2, <2>3
<1>4. item \in Items /\ ~failed'[w] => delivered'[item] > 0
  BY <1>1 DEF DeliveryInv, Tables
<1>5. AboutToMark'
  <2>1. SUFFICES ASSUME NEW v \in Workers, pc'[v] = "mark", ~failed'[v],
                        Head(batch[v]) \in Items
                 PROVE  delivered'[Head(batch[v])] > 0
    BY <1>2 DEF AboutToMark
  <2>2. CASE v = w
    BY <2>1, <2>2, <1>4
  <2>3. CASE v # w
    <3>1. delivered[Head(batch[v])] > 0
      BY <2>1, <2>3, <1>1, <1>2 DEF DeliveryInv, Tables, AboutToMark
    <3>. QED
      BY <3>1, <2>1, <1>3 DEF DeliveryInv, Tables
  <2>. QED
    BY <2>2, <2>3
<1>6. OnlyDeliveredLeaves'
  BY <1>2, <1>3 DEF DeliveryInv, Tables, OnlyDeliveredLeaves
<1>7. Tables'
  BY <1>1, <1>2, <1>3 DEF DeliveryInv, Tables, PCs
<1>. QED
  BY <1>5, <1>6, <1>7 DEF DeliveryInv

LEMMA MarkDelivery ==
  ASSUME DeliveryInv, NEW w \in Workers, Mark(w)
  PROVE  DeliveryInv'
<1>. DEFINE item == Head(batch[w])
<1>1. /\ pc[w] = "mark"
      /\ IF failed[w] THEN SetStatus(item, "FAILED") ELSE SetStatus(item, "SYNCED")
      /\ batch' = [batch EXCEPT ![w] = Tail(@)] /\ pc' = [pc EXCEPT ![w] = "upload"]
      /\ failed' = [failed EXCEPT ![w] = FALSE] /\ UNCHANGED delivered
  BY DEF Mark, MarkFailed, MarkSynced, Goto
<1>2. status' \in [Items -> Statuses]
  BY <1>1 DEF DeliveryInv, Tables, SetStatus, Statuses
<1>3. Tables' /\ AboutToMark'
  BY <1>1, <1>2 DEF DeliveryInv, Tables, PCs, AboutToMark
<1>4. OnlyDeliveredLeaves'
  <2>1. SUFFICES ASSUME NEW i \in Items, status'[i] \in {"SYNCED", "cleared"}
                 PROVE  delivered[i] > 0
    BY <1>1 DEF OnlyDeliveredLeaves
  <2>2. CASE status'[i] = status[i]
    BY <2>1, <2>2 DEF DeliveryInv, OnlyDeliveredLeaves
  <2>3. CASE status'[i] # status[i]
    <3>1. i = item /\ ~failed[w]
      BY <2>1, <2>3, <1>1 DEF SetStatus, DeliveryInv, Tables
    <3>. QED
      BY <3>1, <1>1 DEF DeliveryInv, AboutToMark
  <2>. QED
    BY <2>2, <2>3
<1>. QED
  BY <1>3, <1>4 DEF DeliveryInv

\* The steps of a thread that touch neither the table nor the cloud.
LEMMA WorkerDelivery ==
  ASSUME DeliveryInv, NEW w \in Workers,
         \/ CheckOnline(w) \/ Acquire(w) \/ Dequeue(w) \/ QueueRaises(w)
         \/ LoopEnds(w) \/ Release(w)
  PROVE  DeliveryInv'
<1>1. UNCHANGED <<status, delivered>>
  BY DEF CheckOnline, Acquire, Dequeue, QueueRaises, LoopEnds, Release, table
<1>2. PICK label \in PCs \ {"mark"} : pc' = [pc EXCEPT ![w] = label]
  BY DEF CheckOnline, Acquire, Dequeue, QueueRaises, LoopEnds, Release, Goto,
         ReturnFalse, PCs
<1>3. /\ failed' = failed \/ failed' = [failed EXCEPT ![w] = FALSE]
      /\ DOMAIN batch' = DOMAIN batch
      /\ \A v \in Workers \ {w} : batch'[v] = batch[v]
  BY DEF CheckOnline, Acquire, Dequeue, QueueRaises, LoopEnds, Release, DeliveryInv, Tables
<1>. QED
  BY <1>1, <1>2, <1>3, QuietDelivery DEF DeliveryInv, Tables

\* The steps of callers, monitors and processes.
LEMMA CallerDelivery ==
  ASSUME DeliveryInv, NEW m \in Managers,
         \/ \E w \in Workers : CallSync(w, m)
         \/ ProcessEnds(m)
         \/ \E new \in Connectivity : Poll(m, new)
  PROVE  DeliveryInv'
<1>1. CASE \E w \in Workers : CallSync(w, m)
  <2>1. PICK w \in Workers : CallSync(w, m)
    BY <1>1
  <2>. QED
    BY <2>1, QuietDelivery DEF CallSync, Goto, table, DeliveryInv, Tables, PCs
<1>2. CASE ProcessEnds(m)
  BY <1>2, QuietDelivery DEF ProcessEnds, table, DeliveryInv, Tables, PCs
<1>3. CASE \E new \in Connectivity : Poll(m, new)
  <2>1. /\ UNCHANGED <<status, delivered, batch, failed>>
        /\ pc' = pc \/ \E w \in Workers : pc' = [pc EXCEPT ![w] = "called"]
    BY <1>3 DEF Poll, Goto, table
  <2>. QED
    BY <2>1, QuietDelivery DEF DeliveryInv, Tables, PCs
<1>. QED
  BY <1>1, <1>2, <1>3

LEMMA StoreDelivery ==
  ASSUME DeliveryInv,
         \/ \E i \in Items : MakeItem(i) \/ Enqueue(i)
         \/ \E ids \in SUBSET Items : RetryFailed(ids)
         \/ \E ids \in SUBSET Items : ClearSynced(ids)
  PROVE  DeliveryInv'
<1>1. CASE \E i \in Items : MakeItem(i) \/ Enqueue(i)
  BY <1>1, TableDelivery DEF MakeItem, Enqueue, DeliveryInv, Tables, Statuses
<1>2. CASE \E ids \in SUBSET Items : RetryFailed(ids)
  BY <1>2, TableDelivery DEF RetryFailed, DeliveryInv, Tables, Statuses
<1>3. CASE \E ids \in SUBSET Items : ClearSynced(ids)
  BY <1>3, TableDelivery DEF ClearSynced, DeliveryInv, Tables, Statuses
<1>. QED
  BY <1>1, <1>2, <1>3

LEMMA DeliveryInvIsInductive == DeliveryInv /\ [Next]_vars => DeliveryInv'
<1>1. SUFFICES ASSUME DeliveryInv, [Next]_vars PROVE DeliveryInv'
  OBVIOUS
<1>2. CASE UNCHANGED vars
  BY <1>1, <1>2 DEF vars, DeliveryInv, Tables, AboutToMark, OnlyDeliveredLeaves
<1>3. CASE \E i \in Items : MakeItem(i) \/ Enqueue(i)
  BY <1>1, <1>3, StoreDelivery
<1>4. CASE Serve
  <2>1. CASE \/ \E i \in Items : RetryFailed({i})
             \/ RetryFailed({i \in Items : status[i] = "FAILED"})
    <3>1. \E ids \in SUBSET Items : RetryFailed(ids)
      BY <2>1
    <3>. QED
      BY <1>1, <3>1, StoreDelivery
  <2>2. CASE \E ids \in SUBSET {i \in Items : status[i] = "SYNCED"} : ClearSynced(ids)
    <3>1. \E ids \in SUBSET Items : ClearSynced(ids)
      BY <2>2
    <3>. QED
      BY <1>1, <3>1, StoreDelivery
  <2>3. CASE \E w \in Workers, m \in Managers : CallSync(w, m)
    BY <1>1, <2>3, CallerDelivery
  <2>4. ASSUME NEW w \in Workers, WorkerStep(w) PROVE DeliveryInv'
    BY <1>1, <2>4, WorkerDelivery, UploadDelivery, MarkDelivery DEF WorkerStep
  <2>5. CASE \E m \in Managers : ProcessEnds(m) \/ \E new \in Connectivity : Poll(m, new)
    BY <1>1, <2>5, CallerDelivery
  <2>. QED
    BY <1>4, <2>1, <2>2, <2>3, <2>4, <2>5 DEF Serve
<1>. QED
  BY <1>1, <1>2, <1>3, <1>4 DEF Next

\* An item is SYNCED, or cleared, only if the cloud took it, whatever number of
\* managers and threads work on the queue, in whatever order, and whatever fails
\* or dies between upload and mark (sync_manager.py:47-55, manager.py:68-98).
THEOREM NothingIsLost == Spec => []OnlyDeliveredLeaves
<1>1. Init => DeliveryInv
  BY DEF Init, DeliveryInv, Tables, AboutToMark, OnlyDeliveredLeaves, Statuses, PCs
<1>2. DeliveryInv => OnlyDeliveredLeaves
  BY DEF DeliveryInv
<1>. QED
  BY <1>1, <1>2, DeliveryInvIsInductive, PTL DEF Spec

-----------------------------------------------------------------------------
(* Threads and the lock, for any number of managers.                       *)

TableTyped ==
  /\ status \in [Items -> Statuses]
  /\ retryCount \in [Items -> Nat] /\ delivered \in [Items -> Nat]
  /\ created \in [Items -> 0..Cardinality(Items)]
  /\ mishaps \in Nat

ManagerTyped ==
  /\ online \in [Managers -> Connectivity]
  /\ lock \in [Managers -> Workers \cup {None}] /\ inProgress \in [Managers -> BOOLEAN]

ThreadTyped ==
  /\ pc \in [Workers -> PCs] /\ manager \in [Workers -> Managers \cup {None}]
  /\ batch \in [Workers -> Seq(Items)] /\ failed \in [Workers -> BOOLEAN]
  /\ result \in [Workers -> {None, "True", "False"}]
  /\ \A w \in Workers :
       /\ pc[w] # "idle" => manager[w] \in Managers
       /\ batch[w] # <<>> => pc[w] \in {"upload", "mark"}
       /\ pc[w] = "mark" => batch[w] # <<>>

Critical == {"dequeue", "upload", "mark", "release"}

HoldsLock ==
  \A w \in Workers : pc[w] \in Critical => lock[manager[w]] = w /\ inProgress[manager[w]]

SyncInv == TableTyped /\ ManagerTyped /\ ThreadTyped /\ HoldsLock

\* What a SELECT answers: waiting rows, each once.
LEMMA SelectedRows ==
  ASSUME IsFiniteSet(Items), SyncInv, NEW q \in DequeuePending
  PROVE  /\ q \in Seq(Items)
         /\ \A a \in 1..Len(q) : status[q[a]] = "PENDING"
         /\ \A a, b \in 1..Len(q) : a # b => q[a] # q[b]
<1>. DEFINE pending == {i \in Items : status[i] = "PENDING"}
            size == IF Cardinality(pending) < Limit THEN Cardinality(pending) ELSE Limit
            before(i, j) == \/ Priority[i] > Priority[j]
                            \/ Priority[i] = Priority[j] /\ created[i] < created[j]
<1>1. q \in [1..size -> pending] /\ \A a, b \in 1..size : a < b => before(q[a], q[b])
  BY DEF DequeuePending, FirstRows
<1>2. size \in Nat
  <2>1. Cardinality(pending) \in Nat
    BY FS_Subset, FS_CardinalityType
  <2>. QED
    BY <2>1, LimitAssumption
<1>3. \A i \in Items : ~before(i, i)
  BY PriorityAssumption, FS_CardinalityType DEF SyncInv, TableTyped
<1>4. Len(q) = size /\ q \in Seq(Items)
  <2>. HIDE DEF size, before
  <2>1. q \in [1..size -> Items]
    BY <1>1
  <2>. QED
    BY <2>1, <1>2
<1>. HIDE DEF size, before
<1>5. \A a \in 1..size : q[a] \in pending
  BY <1>1
<1>6. ASSUME NEW a \in 1..size, NEW b \in 1..size, a # b PROVE q[a] # q[b]
  <2>1. a < b \/ b < a
    BY <1>2, <1>6
  <2>2. before(q[a], q[b]) \/ before(q[b], q[a])
    BY <2>1, <1>1
  <2>. QED
    BY <2>2, <1>3, <1>5
<1>. QED
  BY <1>4, <1>5, <1>6

\* A step that changes no thread, lock or monitor.
LEMMA StoreTyped ==
  ASSUME IsFiniteSet(Items), SyncInv,
         \/ \E i \in Items : MakeItem(i) \/ Enqueue(i)
         \/ \E ids \in SUBSET Items : RetryFailed(ids)
         \/ \E ids \in SUBSET Items : ClearSynced(ids)
  PROVE  SyncInv'
<1>1. UNCHANGED <<online, lock, inProgress, pc, manager, batch, failed, result, mishaps>>
  BY DEF MakeItem, Enqueue, RetryFailed, ClearSynced
<1>2. ManagerTyped' /\ ThreadTyped' /\ HoldsLock'
  BY <1>1 DEF SyncInv, ManagerTyped, ThreadTyped, HoldsLock
<1>3. CASE \E i \in Items : MakeItem(i)
  <2>1. PICK i \in Items : MakeItem(i)
    BY <1>3
  <2>. DEFINE old == {j \in Items : created[j] # 0}
  <2>2. 1 + Cardinality(old) \in 1..Cardinality(Items)
    <3>1. created[i] = 0
      BY <2>1 DEF MakeItem
    <3>2. old \in SUBSET Items /\ old # Items
      BY <3>1
    <3>. HIDE DEF old
    <3>3. /\ IsFiniteSet(old) /\ Cardinality(old) <= Cardinality(Items)
          /\ Cardinality(old) # Cardinality(Items)
      BY <3>2, FS_Subset
    <3>4. Cardinality(old) \in Nat /\ Cardinality(Items) \in Nat
      BY <3>3, FS_CardinalityType
    <3>. QED
      BY <3>3, <3>4
  <2>. HIDE DEF old
  <2>3. /\ created' = [created EXCEPT ![i] = 1 + Cardinality(old)]
        /\ UNCHANGED <<status, retryCount, delivered>>
    BY <2>1 DEF MakeItem, old
  <2>4. TableTyped'
    BY <1>1, <2>2, <2>3 DEF SyncInv, TableTyped
  <2>. QED
    BY <1>2, <2>4 DEF SyncInv
<1>4. CASE \/ \E i \in Items : Enqueue(i)
           \/ \E ids \in SUBSET Items : RetryFailed(ids) \/ ClearSynced(ids)
  <2>1. TableTyped'
    BY <1>1, <1>4 DEF Enqueue, RetryFailed, ClearSynced, SyncInv, TableTyped, Statuses
  <2>. QED
    BY <1>2, <2>1 DEF SyncInv
<1>. QED
  BY <1>3, <1>4

\* The steps of a thread on its way in.
LEMMA EntryTyped ==
  ASSUME IsFiniteSet(Items), SyncInv, NEW w \in Workers,
         \/ \E m \in Managers : CallSync(w, m)
         \/ CheckOnline(w) \/ Acquire(w) \/ Dequeue(w)
  PROVE  SyncInv'
<1>1. TableTyped'
  BY DEF CallSync, CheckOnline, Acquire, Dequeue, table, SyncInv, TableTyped
<1>2. CASE \E m \in Managers : CallSync(w, m)
  <2>1. PICK m \in Managers : CallSync(w, m)
    BY <1>2
  <2>2. ManagerTyped' /\ HoldsLock'
    BY <2>1 DEF CallSync, Goto, SyncInv, ManagerTyped, ThreadTyped, HoldsLock, Critical
  <2>3. ThreadTyped'
    BY <2>1 DEF CallSync, Goto, SyncInv, ThreadTyped, PCs
  <2>. QED
    BY <1>1, <2>2, <2>3 DEF SyncInv
<1>3. CASE CheckOnline(w)
  <2>1. ManagerTyped' /\ HoldsLock'
    BY <1>3 DEF CheckOnline, ReturnFalse, Goto, SyncInv, ManagerTyped, ThreadTyped,
                HoldsLock, Critical
  <2>2. ThreadTyped'
    BY <1>3 DEF CheckOnline, ReturnFalse, Goto, SyncInv, ThreadTyped, PCs
  <2>. QED
    BY <1>1, <2>1, <2>2 DEF SyncInv
<1>4. CASE Acquire(w)
  <2>1. manager[w] \in Managers
    BY <1>4 DEF Acquire, SyncInv, ThreadTyped
  <2>2. ThreadTyped'
    BY <1>4 DEF Acquire, ReturnFalse, Goto, SyncInv, ThreadTyped, PCs
  <2>3. CASE lock[manager[w]] = None
    <3>1. /\ lock' = [lock EXCEPT ![manager[w]] = w]
          /\ inProgress' = [inProgress EXCEPT ![manager[w]] = TRUE]
          /\ pc' = [pc EXCEPT ![w] = "dequeue"] /\ UNCHANGED <<online, manager>>
      BY <1>4, <2>3 DEF Acquire, Goto
    <3>2. ManagerTyped'
      BY <3>1 DEF SyncInv, ManagerTyped
    <3>3. \A v \in Workers : pc[v] \in Critical => manager[v] # manager[w]
      BY <2>3, NameAssumption DEF SyncInv, HoldsLock
    <3>4. HoldsLock'
      BY <2>1, <3>1, <3>3 DEF SyncInv, HoldsLock, ManagerTyped, ThreadTyped, Critical
    <3>. QED
      BY <1>1, <2>2, <3>2, <3>4 DEF SyncInv
  <2>4. CASE lock[manager[w]] # None
    <3>1. ManagerTyped' /\ HoldsLock'
      BY <1>4, <2>4 DEF Acquire, ReturnFalse, Goto, SyncInv, ManagerTyped, ThreadTyped,
                        HoldsLock, Critical
    <3>. QED
      BY <1>1, <2>2, <3>1 DEF SyncInv
  <2>. QED
    BY <2>3, <2>4
<1>5. CASE Dequeue(w)
  <2>1. PICK q \in Seq(Items) : batch' = [batch EXCEPT ![w] = q]
    BY <1>5, SelectedRows DEF Dequeue
  <2>2. ManagerTyped' /\ HoldsLock'
    BY <1>5 DEF Dequeue, Goto, SyncInv, ManagerTyped, ThreadTyped, HoldsLock, Critical
  <2>3. ThreadTyped'
    BY <1>5, <2>1 DEF Dequeue, Goto, SyncInv, ThreadTyped, PCs
  <2>. QED
    BY <1>1, <2>2, <2>3 DEF SyncInv
<1>. QED
  BY <1>2, <1>3, <1>4, <1>5

\* The steps of a thread that holds the lock.
LEMMA LoopTyped ==
  ASSUME SyncInv, NEW w \in Workers,
         \/ Upload(w) \/ Mark(w) \/ QueueRaises(w) \/ LoopEnds(w) \/ Release(w)
  PROVE  SyncInv'
<1>1. CASE Upload(w)
  <2>. DEFINE item == Head(batch[w])
  <2>1. PICK took \in {0, 1}, raised \in BOOLEAN :
          /\ delivered' = [delivered EXCEPT ![item] = @ + took]
          /\ failed' = [failed EXCEPT ![w] = raised]
    BY <1>1 DEF Upload
  <2>2. item \in Items
    BY <1>1 DEF Upload, SyncInv, ThreadTyped
  <2>. HIDE DEF item
  <2>3. delivered' \in [Items -> Nat]
    <3>1. took \in Nat
      OBVIOUS
    <3>. QED
      BY <2>1, <2>2, <3>1 DEF SyncInv, TableTyped
  <2>4. TableTyped' /\ ManagerTyped'
    BY <1>1, <2>3 DEF Upload, table, SyncInv, TableTyped, ManagerTyped
  <2>5. ThreadTyped'
    BY <1>1, <2>1 DEF Upload, Goto, SyncInv, ThreadTyped, PCs
  <2>6. HoldsLock'
    BY <1>1 DEF Upload, Goto, SyncInv, ThreadTyped, HoldsLock, Critical
  <2>. QED
    BY <2>4, <2>5, <2>6 DEF SyncInv
<1>2. CASE Mark(w)
  <2>. DEFINE item == Head(batch[w])
  <2>1. item \in Items /\ Tail(batch[w]) \in Seq(Items)
    BY <1>2 DEF Mark, SyncInv, ThreadTyped
  <2>2. /\ \/ status' = status
           \/ \E st \in {"SYNCED", "FAILED"} : status' = [status EXCEPT ![item] = st]
        /\ retryCount' = retryCount \/ retryCount' = [retryCount EXCEPT ![item] = @ + 1]
    BY <1>2 DEF Mark, MarkFailed, MarkSynced, SetStatus
  <2>. HIDE DEF item
  <2>3. retryCount' \in [Items -> Nat]
    <3>1. retryCount[item] + 1 \in Nat /\ retryCount \in [Items -> Nat]
      BY <2>1 DEF SyncInv, TableTyped
    <3>. QED
      BY <2>2, <3>1
  <2>4. /\ status' \in [Items -> Statuses]
        /\ \A i \in Items : status'[i] = "absent" => status[i] = "absent"
    BY <2>1, <2>2 DEF SyncInv, TableTyped, Statuses
  <2>5. TableTyped' /\ ManagerTyped'
    BY <1>2, <2>3, <2>4 DEF Mark, SyncInv, TableTyped, ManagerTyped
  <2>6. ThreadTyped'
    BY <1>2, <2>1 DEF Mark, Goto, SyncInv, ThreadTyped, PCs
  <2>7. HoldsLock'
    BY <1>2 DEF Mark, Goto, SyncInv, ThreadTyped, HoldsLock, Critical
  <2>. QED
    BY <2>5, <2>6, <2>7 DEF SyncInv
<1>3. CASE QueueRaises(w) \/ LoopEnds(w)
  <2>1. TableTyped' /\ ManagerTyped'
    BY <1>3 DEF QueueRaises, LoopEnds, table, SyncInv, TableTyped, ManagerTyped
  <2>2. ThreadTyped'
    <3>1. <<>> \in Seq(Items)
      OBVIOUS
    <3>2. CASE QueueRaises(w)
      BY <3>1, <3>2 DEF QueueRaises, Goto, SyncInv, ThreadTyped, PCs
    <3>3. CASE LoopEnds(w)
      BY <3>3 DEF LoopEnds, Goto, SyncInv, ThreadTyped, PCs
    <3>. QED
      BY <1>3, <3>2, <3>3
  <2>3. HoldsLock'
    BY <1>3, SMTT(30) DEF QueueRaises, LoopEnds, Goto, SyncInv, ThreadTyped, HoldsLock, Critical
  <2>. QED
    BY <2>1, <2>2, <2>3 DEF SyncInv
<1>4. CASE Release(w)
  <2>1. TableTyped' /\ ManagerTyped'
    BY <1>4 DEF Release, table, SyncInv, TableTyped, ManagerTyped
  <2>2. ThreadTyped'
    BY <1>4 DEF Release, Goto, SyncInv, ThreadTyped, PCs
  <2>3. HoldsLock'
    <3>1. \A v \in Workers \ {w} : pc[v] \in Critical => manager[v] # manager[w]
      BY <1>4 DEF Release, SyncInv, HoldsLock, Critical
    <3>. QED
      BY <1>4, <3>1 DEF Release, Goto, SyncInv, ManagerTyped, ThreadTyped, HoldsLock, Critical
  <2>. QED
    BY <2>1, <2>2, <2>3 DEF SyncInv
<1>. QED
  BY <1>1, <1>2, <1>3, <1>4

\* The steps of monitors and processes.
LEMMA MonitorTyped ==
  ASSUME SyncInv, NEW m \in Managers,
         ProcessEnds(m) \/ \E new \in Connectivity : Poll(m, new)
  PROVE  SyncInv'
<1>1. CASE ProcessEnds(m)
  <2>1. TableTyped' /\ ManagerTyped'
    BY <1>1 DEF ProcessEnds, table, SyncInv, TableTyped, ManagerTyped, Connectivity
  <2>2. ThreadTyped'
    <3>1. <<>> \in Seq(Items)
      OBVIOUS
    <3>. DEFINE dead == {w \in Workers : manager[w] = m /\ pc[w] # "idle"}
    <3>2. /\ pc' = [w \in Workers |-> IF w \in dead THEN "idle" ELSE pc[w]]
          /\ batch' = [w \in Workers |-> IF w \in dead THEN <<>> ELSE batch[w]]
          /\ failed' = [w \in Workers |-> IF w \in dead THEN FALSE ELSE failed[w]]
          /\ UNCHANGED <<manager, result>>
      BY <1>1 DEF ProcessEnds
    <3>. HIDE DEF dead
    <3>3. /\ pc' \in [Workers -> PCs] /\ batch' \in [Workers -> Seq(Items)]
          /\ failed' \in [Workers -> BOOLEAN]
      BY <3>1, <3>2 DEF SyncInv, ThreadTyped, PCs
    <3>. QED
      BY <3>2, <3>3 DEF SyncInv, ThreadTyped
  <2>3. HoldsLock'
    BY <1>1 DEF ProcessEnds, SyncInv, ManagerTyped, ThreadTyped, HoldsLock, Critical
  <2>. QED
    BY <2>1, <2>2, <2>3 DEF SyncInv
<1>2. CASE \E new \in Connectivity : Poll(m, new)
  <2>1. PICK new \in Connectivity : Poll(m, new)
    BY <1>2
  <2>2. TableTyped' /\ ManagerTyped'
    BY <2>1 DEF Poll, table, SyncInv, TableTyped, ManagerTyped
  <2>3. \/ UNCHANGED <<pc, manager, result>>
        \/ \E w \in Workers : /\ pc[w] = "idle" /\ pc' = [pc EXCEPT ![w] = "called"]
                              /\ manager' = [manager EXCEPT ![w] = m]
                              /\ result' = [result EXCEPT ![w] = None]
    BY <2>1 DEF Poll, Goto
  <2>4. UNCHANGED <<lock, inProgress, batch, failed>>
    BY <2>1 DEF Poll
  <2>5. ThreadTyped'
    <3>1. CASE UNCHANGED <<pc, manager, result>>
      BY <2>4, <3>1 DEF SyncInv, ThreadTyped
    <3>2. ASSUME NEW w \in Workers, pc[w] = "idle", pc' = [pc EXCEPT ![w] = "called"],
                 manager' = [manager EXCEPT ![w] = m], result' = [result EXCEPT ![w] = None]
          PROVE  ThreadTyped'
      <4>1. /\ pc' \in [Workers -> PCs] /\ manager' \in [Workers -> Managers \cup {None}]
            /\ result' \in [Workers -> {None, "True", "False"}]
        BY <3>2 DEF SyncInv, ThreadTyped, PCs
      <4>2. pc'[w] = "called" /\ manager'[w] = m /\ batch[w] = <<>>
        BY <3>2 DEF SyncInv, ThreadTyped
      <4>3. \A v \in Workers \ {w} : pc'[v] = pc[v] /\ manager'[v] = manager[v]
        BY <3>2 DEF SyncInv, ThreadTyped
      <4>. QED
        BY <2>4, <4>1, <4>2, <4>3 DEF SyncInv, ThreadTyped
    <3>. QED
      BY <2>3, <3>1, <3>2
  <2>6. HoldsLock'
    BY <2>3, <2>4 DEF SyncInv, ThreadTyped, HoldsLock, Critical
  <2>. QED
    BY <2>2, <2>5, <2>6 DEF SyncInv
<1>. QED
  BY <1>1, <1>2

LEMMA SyncInvIsInductive ==
  ASSUME IsFiniteSet(Items), SyncInv, [Next]_vars
  PROVE  SyncInv'
<1>1. CASE UNCHANGED vars
  BY <1>1 DEF vars, SyncInv, TableTyped, ManagerTyped, ThreadTyped, HoldsLock
<1>2. CASE \E i \in Items : MakeItem(i) \/ Enqueue(i)
  BY <1>2, StoreTyped
<1>3. CASE Serve
  <2>1. CASE \/ \E i \in Items : RetryFailed({i})
             \/ RetryFailed({i \in Items : status[i] = "FAILED"})
    <3>1. \E ids \in SUBSET Items : RetryFailed(ids)
      BY <2>1
    <3>. QED
      BY <3>1, StoreTyped
  <2>2. CASE \E ids \in SUBSET {i \in Items : status[i] = "SYNCED"} : ClearSynced(ids)
    <3>1. \E ids \in SUBSET Items : ClearSynced(ids)
      BY <2>2
    <3>. QED
      BY <3>1, StoreTyped
  <2>3. CASE \E w \in Workers, m \in Managers : CallSync(w, m)
    BY <2>3, EntryTyped
  <2>4. CASE \E w \in Workers : WorkerStep(w)
    BY <2>4, EntryTyped, LoopTyped DEF WorkerStep
  <2>5. CASE \E m \in Managers : ProcessEnds(m) \/ \E new \in Connectivity : Poll(m, new)
    BY <2>5, MonitorTyped
  <2>. QED
    BY <1>3, <2>1, <2>2, <2>3, <2>4, <2>5 DEF Serve
<1>. QED
  BY <1>1, <1>2, <1>3 DEF Next

LEMMA InitTyped ==
  ASSUME IsFiniteSet(Items), Init
  PROVE  SyncInv
<1>1. Cardinality(Items) \in Nat
  BY FS_CardinalityType
<1>. QED
  BY <1>1 DEF Init, SyncInv, TableTyped, ManagerTyped, ThreadTyped, HoldsLock, Critical,
              Statuses, Connectivity, PCs

\* Between acquire and release a thread holds the lock of its manager, whatever
\* raises in it, whatever other threads do and whichever process ends, and the
\* tables and locals stay what they are declared to be (sync_manager.py:45-59).
THEOREM SyncIsTyped ==
  ASSUME IsFiniteSet(Items)
  PROVE  Spec => []TypeOK
<1>1. Init => SyncInv
  BY InitTyped
<1>2. SyncInv /\ [Next]_vars => SyncInv'
  BY SyncInvIsInductive
<1>3. SyncInv => TypeOK
  BY DEF SyncInv, TableTyped, ManagerTyped, ThreadTyped, HoldsLock, Critical, TypeOK
<1>. QED
  BY <1>1, <1>2, <1>3, PTL DEF Spec

-----------------------------------------------------------------------------
(* One manager: its lock makes the thread in the critical section the only *)
(* one that marks rows.                                                    *)

OneManager == \A m, n \in Managers : m = n

\* The rows of a batch wait until their thread marks them, each once.
BatchWaits ==
  \A w \in Workers : \A a \in 1..Len(batch[w]) :
    /\ status[batch[w][a]] = "PENDING"
    /\ \A b \in 1..Len(batch[w]) : a # b => batch[w][a] # batch[w][b]

InFlight(i) == \E w \in Workers : pc[w] = "mark" /\ Head(batch[w]) = i
Closed(i) == status[i] \in {"SYNCED", "cleared"} \/ InFlight(i)

\* Only an item that left the store, or whose last upload awaits its mark, has
\* used the delivery that no failure accounts for.
Accounted ==
  \A i \in Items :
    /\ delivered[i] <= retryCount[i] + mishaps + 1
    /\ delivered[i] = retryCount[i] + mishaps + 1 => Closed(i)

OneInv == SyncInv /\ BatchWaits /\ Accounted

LEMMA OneAtATime ==
  ASSUME OneManager, SyncInv, NEW v \in Workers, NEW w \in Workers,
         pc[v] \in Critical, pc[w] \in Critical
  PROVE  v = w
BY SMTT(30) DEF OneManager, SyncInv, HoldsLock, ThreadTyped, Critical

LEMMA BatchItems ==
  ASSUME SyncInv, NEW w \in Workers, batch[w] # <<>>
  PROVE  /\ Head(batch[w]) = batch[w][1] /\ Head(batch[w]) \in Items
         /\ 1 \in 1..Len(batch[w]) /\ pc[w] \in Critical
BY DEF SyncInv, ThreadTyped, Critical

\* A step that is no dequeue, upload or mark.
LEMMA QuietOne ==
  ASSUME OneInv, SyncInv', UNCHANGED <<delivered, retryCount>>,
         \A i \in Items : status[i] = "PENDING" => status'[i] = "PENDING",
         \A i \in Items : status[i] \in {"SYNCED", "cleared"} =>
           status'[i] \in {"SYNCED", "cleared"},
         \A w \in Workers : batch'[w] \in {batch[w], <<>>},
         \/ mishaps' = mishaps + 1
         \/ /\ mishaps' = mishaps
            /\ \A w \in Workers : pc[w] = "mark" => pc'[w] = "mark" /\ batch'[w] = batch[w]
  PROVE  OneInv'
<1>1. BatchWaits'
  <2>1. SUFFICES ASSUME NEW w \in Workers, NEW a \in 1..Len(batch'[w])
                 PROVE  /\ status'[batch'[w][a]] = "PENDING"
                        /\ \A b \in 1..Len(batch'[w]) : a # b => batch'[w][a] # batch'[w][b]
    BY DEF BatchWaits
  <2>2. batch'[w] = batch[w]
    <3>1. Len(<<>>) = 0
      OBVIOUS
    <3>. QED
      BY <2>1, <3>1
  <2>3. batch[w][a] \in Items
    BY <2>1, <2>2 DEF OneInv, SyncInv, ThreadTyped
  <2>. QED
    BY <2>1, <2>2, <2>3 DEF OneInv, BatchWaits
<1>2. Accounted'
  <2>1. SUFFICES ASSUME NEW i \in Items
                 PROVE  /\ delivered[i] <= retryCount[i] + mishaps' + 1
                        /\ delivered[i] = retryCount[i] + mishaps' + 1 => Closed(i)'
    BY DEF Accounted
  <2>2. /\ delivered[i] \in Nat /\ retryCount[i] \in Nat /\ mishaps \in Nat
        /\ delivered[i] <= retryCount[i] + mishaps + 1
        /\ delivered[i] = retryCount[i] + mishaps + 1 => Closed(i)
    BY <2>1 DEF OneInv, SyncInv, TableTyped, Accounted
  <2>3. CASE mishaps' = mishaps + 1
    BY <2>2, <2>3
  <2>4. CASE mishaps' # mishaps + 1
    <3>1. Closed(i) => Closed(i)'
      BY <2>1, <2>4 DEF Closed, InFlight
    <3>. QED
      BY <2>2, <2>4, <3>1
  <2>. QED
    BY <2>3, <2>4
<1>. QED
  BY <1>1, <1>2 DEF OneInv

LEMMA DequeueOne ==
  ASSUME OneManager, IsFiniteSet(Items), OneInv, SyncInv', NEW w \in Workers, Dequeue(w)
  PROVE  OneInv'
<1>1. PICK q \in DequeuePending : batch' = [batch EXCEPT ![w] = q]
  BY DEF Dequeue
<1>2. /\ pc[w] = "dequeue" /\ pc' = [pc EXCEPT ![w] = "upload"]
      /\ UNCHANGED <<status, retryCount, delivered, mishaps>>
  BY DEF Dequeue, Goto, table
<1>3. batch \in [Workers -> Seq(Items)] /\ pc \in [Workers -> PCs]
  BY DEF OneInv, SyncInv, ThreadTyped
<1>4. BatchWaits'
  <2>1. SUFFICES ASSUME NEW v \in Workers, NEW a \in 1..Len(batch'[v])
                 PROVE  /\ status[batch'[v][a]] = "PENDING"
                        /\ \A b \in 1..Len(batch'[v]) : a # b => batch'[v][a] # batch'[v][b]
    BY <1>2 DEF BatchWaits
  <2>2. CASE v = w
    <3>1. batch'[v] = q
      BY <1>1, <1>3, <2>2
    <3>. QED
      BY <2>1, <3>1, SelectedRows DEF OneInv
  <2>3. CASE v # w
    <3>1. batch'[v] = batch[v]
      BY <1>1, <1>3, <2>3
    <3>. QED
      BY <2>1, <3>1 DEF OneInv, BatchWaits
  <2>. QED
    BY <2>2, <2>3
<1>5. Accounted'
  <2>1. ASSUME NEW i \in Items, Closed(i) PROVE Closed(i)'
    BY <1>1, <1>2, <1>3, <2>1 DEF Closed, InFlight
  <2>. QED
    BY <1>2, <2>1 DEF OneInv, Accounted
<1>. QED
  BY <1>4, <1>5 DEF OneInv

LEMMA UploadOne ==
  ASSUME OneManager, OneInv, SyncInv', NEW w \in Workers, Upload(w)
  PROVE  OneInv'
<1>. DEFINE item == Head(batch[w])
<1>1. PICK took \in {0, 1} : delivered' = [delivered EXCEPT ![item] = @ + took]
  BY DEF Upload
<1>2. /\ pc[w] = "upload" /\ batch[w] # <<>> /\ pc' = [pc EXCEPT ![w] = "mark"]
      /\ UNCHANGED <<status, retryCount, batch, mishaps>>
  BY DEF Upload, Goto, table
<1>3. item \in Items /\ status[item] = "PENDING"
  BY <1>2, BatchItems DEF OneInv, BatchWaits
<1>4. \A i \in Items : ~InFlight(i)
  BY <1>2, OneAtATime DEF OneInv, InFlight, Critical
<1>5. \A i \in Items : i = item => InFlight(i)'
  BY <1>2 DEF InFlight, OneInv, SyncInv, ThreadTyped
<1>6. BatchWaits'
  BY <1>2 DEF OneInv, BatchWaits
<1>7. Accounted'
  <2>. HIDE DEF item
  <2>1. SUFFICES ASSUME NEW i \in Items
                 PROVE  /\ delivered'[i] <= retryCount[i] + mishaps + 1
                        /\ delivered'[i] = retryCount[i] + mishaps + 1 => Closed(i)'
    BY <1>2 DEF Accounted
  <2>2. /\ delivered[i] \in Nat /\ retryCount[i] \in Nat /\ mishaps \in Nat
        /\ delivered \in [Items -> Nat]
        /\ delivered[i] <= retryCount[i] + mishaps + 1
        /\ delivered[i] = retryCount[i] + mishaps + 1 => status[i] \in {"SYNCED", "cleared"}
    BY <2>1, <1>4 DEF OneInv, SyncInv, TableTyped, Accounted, Closed
  <2>3. CASE i = item
    <3>1. delivered'[i] = delivered[i] + took /\ Closed(i)'
      BY <1>1, <1>5, <2>2, <2>3 DEF Closed
    <3>2. delivered[i] # retryCount[i] + mishaps + 1
      BY <1>3, <2>2, <2>3
    <3>. QED
      BY <2>2, <3>1, <3>2
  <2>4. CASE i # item
    <3>1. delivered'[i] = delivered[i]
      BY <1>1, <2>2, <2>4
    <3>2. status[i] \in {"SYNCED", "cleared"} => Closed(i)'
      BY <1>2 DEF Closed
    <3>. QED
      BY <2>2, <3>1, <3>2
  <2>. QED
    BY <2>3, <2>4
<1>. QED
  BY <1>6, <1>7 DEF OneInv

LEMMA MarkOne ==
  ASSUME OneManager, OneInv, SyncInv', NEW w \in Workers, Mark(w)
  PROVE  /\ OneInv'
         /\ \A i \in Items : status[i] = "SYNCED" => status'[i] = "SYNCED"
<1>. DEFINE item == Head(batch[w])
<1>1. /\ pc[w] = "mark" /\ batch[w] # <<>> /\ pc' = [pc EXCEPT ![w] = "upload"]
      /\ batch' = [batch EXCEPT ![w] = Tail(@)] /\ UNCHANGED <<delivered, mishaps>>
  BY DEF Mark, Goto, OneInv, SyncInv, ThreadTyped
<1>2. item \in Items /\ status[item] = "PENDING"
  BY <1>1, BatchItems DEF OneInv, BatchWaits
<1>3. /\ \/ /\ status' = [status EXCEPT ![item] = "FAILED"]
            /\ retryCount' = [retryCount EXCEPT ![item] = @ + 1]
         \/ status' = [status EXCEPT ![item] = "SYNCED"] /\ UNCHANGED retryCount
  BY <1>2 DEF Mark, MarkFailed, MarkSynced, SetStatus
<1>4. /\ status \in [Items -> Statuses] /\ retryCount \in [Items -> Nat]
      /\ batch \in [Workers -> Seq(Items)] /\ mishaps \in Nat /\ delivered \in [Items -> Nat]
  BY DEF OneInv, SyncInv, TableTyped, ThreadTyped
<1>5. \A i \in Items : InFlight(i) => i = item
  BY <1>1, OneAtATime DEF OneInv, InFlight, Critical
<1>6. \A i \in Items \ {item} : status'[i] = status[i] /\ retryCount'[i] = retryCount[i]
  BY <1>3, <1>4
<1>7. \A i \in Items : status[i] = "SYNCED" => status'[i] = "SYNCED"
  BY <1>2, <1>6
<1>8. BatchWaits'
  <2>1. SUFFICES ASSUME NEW v \in Workers, NEW a \in 1..Len(batch'[v])
                 PROVE  /\ status'[batch'[v][a]] = "PENDING"
                        /\ \A b \in 1..Len(batch'[v]) : a # b => batch'[v][a] # batch'[v][b]
    BY DEF BatchWaits
  <2>2. v = w
    <3>1. SUFFICES ASSUME v # w PROVE FALSE
      OBVIOUS
    <3>2. batch'[v] = batch[v]
      BY <1>1, <1>4, <3>1
    <3>3. batch[v] = <<>>
      BY <1>1, <3>1, BatchItems, OneAtATime DEF OneInv, Critical
    <3>. QED
      BY <2>1, <3>2, <3>3
  <2>3. /\ batch'[v] = Tail(batch[w]) /\ Len(batch'[v]) = Len(batch[w]) - 1
        /\ \A b \in 1..Len(batch'[v]) : /\ b + 1 \in 1..Len(batch[w]) /\ b + 1 # 1
                                        /\ batch'[v][b] = batch[w][b + 1]
    BY <1>1, <1>4, <2>2
  <2>4. \A b \in 1..Len(batch'[v]) : /\ batch[w][b + 1] # item /\ batch[w][b + 1] \in Items
                                     /\ status[batch[w][b + 1]] = "PENDING"
    BY <1>1, <1>4, <2>3, BatchItems, SMTT(30) DEF OneInv, BatchWaits
  <2>5. \A b \in 1..Len(batch'[v]) : a # b => batch[w][a + 1] # batch[w][b + 1]
    <3>1. ASSUME NEW b \in 1..Len(batch'[v]), a # b PROVE batch[w][a + 1] # batch[w][b + 1]
      <4>1. a + 1 # b + 1
        BY <3>1, <2>1, <2>3, <1>4
      <4>. QED
        BY <2>1, <2>3, <3>1, <4>1 DEF OneInv, BatchWaits
    <3>. QED
      BY <3>1
  <2>. HIDE DEF item
  <2>. QED
    BY <2>1, <2>3, <2>4, <2>5, <1>6
<1>9. Accounted'
  <2>. HIDE DEF item
  <2>1. SUFFICES ASSUME NEW i \in Items
                 PROVE  /\ delivered[i] <= retryCount'[i] + mishaps + 1
                        /\ delivered[i] = retryCount'[i] + mishaps + 1 => Closed(i)'
    BY <1>1 DEF Accounted
  <2>2. /\ delivered[i] \in Nat /\ retryCount[i] \in Nat
        /\ delivered[i] <= retryCount[i] + mishaps + 1
        /\ delivered[i] = retryCount[i] + mishaps + 1 => Closed(i)
    BY <2>1, <1>4 DEF OneInv, Accounted
  <2>3. CASE i = item
    <3>1. \/ retryCount'[i] = retryCount[i] + 1
          \/ retryCount'[i] = retryCount[i] /\ status'[i] = "SYNCED"
      BY <1>3, <1>4, <2>3
    <3>. QED
      BY <1>4, <2>2, <3>1 DEF Closed
  <2>4. CASE i # item
    <3>1. Closed(i) => Closed(i)'
      BY <1>5, <1>6, <2>4 DEF Closed
    <3>. QED
      BY <1>6, <2>2, <2>4, <3>1
  <2>. QED
    BY <2>3, <2>4
<1>. QED
  BY <1>7, <1>8, <1>9 DEF OneInv

\* One step: the invariant, and what happens to a SYNCED row.
LEMMA OneStep ==
  ASSUME OneManager, IsFiniteSet(Items), OneInv, [Next]_vars
  PROVE  /\ OneInv'
         /\ \A i \in Items : status[i] = "SYNCED" => status'[i] \in {"SYNCED", "cleared"}
<1>1. SyncInv'
  BY SyncInvIsInductive DEF OneInv
<1>2. /\ status \in [Items -> Statuses] /\ batch \in [Workers -> Seq(Items)]
      /\ pc \in [Workers -> PCs]
  BY DEF OneInv, SyncInv, TableTyped, ThreadTyped
<1>3. CASE UNCHANGED vars
  BY <1>1, <1>3, QuietOne DEF vars
<1>4. CASE \E i \in Items : MakeItem(i) \/ Enqueue(i)
  BY <1>1, <1>2, <1>4, QuietOne DEF MakeItem, Enqueue
<1>5. CASE \E ids \in SUBSET Items : RetryFailed(ids)
  BY <1>1, <1>2, <1>5, QuietOne DEF RetryFailed
<1>6. CASE \E ids \in SUBSET Items : ClearSynced(ids)
  BY <1>1, <1>2, <1>6, QuietOne DEF ClearSynced
<1>7. CASE \E w \in Workers, m \in Managers : CallSync(w, m)
  <2>1. PICK w \in Workers, m \in Managers : CallSync(w, m)
    BY <1>7
  <2>. QED
    BY <1>1, <1>2, <2>1, QuietOne DEF CallSync, Goto, table
<1>8. ASSUME NEW w \in Workers, CheckOnline(w) \/ Acquire(w) \/ LoopEnds(w) \/ Release(w)
      PROVE  OneInv' /\ UNCHANGED status
  <2>1. UNCHANGED <<status, retryCount, delivered, batch, mishaps>>
    BY <1>8 DEF CheckOnline, Acquire, LoopEnds, Release, table
  <2>2. \A v \in Workers : pc[v] = "mark" => pc'[v] = "mark"
    BY <1>2, <1>8 DEF CheckOnline, Acquire, LoopEnds, Release, ReturnFalse, Goto
  <2>. QED
    BY <1>1, <2>1, <2>2, QuietOne
<1>9. ASSUME NEW w \in Workers, QueueRaises(w)
      PROVE  OneInv' /\ UNCHANGED status
  BY <1>1, <1>2, <1>9, QuietOne DEF QueueRaises, table
<1>10. CASE \E m \in Managers : ProcessEnds(m)
  BY <1>1, <1>10, QuietOne DEF ProcessEnds, table
<1>11. CASE \E m \in Managers, new \in Connectivity : Poll(m, new)
  <2>1. /\ UNCHANGED <<status, retryCount, delivered, batch, mishaps>>
        /\ pc' = pc \/ \E w \in Workers : pc[w] = "idle" /\ pc' = [pc EXCEPT ![w] = "called"]
    BY <1>11 DEF Poll, Goto, table
  <2>. QED
    BY <1>1, <1>2, <2>1, QuietOne
<1>12. ASSUME NEW w \in Workers, Dequeue(w) \/ Upload(w)
       PROVE  OneInv' /\ UNCHANGED status
  BY <1>1, <1>12, DequeueOne, UploadOne DEF Dequeue, Upload, table
<1>13. CASE Serve
  <2>1. CASE \E w \in Workers : WorkerStep(w)
    BY <1>1, <2>1, <1>8, <1>9, <1>12, MarkOne DEF WorkerStep
  <2>2. CASE \/ \E i \in Items : RetryFailed({i})
             \/ RetryFailed({i \in Items : status[i] = "FAILED"})
    <3>1. \E ids \in SUBSET Items : RetryFailed(ids)
      BY <2>2
    <3>. QED
      BY <3>1, <1>5
  <2>3. CASE \E ids \in SUBSET {i \in Items : status[i] = "SYNCED"} : ClearSynced(ids)
    <3>1. \E ids \in SUBSET Items : ClearSynced(ids)
      BY <2>3
    <3>. QED
      BY <3>1, <1>6
  <2>. QED
    BY <1>13, <1>7, <1>10, <1>11, <2>1, <2>2, <2>3 DEF Serve
<1>. QED
  BY <1>3, <1>4, <1>13 DEF Next

LEMMA InitOne ==
  ASSUME IsFiniteSet(Items), Init
  PROVE  OneInv
<1>1. SyncInv
  BY InitTyped
<1>2. BatchWaits
  <2>1. \A w \in Workers : Len(batch[w]) = 0
    BY DEF Init
  <2>. QED
    BY <2>1 DEF BatchWaits
<1>3. Accounted
  BY DEF Init, Accounted
<1>. QED
  BY <1>1, <1>2, <1>3 DEF OneInv

\* With one manager, any number of its threads, and any order of reconnects,
\* forced syncs, retries, errors and crashes, the cloud gets an item once for
\* each recorded failure, each mark that raised and each process that died, and
\* once more (sync_manager.py:45-59).
THEOREM DuplicatesHaveACause ==
  ASSUME IsFiniteSet(Items), OneManager
  PROVE  Spec => []DuplicatesAreAccounted
<1>1. Init => OneInv
  BY InitOne
<1>2. OneInv /\ [Next]_vars => OneInv'
  BY OneStep
<1>3. OneInv => DuplicatesAreAccounted
  BY DEF OneInv, SyncInv, TableTyped, Accounted, DuplicatesAreAccounted
<1>. QED
  BY <1>1, <1>2, <1>3, PTL DEF Spec

\* With one manager no step of any thread, retry or clearing reopens a row that
\* is SYNCED: a thread marks only rows that still wait (manager.py:68-85 under
\* sync_manager.py:45).
THEOREM SyncedStays ==
  ASSUME IsFiniteSet(Items), OneManager
  PROVE  Spec => SyncedIsFinal
<1>1. Init => OneInv
  BY InitOne
<1>2. OneInv /\ [Next]_vars => OneInv'
  BY OneStep
<1>3. OneInv /\ [Next]_vars =>
        [\A i \in Items : status[i] = "SYNCED" => status'[i] \in {"SYNCED", "cleared"}]_vars
  BY OneStep
<1>. QED
  BY <1>1, <1>2, <1>3, PTL DEF Spec, SyncedIsFinal

-----------------------------------------------------------------------------
(* The order of delivery, for any number of managers.  Of two items of one *)
(* writer the one that was made earlier is inserted earlier, if at all;    *)
(* if it has no lower priority it is selected first while it waits; and    *)
(* once it waits no more it was delivered, or an upload of it was recorded *)
(* as failed.                                                              *)

Older(i, j) ==
  /\ Writer[i] = Writer[j] /\ status[i] # "absent"
  /\ created[i] < created[j] /\ Priority[i] >= Priority[j]
Settled(i) == delivered[i] > 0 \/ retryCount[i] > 0

RowsSettle ==
  \A i \in Items :
    /\ status[i] \in {"SYNCED", "FAILED", "cleared"} => Settled(i)
    /\ delivered[i] > 0 => status[i] # "absent"

\* What row j of a batch of thread w waits for is settled, or before it there.
Ahead(w, j, i) == Settled(i) \/ \E b \in 1..(j - 1) : batch[w][b] = i

InOrder(w, j) ==
  /\ status[batch[w][j]] # "absent"
  /\ \A i \in Items : Older(i, batch[w][j]) => Ahead(w, j, i)

BatchOrder == \A w \in Workers : \A j \in 1..Len(batch[w]) : InOrder(w, j)

DeliveryOrder ==
  \A i, j \in Items : Older(i, j) /\ delivered[j] > 0 => Settled(i)

OrderInv == SyncInv /\ DeliveryInv /\ RowsSettle /\ BatchOrder /\ DeliveryOrder

\* A step that selects, uploads and marks nothing and adds no row.
LEMMA QuietOrder ==
  ASSUME OrderInv, SyncInv', DeliveryInv',
         UNCHANGED <<created, delivered, retryCount>>,
         \A i \in Items : /\ status'[i] = "absent" <=> status[i] = "absent"
                          /\ status'[i] \in {"SYNCED", "FAILED", "cleared"} =>
                               status[i] \in {"SYNCED", "FAILED", "cleared"},
         \A w \in Workers : batch'[w] = batch[w] \/ batch'[w] = <<>>
  PROVE  OrderInv'
<1>1. RowsSettle' /\ DeliveryOrder'
  BY DEF OrderInv, RowsSettle, DeliveryOrder, Older, Settled
<1>2. ASSUME NEW w \in Workers, NEW j \in 1..Len(batch'[w])
      PROVE  InOrder(w, j)'
  <2>1. batch'[w] = batch[w] /\ j \in 1..Len(batch[w])
    BY <1>2
  <2>2. batch[w][j] \in Items
    BY <2>1 DEF OrderInv, SyncInv, ThreadTyped
  <2>3. InOrder(w, j)
    BY <2>1 DEF OrderInv, BatchOrder
  <2>4. \A i : Ahead(w, j, i) => Ahead(w, j, i)'
    BY <2>1 DEF Ahead, Settled
  <2>. QED
    BY <2>1, <2>2, <2>3, <2>4 DEF InOrder, Older
<1>. QED
  BY <1>1, <1>2 DEF OrderInv, BatchOrder

\* A step of a writer that makes no row older than one which is in the table.
LEMMA WriterOrder ==
  ASSUME OrderInv, SyncInv', DeliveryInv', UNCHANGED <<retryCount, delivered, batch>>,
         \A i \in Items : status'[i] = status[i] \/ status'[i] = "PENDING",
         \A i, j \in Items : status[j] # "absent" /\ Older(i, j)' => Older(i, j)
  PROVE  OrderInv'
<1>1. RowsSettle' /\ DeliveryOrder'
  BY DEF OrderInv, RowsSettle, DeliveryOrder, Settled
<1>2. ASSUME NEW w \in Workers, NEW j \in 1..Len(batch[w]) PROVE InOrder(w, j)'
  <2>1. batch[w][j] \in Items /\ InOrder(w, j)
    BY DEF OrderInv, BatchOrder, SyncInv, ThreadTyped
  <2>2. \A i : Ahead(w, j, i) => Ahead(w, j, i)'
    BY DEF Ahead, Settled
  <2>3. \A i \in Items : Older(i, batch[w][j])' => Older(i, batch[w][j])
    BY <2>1 DEF InOrder, Older
  <2>4. status'[batch[w][j]] # "absent"
    BY <2>1 DEF InOrder
  <2>. QED
    BY <2>1, <2>2, <2>3, <2>4 DEF InOrder
<1>3. BatchOrder'
  BY <1>2 DEF BatchOrder
<1>. QED
  BY <1>1, <1>3 DEF OrderInv

\* The new item has no row yet.
LEMMA MakeOrder ==
  ASSUME OrderInv, SyncInv', DeliveryInv', NEW n \in Items, MakeItem(n)
  PROVE  OrderInv'
<1>1. /\ status[n] = "absent" /\ UNCHANGED <<status, retryCount, delivered, batch>>
      /\ \A i \in Items \ {n} : created'[i] = created[i]
  BY DEF MakeItem, OrderInv, SyncInv, TableTyped
<1>2. \A i, j \in Items : status[j] # "absent" /\ Older(i, j)' => Older(i, j)
  BY <1>1 DEF Older
<1>. QED
  BY <1>1, <1>2, WriterOrder

\* The new row is its writer's latest.
LEMMA EnqueueOrder ==
  ASSUME IsFiniteSet(Items), OrderInv, SyncInv', DeliveryInv', NEW n \in Items, Enqueue(n)
  PROVE  OrderInv'
<1>1. /\ \A j \in Items : Writer[j] = Writer[n] => created[j] <= created[n]
      /\ UNCHANGED <<created, retryCount, delivered, batch>> /\ status'[n] = "PENDING"
      /\ \A i \in Items \ {n} : status'[i] = status[i]
  BY DEF Enqueue, OrderInv, SyncInv, TableTyped
<1>2. \A i \in Items : created[i] \in Nat
  BY FS_CardinalityType DEF OrderInv, SyncInv, TableTyped
<1>3. ASSUME NEW i \in Items, NEW j \in Items, Older(i, j)' PROVE Older(i, j)
  <2>1. i # n
    BY <1>1, <1>2, <1>3 DEF Older
  <2>. QED
    BY <1>1, <1>3, <2>1 DEF Older
<1>. QED
  BY <1>1, <1>3, WriterOrder

\* The SELECT takes an older row that waits before a later one.
LEMMA DequeueOrder ==
  ASSUME IsFiniteSet(Items), OrderInv, SyncInv', DeliveryInv', NEW w \in Workers, Dequeue(w)
  PROVE  OrderInv'
<1>1. PICK q \in DequeuePending : batch' = [batch EXCEPT ![w] = q]
  BY DEF Dequeue
<1>2. UNCHANGED <<status, retryCount, created, delivered>>
  BY DEF Dequeue, table
<1>3. /\ q \in Seq(Items)
      /\ \A a \in 1..Len(q) : status[q[a]] = "PENDING"
  BY SelectedRows DEF OrderInv
<1>4. RowsSettle' /\ DeliveryOrder'
  BY <1>2 DEF OrderInv, RowsSettle, DeliveryOrder, Older, Settled
<1>5. ASSUME NEW j \in 1..Len(q), NEW i \in Items, Older(i, q[j]), ~Settled(i)
      PROVE  \E b \in 1..(j - 1) : q[b] = i
  <2>. DEFINE pending == {k \in Items : status[k] = "PENDING"}
              size == IF Cardinality(pending) < Limit THEN Cardinality(pending) ELSE Limit
              before(k, l) == \/ Priority[k] > Priority[l]
                              \/ Priority[k] = Priority[l] /\ created[k] < created[l]
  <2>1. /\ q \in [1..size -> pending]
        /\ \A a, b \in 1..size : a < b => before(q[a], q[b])
        /\ \A a \in 1..size, k \in pending :
             (\A b \in 1..size : q[b] # k) => before(q[a], k)
    BY DEF DequeuePending, FirstRows
  <2>2. size = Len(q) /\ Len(q) \in Nat
    <3>1. Cardinality(pending) \in Nat
      BY FS_Subset, FS_CardinalityType
    <3>2. size \in Nat
      BY <3>1, LimitAssumption
    <3>. HIDE DEF size
    <3>. QED
      BY <2>1, <3>2, <1>3
  <2>3. i \in pending
    BY <1>5 DEF OrderInv, RowsSettle, SyncInv, TableTyped, Statuses, Older
  <2>. HIDE DEF size, pending
  <2>4. ~before(q[j], i)
    <3>1. q[j] \in Items /\ Cardinality(Items) \in Nat
      BY <1>3, FS_CardinalityType
    <3>2. created[i] \in Nat /\ created[q[j]] \in Nat
      BY <3>1 DEF OrderInv, SyncInv, TableTyped
    <3>. QED
      BY <1>5, <3>1, <3>2, PriorityAssumption DEF Older
  <2>. HIDE DEF before
  <2>5. PICK b \in 1..size : q[b] = i
    BY <2>1, <2>2, <2>3, <2>4
  <2>6. b # j
    BY <1>5, <2>5, FS_CardinalityType DEF Older, OrderInv, SyncInv, TableTyped
  <2>7. ~(j < b)
    BY <2>1, <2>2, <2>4, <2>5
  <2>. QED
    BY <2>2, <2>5, <2>6, <2>7
<1>6. batch' \in [Workers -> Seq(Items)] /\ batch'[w] = q
  BY <1>1, <1>3 DEF OrderInv, SyncInv, ThreadTyped
<1>7. ASSUME NEW v \in Workers, NEW j \in 1..Len(batch'[v])
      PROVE  InOrder(v, j)'
  <2>1. CASE v = w
    <3>1. \A i \in Items : Older(i, q[j]) /\ ~Settled(i) => \E b \in 1..(j - 1) : q[b] = i
      BY <1>5, <1>6, <2>1
    <3>. QED
      BY <1>2, <1>3, <1>6, <2>1, <3>1 DEF InOrder, Older, Ahead, Settled
  <2>2. CASE v # w
    <3>1. batch'[v] = batch[v]
      BY <1>1, <2>2 DEF OrderInv, SyncInv, ThreadTyped
    <3>2. InOrder(v, j)
      BY <3>1 DEF OrderInv, BatchOrder
    <3>. QED
      BY <1>2, <3>1, <3>2 DEF InOrder, Older, Ahead, Settled
  <2>. QED
    BY <2>1, <2>2
<1>. QED
  BY <1>4, <1>7 DEF OrderInv, BatchOrder

\* The first row of a batch is sent when all it waits for is settled.
LEMMA UploadOrder ==
  ASSUME OrderInv, SyncInv', DeliveryInv', NEW w \in Workers, Upload(w)
  PROVE  OrderInv'
<1>. DEFINE item == Head(batch[w])
<1>1. PICK took \in {0, 1} : delivered' = [delivered EXCEPT ![item] = @ + took]
  BY DEF Upload
<1>2. batch[w] # <<>> /\ UNCHANGED <<status, retryCount, created, batch>>
  BY DEF Upload, table
<1>3. item \in Items /\ item = batch[w][1] /\ 1 \in 1..Len(batch[w])
  BY <1>2, BatchItems DEF OrderInv
<1>4. \A i \in Items : /\ delivered'[i] >= delivered[i]
                       /\ i # item => delivered'[i] = delivered[i]
                       /\ delivered'[i] \in Nat
  <2>1. delivered \in [Items -> Nat] /\ took \in Nat
    BY DEF OrderInv, SyncInv, TableTyped
  <2>2. \A i \in Items :
          delivered'[i] = IF i = item THEN delivered[i] + took ELSE delivered[i]
    BY <1>1, <2>1
  <2>. HIDE DEF item
  <2>. QED
    BY <2>1, <2>2
<1>5. \A i \in Items : Settled(i) => Settled(i)'
  BY <1>2, <1>4 DEF Settled, OrderInv, SyncInv, TableTyped
<1>6. status[item] # "absent" /\ \A i \in Items : Older(i, item) => Settled(i)
  <2>1. \A i : ~\E b \in 1..(1 - 1) : batch[w][b] = i
    OBVIOUS
  <2>. QED
    BY <1>3, <2>1 DEF OrderInv, BatchOrder, InOrder, Ahead
<1>. HIDE DEF item
<1>7. RowsSettle'
  BY <1>2, <1>4, <1>5, <1>6 DEF OrderInv, RowsSettle
<1>8. DeliveryOrder'
  <2>1. SUFFICES ASSUME NEW i \in Items, NEW j \in Items, Older(i, j), delivered'[j] > 0
                 PROVE  Settled(i)'
    BY <1>2 DEF DeliveryOrder, Older
  <2>2. CASE j = item
    BY <1>5, <1>6, <2>1, <2>2
  <2>3. CASE j # item
    BY <1>4, <1>5, <2>1, <2>3 DEF OrderInv, DeliveryOrder
  <2>. QED
    BY <2>2, <2>3
<1>9. ASSUME NEW v \in Workers, NEW j \in 1..Len(batch[v])
      PROVE  InOrder(v, j)'
  <2>1. InOrder(v, j)
    BY DEF OrderInv, BatchOrder
  <2>. QED
    BY <1>2, <1>5, <2>1 DEF InOrder, Older, Ahead
<1>. QED
  BY <1>2, <1>7, <1>8, <1>9 DEF OrderInv, BatchOrder

\* The row that leaves a batch is settled.
LEMMA MarkOrder ==
  ASSUME OrderInv, SyncInv', DeliveryInv', NEW w \in Workers, Mark(w)
  PROVE  OrderInv'
<1>. DEFINE item == Head(batch[w])
<1>1. /\ pc[w] = "mark" /\ UNCHANGED <<created, delivered>>
      /\ IF failed[w] THEN /\ SetStatus(item, "FAILED")
                           /\ retryCount' = [retryCount EXCEPT ![item] = @ + 1]
                      ELSE SetStatus(item, "SYNCED") /\ UNCHANGED retryCount
      /\ batch' = [batch EXCEPT ![w] = Tail(@)]
  BY DEF Mark, MarkFailed, MarkSynced
<1>2. batch[w] # <<>> /\ batch[w] \in Seq(Items)
  BY <1>1 DEF OrderInv, SyncInv, ThreadTyped
<1>3. item \in Items /\ item = batch[w][1] /\ status[item] # "absent"
  BY <1>2, BatchItems DEF OrderInv, BatchOrder, InOrder
<1>4. \A i \in Items : /\ retryCount[i] \in Nat /\ retryCount'[i] \in Nat
                       /\ retryCount'[i] >= retryCount[i]
  <2>1. retryCount \in [Items -> Nat] /\ retryCount' \in [Items -> Nat]
    BY DEF OrderInv, SyncInv, TableTyped
  <2>. HIDE DEF item
  <2>. QED
    BY <1>1, <2>1
<1>5. \A i \in Items : Settled(i) => Settled(i)'
  BY <1>1, <1>4 DEF Settled
<1>6. ASSUME NEW i \in Items, i = item PROVE Settled(i)'
  <2>1. CASE failed[w]
    <3>1. retryCount'[i] = retryCount[i] + 1 /\ retryCount[i] \in Nat
      BY <1>1, <1>3, <1>6, <2>1 DEF OrderInv, SyncInv, TableTyped
    <3>. QED
      BY <3>1 DEF Settled
  <2>2. CASE ~failed[w]
    <3>1. delivered[item] > 0
      BY <1>1, <1>3, <2>2 DEF OrderInv, DeliveryInv, AboutToMark
    <3>. QED
      BY <1>1, <1>6, <3>1 DEF Settled
  <2>. QED
    BY <2>1, <2>2
<1>7. \A i \in Items : /\ i # item => status'[i] = status[i]
                       /\ status'[i] = "absent" <=> status[i] = "absent"
  BY <1>1, <1>3 DEF SetStatus, OrderInv, SyncInv, TableTyped
<1>. HIDE DEF item
<1>8. RowsSettle'
  BY <1>1, <1>5, <1>6, <1>7 DEF OrderInv, RowsSettle
<1>9. DeliveryOrder'
  BY <1>1, <1>5, <1>7 DEF OrderInv, DeliveryOrder, Older
<1>10. ASSUME NEW v \in Workers, NEW j \in 1..Len(batch'[v])
       PROVE  InOrder(v, j)'
  <2>1. CASE v = w
    <3>1. batch'[w] = Tail(batch[w])
      BY <1>1 DEF OrderInv, SyncInv, ThreadTyped
    <3>2. Len(batch[w]) \in Nat /\ Len(batch[w]) > 0 /\ Len(batch'[w]) = Len(batch[w]) - 1
      BY <1>2, <3>1
    <3>3. \A k \in 1..(Len(batch[w]) - 1) : batch'[w][k] = batch[w][k + 1]
      BY <1>2, <3>1
    <3>4. /\ j \in Nat /\ j + 1 \in 1..Len(batch[w]) /\ batch'[w][j] = batch[w][j + 1]
      BY <2>1, <3>2, <3>3
    <3>5. batch[w][j + 1] \in Items /\ InOrder(w, j + 1)
      BY <1>2, <3>4 DEF OrderInv, BatchOrder
    <3>6. ASSUME NEW i \in Items, Older(i, batch[w][j + 1]) PROVE Ahead(w, j, i)'
      <4>1. CASE Settled(i)
        BY <1>5, <4>1 DEF Ahead
      <4>2. CASE \E b \in 1..(j + 1 - 1) : batch[w][b] = i
        <5>1. PICK b \in 1..j : batch[w][b] = i
          BY <3>4, <4>2
        <5>2. CASE b = 1
          BY <1>3, <1>6, <5>1, <5>2 DEF Ahead
        <5>3. CASE b # 1
          <6>1. b - 1 \in 1..(j - 1) /\ b - 1 \in 1..(Len(batch[w]) - 1)
            BY <3>2, <3>4, <5>3
          <6>2. batch'[w][b - 1] = i
            BY <3>3, <5>1, <6>1
          <6>. QED
            BY <6>1, <6>2 DEF Ahead
        <5>. QED
          BY <5>2, <5>3
      <4>. QED
        BY <3>5, <3>6, <4>1, <4>2 DEF InOrder, Ahead
    <3>7. status'[batch[w][j + 1]] # "absent"
      BY <1>7, <3>5 DEF InOrder
    <3>. QED
      BY <1>1, <1>7, <2>1, <3>4, <3>6, <3>7 DEF InOrder, Older
  <2>2. CASE v # w
    <3>1. batch'[v] = batch[v] /\ batch[v] \in Seq(Items)
      BY <1>1, <2>2 DEF OrderInv, SyncInv, ThreadTyped
    <3>2. batch[v][j] \in Items /\ InOrder(v, j)
      BY <3>1 DEF OrderInv, BatchOrder
    <3>3. \A i \in Items : Ahead(v, j, i) => Ahead(v, j, i)'
      BY <1>5, <3>1 DEF Ahead
    <3>. QED
      BY <1>1, <1>7, <3>1, <3>2, <3>3 DEF InOrder, Older
  <2>. QED
    BY <2>1, <2>2
<1>. QED
  BY <1>8, <1>9, <1>10 DEF OrderInv, BatchOrder

LEMMA OrderStep ==
  ASSUME IsFiniteSet(Items), OrderInv, [Next]_vars
  PROVE  OrderInv'
<1>1. SyncInv' /\ DeliveryInv'
  BY SyncInvIsInductive, DeliveryInvIsInductive DEF OrderInv
<1>2. CASE UNCHANGED vars
  BY <1>1, <1>2, QuietOrder DEF vars
<1>3. CASE \E i \in Items : MakeItem(i) \/ Enqueue(i)
  BY <1>1, <1>3, MakeOrder, EnqueueOrder
<1>4. ASSUME NEW ids \in SUBSET Items, RetryFailed(ids) \/ ClearSynced(ids) PROVE OrderInv'
  <2>1. UNCHANGED <<created, delivered, retryCount, batch>>
    BY <1>4 DEF RetryFailed, ClearSynced
  <2>2. \A i \in Items : /\ status'[i] = "absent" <=> status[i] = "absent"
                         /\ status'[i] \in {"SYNCED", "FAILED", "cleared"} =>
                              status[i] \in {"SYNCED", "FAILED", "cleared"}
    BY <1>4 DEF RetryFailed, ClearSynced
  <2>. QED
    BY <1>1, <2>1, <2>2, QuietOrder
<1>5. ASSUME NEW w \in Workers, WorkerStep(w) PROVE OrderInv'
  <2>1. CASE CheckOnline(w) \/ Acquire(w) \/ QueueRaises(w) \/ LoopEnds(w) \/ Release(w)
    <3>1. UNCHANGED <<status, created, delivered, retryCount>>
      BY <2>1 DEF CheckOnline, Acquire, QueueRaises, LoopEnds, Release, table
    <3>2. \A v \in Workers : batch'[v] = batch[v] \/ batch'[v] = <<>>
      BY <2>1 DEF CheckOnline, Acquire, QueueRaises, LoopEnds, Release, OrderInv, SyncInv,
                  ThreadTyped
    <3>. QED
      BY <1>1, <3>1, <3>2, QuietOrder
  <2>. QED
    BY <1>1, <1>5, <2>1, DequeueOrder, UploadOrder, MarkOrder DEF WorkerStep
<1>6. ASSUME NEW m \in Managers,
             \/ \E w \in Workers : CallSync(w, m)
             \/ ProcessEnds(m)
             \/ \E new \in Connectivity : Poll(m, new)
      PROVE  OrderInv'
  <2>1. UNCHANGED <<status, created, delivered, retryCount>>
    BY <1>6 DEF CallSync, ProcessEnds, Poll, table
  <2>2. \A v \in Workers : batch'[v] = batch[v] \/ batch'[v] = <<>>
    BY <1>6 DEF CallSync, ProcessEnds, Poll
  <2>. QED
    BY <1>1, <2>1, <2>2, QuietOrder
<1>. QED
  <2>1. CASE \/ \E i \in Items : RetryFailed({i})
             \/ RetryFailed({i \in Items : status[i] = "FAILED"})
             \/ \E ids \in SUBSET {i \in Items : status[i] = "SYNCED"} : ClearSynced(ids)
    <3>1. \E ids \in SUBSET Items : RetryFailed(ids) \/ ClearSynced(ids)
      BY <2>1
    <3>. QED
      BY <1>4, <3>1
  <2>. QED
    BY <1>2, <1>3, <1>5, <1>6, <2>1 DEF Next, Serve

LEMMA InitOrder ==
  ASSUME IsFiniteSet(Items), Init
  PROVE  OrderInv
<1>1. SyncInv
  BY InitTyped
<1>2. DeliveryInv
  BY DEF Init, DeliveryInv, Tables, AboutToMark, OnlyDeliveredLeaves, Statuses, PCs
<1>4. /\ \A i \in Items : status[i] = "absent" /\ delivered[i] = 0
      /\ \A w \in Workers : batch[w] = <<>>
  BY DEF Init
<1>5. RowsSettle
  BY <1>4 DEF RowsSettle
<1>6. BatchOrder /\ DeliveryOrder
  BY <1>4 DEF BatchOrder, DeliveryOrder, Older
<1>. QED
  BY <1>1, <1>2, <1>5, <1>6 DEF OrderInv

\* A row enters the table by an enqueue alone.
LEMMA ServeAddsNoRow ==
  ASSUME OrderInv, Serve
  PROVE  \A i \in Items : status'[i] = "absent" <=> status[i] = "absent"
<1>1. ASSUME NEW ids \in SUBSET Items, RetryFailed(ids) \/ ClearSynced(ids)
      PROVE  \A i \in Items : status'[i] = "absent" <=> status[i] = "absent"
  BY <1>1 DEF RetryFailed, ClearSynced
<1>2. ASSUME NEW w \in Workers, WorkerStep(w), ~Mark(w) PROVE status' = status
  BY <1>2 DEF WorkerStep, CheckOnline, Acquire, Dequeue, Upload, QueueRaises, LoopEnds,
              Release, table
<1>3. ASSUME NEW w \in Workers, Mark(w)
      PROVE  \A i \in Items : status'[i] = "absent" <=> status[i] = "absent"
  <2>1. batch[w] # <<>>
    BY <1>3 DEF Mark, OrderInv, SyncInv, ThreadTyped
  <2>2. Head(batch[w]) \in Items /\ status[Head(batch[w])] # "absent"
    BY <2>1, BatchItems DEF OrderInv, BatchOrder, InOrder
  <2>. QED
    BY <1>3, <2>2 DEF Mark, MarkFailed, MarkSynced, SetStatus, OrderInv, SyncInv, TableTyped
<1>4. ASSUME \/ \E w \in Workers, m \in Managers : CallSync(w, m)
             \/ \E m \in Managers : ProcessEnds(m) \/ \E new \in Connectivity : Poll(m, new)
      PROVE  status' = status
  BY <1>4 DEF CallSync, ProcessEnds, Poll, table
<1>5. ASSUME \/ \E i \in Items : RetryFailed({i})
             \/ RetryFailed({i \in Items : status[i] = "FAILED"})
             \/ \E ids \in SUBSET {i \in Items : status[i] = "SYNCED"} : ClearSynced(ids)
      PROVE  \E ids \in SUBSET Items : RetryFailed(ids) \/ ClearSynced(ids)
  BY <1>5
<1>. QED
  BY <1>1, <1>2, <1>3, <1>4, <1>5 DEF Serve
=============================================================================
