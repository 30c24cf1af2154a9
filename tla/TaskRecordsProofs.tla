-------------------------- MODULE TaskRecordsProofs --------------------------
(***************************************************************************)
(* Theorems about TaskRecords, for any sessions, users, results, windows   *)
(* and goals, in this order: sums; types; badges with one winner; the      *)
(* records of a counted task; statistics as sums; what badges are earned   *)
(* and left; and the comparison with the history.                          *)
(***************************************************************************)
EXTENDS TaskRecords, FiniteSetTheorems, WellFoundedInduction, TLAPS

-----------------------------------------------------------------------------
(* Sums.                                                                   *)

\* Every set of natural numbers has a least one: finite sets of numbers, ordered
\* by inclusion, are well-founded.
LEMMA LeastNumber ==
  ASSUME NEW T \in SUBSET Nat, T # {}
  PROVE  \E n \in T : \A m \in T : n <= m
<1>. DEFINE R == StrictSubsetOrdering(Nat)
            S == FiniteSubsetsOf(Nat)
            U == {1..n : n \in T}
<1>1. IsWellFoundedOn(R, S)
  BY FS_StrictSubsetOrderingWellFounded
<1>2. U \subseteq S /\ U # {}
  <2>1. ASSUME NEW n \in T PROVE 1..n \in S
    <3>1. IsFiniteSet(1..n)
      BY FS_Interval
    <3>2. 1..n \in SUBSET Nat
      OBVIOUS
    <3>. QED
      BY <3>1, <3>2 DEF FiniteSubsetsOf
  <2>. QED
    BY <2>1
<1>3. \E x \in U : \A y \in U : <<y, x>> \notin R
  <2>. HIDE DEF R, S, U
  <2>. QED
    BY <1>1, <1>2, WFMin
<1>4. PICK n \in T : \A m \in T : <<1..m, 1..n>> \notin R
  BY <1>3
<1>5. ASSUME NEW m \in T, m < n PROVE FALSE
  <2>1. 1..m \subseteq 1..n /\ n \in 1..n /\ n \notin 1..m
    BY <1>5
  <2>2. <<1..m, 1..n>> \in R
    BY <2>1 DEF StrictSubsetOrdering
  <2>. QED
    BY <2>2, <1>4
<1>. QED
  BY <1>4, <1>5

\* f[n] is the sum of the first n numbers of v.
IsSum(f, v) == f = [n \in 0..Len(v) |-> IF n = 0 THEN 0 ELSE f[n - 1] + v[n]]

LEMMA SumExists ==
  ASSUME NEW v \in Seq(Nat)
  PROVE  \E f : IsSum(f, v)
<1>. DEFINE rec(f, m) == f = [n \in 0..m |-> IF n = 0 THEN 0 ELSE f[n - 1] + v[n]]
            T == {m \in 0..Len(v) : \A f : ~rec(f, m)}
<1>1. SUFFICES T = {}
  <2>1. Len(v) \in 0..Len(v)
    OBVIOUS
  <2>2. (\E f : rec(f, Len(v))) => \E f : IsSum(f, v)
    BY DEF IsSum
  <2>. HIDE DEF rec
  <2>. QED
    BY <2>1, <2>2
<1>2. SUFFICES ASSUME NEW m \in T, \A k \in T : m <= k PROVE FALSE
  <2>. HIDE DEF rec
  <2>1. T \in SUBSET Nat
    OBVIOUS
  <2>. HIDE DEF T
  <2>. QED
    BY <2>1, LeastNumber
<1>3. m # 0
  <2>1. rec([n \in 0..0 |-> 0], 0)
    OBVIOUS
  <2>. QED
    BY <2>1
<1>4. m - 1 \in 0..Len(v) /\ m \in Nat
  BY <1>3
<1>5. PICK f : rec(f, m - 1)
  <2>. HIDE DEF rec
  <2>1. ~(m <= m - 1)
    BY <1>4
  <2>. QED
    BY <1>2, <1>4, <2>1
<1>. DEFINE g == [n \in 0..m |-> IF n = m THEN f[m - 1] + v[m] ELSE f[n]]
<1>6. \A n \in 0..m : g[n] = IF n = 0 THEN 0 ELSE g[n - 1] + v[n]
  BY <1>3, <1>4, <1>5
<1>7. rec(g, m)
  BY <1>6
<1>. QED
  BY <1>7

\* A sum depends on the numbers that were added, and on no others.
LEMMA SumsAgree ==
  ASSUME NEW v \in Seq(Nat), NEW w \in Seq(Nat), NEW f, NEW g, IsSum(f, v), IsSum(g, w),
         NEW m \in 0..Len(v), m <= Len(w), \A i \in 1..m : v[i] = w[i]
  PROVE  f[m] = g[m] /\ f[m] \in Nat
<1>. DEFINE T == {k \in 0..m : ~(f[k] = g[k] /\ f[k] \in Nat)}
<1>0. Len(v) \in Nat /\ Len(w) \in Nat /\ m \in Nat /\ m \in 0..m
  OBVIOUS
<1>1. SUFFICES ASSUME NEW k \in T, \A j \in T : k <= j PROVE FALSE
  <2>1. T \in SUBSET Nat
    BY <1>0
  <2>2. m \notin T => f[m] = g[m] /\ f[m] \in Nat
    BY <1>0
  <2>. HIDE DEF T
  <2>. QED
    BY <2>1, <2>2, LeastNumber
<1>2. f[0] = 0 /\ g[0] = 0
  BY DEF IsSum
<1>3. k # 0 /\ k \in 1..m /\ k - 1 \in 0..m /\ ~(k <= k - 1)
  BY <1>2
<1>4. f[k - 1] = g[k - 1] /\ f[k - 1] \in Nat
  BY <1>1, <1>3
<1>5. /\ k \in 1..Len(v) /\ k \in 0..Len(v) /\ k \in 0..Len(w) /\ v[k] = w[k]
      /\ v[k] \in Nat
  BY <1>3
<1>6. f[k] = f[k - 1] + v[k] /\ g[k] = g[k - 1] + w[k]
  <2>1. f[k] = IF k = 0 THEN 0 ELSE f[k - 1] + v[k]
    BY <1>5 DEF IsSum
  <2>2. g[k] = IF k = 0 THEN 0 ELSE g[k - 1] + w[k]
    BY <1>5 DEF IsSum
  <2>. QED
    BY <1>3, <2>1, <2>2
<1>7. f[k] = g[k] /\ f[k] \in Nat
  BY <1>4, <1>5, <1>6, SMTT(30)
<1>. QED
  BY <1>7

LEMMA TotalIsSum ==
  ASSUME NEW v \in Seq(Nat)
  PROVE  \E f : IsSum(f, v) /\ Total(v) = f[Len(v)]
BY SumExists DEF IsSum, Total

\* What is appended is added.
LEMMA TotalAppend ==
  ASSUME NEW v \in Seq(Nat), NEW w \in Seq(Nat), Len(w) = Len(v) + 1,
         \A i \in 1..Len(v) : w[i] = v[i]
  PROVE  Total(v) \in Nat /\ Total(w) = Total(v) + w[Len(w)]
<1>1. PICK f : IsSum(f, v) /\ Total(v) = f[Len(v)]
  BY TotalIsSum
<1>2. PICK g : IsSum(g, w) /\ Total(w) = g[Len(w)]
  BY TotalIsSum
<1>3. Len(v) \in Nat /\ Len(v) \in 0..Len(v) /\ Len(v) <= Len(w) /\ Len(w) # 0
      /\ Len(w) \in 0..Len(w) /\ Len(w) - 1 = Len(v)
  OBVIOUS
<1>4. f[Len(v)] = g[Len(v)] /\ f[Len(v)] \in Nat
  BY <1>1, <1>2, <1>3, SumsAgree
<1>5. g[Len(w)] = g[Len(w) - 1] + w[Len(w)]
  BY <1>2, <1>3 DEF IsSum
<1>. QED
  BY <1>1, <1>2, <1>3, <1>4, <1>5

LEMMA TotalEmpty ==
  ASSUME NEW v \in Seq(Nat), Len(v) = 0
  PROVE  Total(v) = 0
<1>1. PICK f : IsSum(f, v) /\ Total(v) = f[Len(v)]
  BY TotalIsSum
<1>. QED
  BY <1>1 DEF IsSum

\* The sum of a list that goes on is no smaller.
LEMMA TotalGrows ==
  ASSUME NEW v \in Seq(Nat), NEW w \in Seq(Nat), Len(v) <= Len(w),
         \A i \in 1..Len(v) : w[i] = v[i]
  PROVE  Total(v) \in Nat /\ Total(w) \in Nat /\ Total(v) <= Total(w)
<1>1. PICK f : IsSum(f, v) /\ Total(v) = f[Len(v)]
  BY TotalIsSum
<1>2. PICK g : IsSum(g, w) /\ Total(w) = g[Len(w)]
  BY TotalIsSum
<1>3. Len(v) \in Nat /\ Len(v) \in 0..Len(v) /\ Len(w) \in Nat
  OBVIOUS
<1>4. f[Len(v)] = g[Len(v)] /\ f[Len(v)] \in Nat
  BY <1>1, <1>2, <1>3, SumsAgree
<1>. DEFINE T == {k \in Len(v)..Len(w) : ~(g[k] \in Nat /\ g[Len(v)] <= g[k])}
<1>5. Len(w) \notin T
  <2>1. SUFFICES ASSUME NEW k \in T, \A j \in T : k <= j PROVE FALSE
    <3>1. T \in SUBSET Nat
      BY <1>3
    <3>. HIDE DEF T
    <3>. QED
      BY <3>1, LeastNumber
  <2>2. k # Len(v)
    BY <1>4
  <2>3. k \in 0..Len(w) /\ k # 0 /\ k \in 1..Len(w) /\ k - 1 \in Len(v)..Len(w)
        /\ ~(k <= k - 1)
    BY <1>3, <2>2
  <2>4. g[k - 1] \in Nat /\ g[Len(v)] <= g[k - 1]
    BY <2>1, <2>3
  <2>5. w[k] \in Nat
    BY <2>3
  <2>6. g[k] = g[k - 1] + w[k]
    <3>1. g[k] = IF k = 0 THEN 0 ELSE g[k - 1] + w[k]
      BY <1>2, <2>3 DEF IsSum
    <3>. QED
      BY <2>3, <3>1
  <2>7. g[k] \in Nat /\ g[Len(v)] <= g[k]
    <3>1. \A a, b, c \in Nat : a <= b => b + c \in Nat /\ a <= b + c
      OBVIOUS
    <3>2. g[Len(v)] \in Nat
      BY <1>4
    <3>. QED
      BY <3>1, <3>2, <2>4, <2>5, <2>6
  <2>. QED
    BY <2>7
<1>6. Len(w) \in Len(v)..Len(w)
  BY <1>3
<1>. QED
  BY <1>1, <1>2, <1>4, <1>5, <1>6

-----------------------------------------------------------------------------
(* Lists.                                                                  *)

LEMMA Prepended ==
  ASSUME NEW S, NEW q \in Seq(S), NEW e \in S
  PROVE  /\ <<e>> \o q \in Seq(S) /\ Len(<<e>> \o q) = Len(q) + 1 /\ Len(q) \in Nat
         /\ (<<e>> \o q)[1] = e
         /\ \A i \in 1..Len(q) : (<<e>> \o q)[i + 1] = q[i]
OBVIOUS

LEMMA FirstReplaced ==
  ASSUME NEW S, NEW q \in Seq(S), q # <<>>, NEW e \in S, NEW r, r = [q EXCEPT ![1] = e]
  PROVE  /\ r \in Seq(S) /\ Len(r) = Len(q) /\ Len(q) \in Nat \ {0} /\ r[1] = e
         /\ \A i \in 2..Len(q) : r[i] = q[i]
         /\ Head(q) = q[1] /\ Head(r) = r[1]
OBVIOUS

LEMMA Appended ==
  ASSUME NEW S, NEW q \in Seq(S), NEW e \in S
  PROVE  /\ Append(q, e) \in Seq(S) /\ Len(Append(q, e)) = Len(q) + 1 /\ Len(q) \in Nat
         /\ Append(q, e)[Len(q) + 1] = e
         /\ \A i \in 1..Len(q) : Append(q, e)[i] = q[i]
OBVIOUS

-----------------------------------------------------------------------------
(* Types.                                                                  *)

TaskRow == [result : Results, anomalies : {NotYet} \cup SUBSET Flags,
            badges : {NotYet} \cup SUBSET Badges]
CountedRow == [task : Sessions \X Nat, result : Results]
HistoryRow == [task : Sessions \X Nat, time : Nat, rate : 0..1000]
StatsRow == [tasks : Nat, evidence : Nat, perfect : Nat, offline : Nat]

Stored == {"record", "count", "stats", "unlocked", "unlock"}

TablesTyped ==
  /\ stats \in [Users -> StatsRow] /\ unlocked \in [Users -> SUBSET Badges]
  /\ history \in Seq(HistoryRow) /\ counted \in [Users -> Seq(CountedRow)]

TasksTyped ==
  tasks \in [Sessions -> Seq(TaskRow)] /\ \A s \in Sessions : Len(tasks[s]) <= MaxTasks

LocalsTyped ==
  /\ pc \in [Sessions -> PCs] /\ flags \in [Sessions -> SUBSET Flags]
  /\ seen \in [Sessions -> StatsRow] /\ newIds \in [Sessions -> SUBSET Badges]

\* What is known of the task that is under way in a session.
UnderWay ==
  \A s \in Sessions :
    /\ pc[s] # "idle" => tasks[s] # <<>> /\ Current(s).badges = NotYet
    /\ pc[s] \in {"detect", "flag"} => Current(s).anomalies = NotYet
    /\ pc[s] \in Stored => Current(s).anomalies = flags[s]
    /\ pc[s] \in {"stats", "unlocked", "unlock"} => stats[UserOf[s]].tasks > 0
    /\ pc[s] \in {"unlocked", "unlock"} => seen[s].tasks > 0

TaskTyping == TablesTyped /\ TasksTyped /\ LocalsTyped /\ UnderWay

\* A share of a number of receipts is at most 1000 tenths of a percent.
LEMMA RateBound ==
  ASSUME NEW r \in Results
  PROVE  Rate(r) \in 0..1000
<1>1. r.receipts \in Nat /\ r.verified \in Nat /\ r.verified <= r.receipts
  BY ResultAssumption DEF TaskResults
<1>2. CASE r.receipts = 0
  BY <1>2 DEF Rate
<1>3. CASE r.receipts # 0
  <2>. DEFINE a == 2000 * r.verified + r.receipts
              b == 2 * r.receipts
  <2>1. a \in Nat /\ b \in Nat \ {0} /\ a < 1001 * b
    BY <1>1, <1>3
  <2>2. Rate(r) = a \div b
    BY <1>3 DEF Rate
  <2>. HIDE DEF a, b
  <2>3. a \div b \in Nat /\ b * (a \div b) <= a
    BY <2>1
  <2>4. a \div b <= 1000
    <3>1. SUFFICES ASSUME a \div b >= 1001 PROVE FALSE
      BY <2>3
    <3>2. b * 1001 <= b * (a \div b)
      BY <2>1, <2>3, <3>1
    <3>. QED
      BY <2>1, <2>3, <3>2
  <2>. QED
    BY <2>2, <2>3, <2>4
<1>. QED
  BY <1>2, <1>3

\* A step of one session leaves the locals and tasks of the others alone.
LEMMA ShownTyped ==
  ASSUME TaskTyping, NEW s \in Sessions, Show(s)
  PROVE  TaskTyping'
<1>1. PICK r \in Results :
        tasks' = [tasks EXCEPT ![s] =
                    <<[result |-> r, anomalies |-> NotYet, badges |-> NotYet]>> \o @]
  BY DEF Show
<1>. DEFINE row == [result |-> r, anomalies |-> NotYet, badges |-> NotYet]
<1>2. row \in TaskRow /\ tasks \in [Sessions -> Seq(TaskRow)]
  BY DEF TaskRow, TaskTyping, TasksTyped
<1>. HIDE DEF row
<1>3. /\ tasks'[s] = <<row>> \o tasks[s] /\ \A v \in Sessions \ {s} : tasks'[v] = tasks[v]
      /\ tasks'[s] \in Seq(TaskRow) /\ Len(tasks'[s]) = Len(tasks[s]) + 1
      /\ Len(tasks[s]) \in Nat /\ tasks'[s][1] = row
  BY <1>1, <1>2, Prepended DEF row
<1>4. TasksTyped'
  BY <1>1, <1>2, <1>3, BoundAssumption DEF TaskTyping, TasksTyped, Show
<1>5. /\ pc' = [pc EXCEPT ![s] = "detect"]
      /\ UNCHANGED <<stats, unlocked, history, flags, seen, newIds, counted>>
  BY DEF Show, Goto
<1>6. TablesTyped' /\ LocalsTyped'
  BY <1>5 DEF TaskTyping, TablesTyped, LocalsTyped, PCs
<1>7. UnderWay'
  <2>1. tasks'[s] # <<>> /\ Current(s)' = row
    BY <1>3 DEF Current
  <2>2. row.badges = NotYet /\ row.anomalies = NotYet
    BY DEF row
  <2>. QED
    BY <1>3, <1>5, <2>1, <2>2 DEF TaskTyping, LocalsTyped, UnderWay, Current, Stored
<1>. QED
  BY <1>4, <1>6, <1>7 DEF TaskTyping

\* A write to a field of the session's newest task.
LEMMA FirstSet ==
  ASSUME TasksTyped, NEW s \in Sessions, tasks[s] # <<>>, NEW row \in TaskRow,
         tasks' = [tasks EXCEPT ![s] = [tasks[s] EXCEPT ![1] = row]]
  PROVE  /\ TasksTyped' /\ \A v \in Sessions \ {s} : tasks'[v] = tasks[v]
         /\ tasks'[s] # <<>> /\ Len(tasks'[s]) = Len(tasks[s]) /\ Len(tasks[s]) \in Nat \ {0}
         /\ Current(s) = tasks[s][1] /\ tasks'[s][1] = row /\ Current(s)' = row
         /\ \A i \in 2..Len(tasks[s]) : tasks'[s][i] = tasks[s][i]
<1>1. tasks \in [Sessions -> Seq(TaskRow)] /\ tasks[s] \in Seq(TaskRow)
  BY DEF TasksTyped
<1>2. tasks'[s] = [tasks[s] EXCEPT ![1] = row] /\ \A v \in Sessions \ {s} : tasks'[v] = tasks[v]
  BY <1>1
<1>3. /\ tasks'[s] \in Seq(TaskRow) /\ Len(tasks'[s]) = Len(tasks[s])
      /\ Len(tasks[s]) \in Nat \ {0} /\ tasks'[s][1] = row
      /\ \A i \in 2..Len(tasks[s]) : tasks'[s][i] = tasks[s][i]
      /\ Head(tasks[s]) = tasks[s][1] /\ Head(tasks'[s]) = tasks'[s][1]
  BY <1>1, <1>2, FirstReplaced
<1>4. TasksTyped'
  BY <1>1, <1>2, <1>3 DEF TasksTyped
<1>5. tasks'[s] # <<>>
  BY <1>3
<1>. QED
  BY <1>2, <1>3, <1>4, <1>5 DEF Current

LEMMA CurrentTyped ==
  ASSUME TaskTyping, NEW s \in Sessions, pc[s] # "idle"
  PROVE  /\ tasks[s] # <<>> /\ Current(s) = tasks[s][1] /\ Current(s) \in TaskRow
         /\ Len(tasks[s]) \in Nat \ {0} /\ Current(s).result \in Results
         /\ Current(s) = [result |-> Current(s).result, anomalies |-> Current(s).anomalies,
                          badges |-> Current(s).badges]
<1>1. tasks[s] # <<>> /\ tasks[s] \in Seq(TaskRow)
  BY DEF TaskTyping, TasksTyped, UnderWay
<1>2. Head(tasks[s]) = tasks[s][1] /\ Head(tasks[s]) \in TaskRow /\ Len(tasks[s]) \in Nat \ {0}
  BY <1>1
<1>. QED
  BY <1>1, <1>2 DEF Current, TaskRow

\* What the comparison writes into the task.
LEMMA ComparedTasks ==
  ASSUME TaskTyping, NEW s \in Sessions,
         (ReadHistory(s) /\ Findings(Compared, Current(s).result) = {}) \/ StoreFlags(s)
  PROVE  LET row == [result |-> Current(s).result, anomalies |-> flags'[s],
                     badges |-> Current(s).badges]
         IN  /\ row \in TaskRow /\ flags' \in [Sessions -> SUBSET Flags]
             /\ tasks' = [tasks EXCEPT ![s] = [tasks[s] EXCEPT ![1] = row]]
<1>. DEFINE found == Findings(Compared, Current(s).result)
            row == [result |-> Current(s).result, anomalies |-> flags'[s],
                    badges |-> Current(s).badges]
<1>1. /\ Current(s) \in TaskRow /\ Current(s) = tasks[s][1] /\ tasks[s] # <<>>
      /\ Current(s) = [result |-> Current(s).result, anomalies |-> Current(s).anomalies,
                       badges |-> Current(s).badges]
  BY CurrentTyped DEF ReadHistory, StoreFlags
<1>2. flags' \in [Sessions -> SUBSET Flags]
  BY DEF ReadHistory, StoreFlags, TaskTyping, LocalsTyped
<1>3. row \in TaskRow
  BY <1>1, <1>2 DEF TaskRow
<1>4. tasks' = [tasks EXCEPT ![s] =
                   [tasks[s] EXCEPT ![1] = [tasks[s][1] EXCEPT !.anomalies = flags'[s]]]]
  <2>1. CASE ReadHistory(s) /\ found = {}
    <3>1. /\ flags' = [flags EXCEPT ![s] = {}]
          /\ tasks' = [tasks EXCEPT ![s][1].anomalies = {}]
      BY <2>1 DEF ReadHistory
    <3>. QED
      BY <3>1 DEF TaskTyping, LocalsTyped
  <2>2. CASE StoreFlags(s)
    BY <2>2 DEF StoreFlags
  <2>. QED
    BY <2>1, <2>2
<1>5. [tasks[s][1] EXCEPT !.anomalies = flags'[s]] = row
  BY <1>1
<1>6. tasks \in [Sessions -> Seq(TaskRow)] /\ 1 \in DOMAIN tasks[s]
  BY <1>1 DEF TaskTyping, TasksTyped
<1>. HIDE DEF row
<1>7. tasks' = [tasks EXCEPT ![s] = [tasks[s] EXCEPT ![1] = row]]
  BY <1>4, <1>5, <1>6
<1>. QED
  BY <1>2, <1>3, <1>7 DEF row

LEMMA ComparedTyped ==
  ASSUME TaskTyping, NEW s \in Sessions, ReadHistory(s) \/ StoreFlags(s)
  PROVE  TaskTyping'
<1>. DEFINE row == [result |-> Current(s).result, anomalies |-> flags'[s],
                    badges |-> Current(s).badges]
<1>1. UNCHANGED <<stats, unlocked, history, seen, newIds, counted>>
  BY DEF ReadHistory, StoreFlags
<1>2. flags' \in [Sessions -> SUBSET Flags]
  BY DEF ReadHistory, StoreFlags, Findings, TaskTyping, LocalsTyped
<1>3. TablesTyped' /\ LocalsTyped'
  BY <1>1, <1>2
  DEF ReadHistory, StoreFlags, Goto, TaskTyping, TablesTyped, LocalsTyped, PCs
<1>4. /\ pc[s] \in {"detect", "flag"} /\ tasks[s] # <<>> /\ Current(s).badges = NotYet
      /\ Current(s).anomalies = NotYet
      /\ \A v \in Sessions \ {s} : pc'[v] = pc[v] /\ flags'[v] = flags[v]
  BY DEF ReadHistory, StoreFlags, Goto, TaskTyping, UnderWay, LocalsTyped
<1>5. CASE ReadHistory(s) /\ Findings(Compared, Current(s).result) # {}
  <2>1. UNCHANGED tasks /\ pc' = [pc EXCEPT ![s] = "flag"]
    BY <1>5 DEF ReadHistory, Goto
  <2>2. TasksTyped'
    BY <2>1 DEF TaskTyping, TasksTyped
  <2>3. UnderWay'
    BY <1>1, <1>4, <2>1 DEF TaskTyping, LocalsTyped, UnderWay, Current, Stored
  <2>. QED
    BY <1>3, <2>2, <2>3 DEF TaskTyping
<1>6. CASE (ReadHistory(s) /\ Findings(Compared, Current(s).result) = {}) \/ StoreFlags(s)
  <2>1. pc' = [pc EXCEPT ![s] = "record"]
    BY <1>6 DEF ReadHistory, StoreFlags, Goto
  <2>2. row \in TaskRow /\ tasks' = [tasks EXCEPT ![s] = [tasks[s] EXCEPT ![1] = row]]
    BY <1>6, ComparedTasks
  <2>3. row.anomalies = flags'[s] /\ row.badges = NotYet
    BY <1>4
  <2>. HIDE DEF row
  <2>4. /\ TasksTyped' /\ \A v \in Sessions \ {s} : tasks'[v] = tasks[v]
        /\ tasks'[s] # <<>> /\ Current(s)' = row
    BY <1>4, <2>2, FirstSet DEF TaskTyping
  <2>5. UnderWay'
    <3>1. \A v \in Sessions \ {s} : Current(v)' = Current(v)
      BY <2>4 DEF Current
    <3>. QED
      BY <1>1, <1>4, <2>1, <2>3, <2>4, <3>1 DEF TaskTyping, LocalsTyped, UnderWay, Stored
  <2>. QED
    BY <1>3, <2>4, <2>5 DEF TaskTyping
<1>. QED
  BY <1>5, <1>6

LEMMA RecordTyped ==
  ASSUME TaskTyping, NEW s \in Sessions, Record(s)
  PROVE  TaskTyping'
<1>. DEFINE r == Current(s).result
            row == [task |-> Task(s), time |-> r.time, rate |-> Rate(r)]
<1>1. /\ pc[s] = "record" /\ pc' = [pc EXCEPT ![s] = "count"]
      /\ history' = Append(history, row)
      /\ UNCHANGED <<stats, unlocked, tasks, flags, seen, newIds, counted>>
  BY DEF Record, Goto
<1>2. row \in HistoryRow
  <2>1. r \in Results /\ Len(tasks[s]) \in Nat
    BY <1>1, CurrentTyped
  <2>2. r.time \in Nat
    BY <2>1, ResultAssumption DEF TaskResults
  <2>. QED
    BY <2>1, <2>2, RateBound, ZenonT(30) DEF HistoryRow, Task
<1>. HIDE DEF row
<1>3. TablesTyped'
  BY <1>1, <1>2 DEF TaskTyping, TablesTyped
<1>4. TasksTyped' /\ LocalsTyped'
  BY <1>1 DEF TaskTyping, TasksTyped, LocalsTyped, PCs
<1>5. UnderWay'
  BY <1>1 DEF TaskTyping, LocalsTyped, UnderWay, Current, Stored
<1>. QED
  BY <1>3, <1>4, <1>5 DEF TaskTyping

LEMMA AddedTyped ==
  ASSUME NEW st \in StatsRow, NEW r \in Results
  PROVE  Added(st, r) \in StatsRow /\ Added(st, r).tasks = st.tasks + 1
<1>1. r.receipts \in Nat /\ r.complete \in BOOLEAN /\ r.offline \in BOOLEAN
  BY ResultAssumption DEF TaskResults
<1>2. \A b \in BOOLEAN : One(b) \in Nat
  BY DEF One
<1>. QED
  BY <1>1, <1>2 DEF Added, StatsRow

LEMMA CountTyped ==
  ASSUME TaskTyping, NEW s \in Sessions, UpdateStats(s)
  PROVE  TaskTyping'
<1>. DEFINE u == UserOf[s]
            r == Current(s).result
            row == [task |-> Task(s), result |-> r]
<1>1. /\ pc[s] = "count" /\ pc' = [pc EXCEPT ![s] = "stats"]
      /\ stats' = [stats EXCEPT ![u] = Added(stats[u], r)]
      /\ counted' = [counted EXCEPT ![u] = Append(counted[u], row)]
      /\ UNCHANGED <<unlocked, history, tasks, flags, seen, newIds>>
  BY DEF UpdateStats, Goto
<1>2. u \in Users /\ stats[u] \in StatsRow /\ r \in Results /\ Len(tasks[s]) \in Nat
  BY <1>1, CurrentTyped, UserAssumption DEF TaskTyping, TablesTyped
<1>3. row \in CountedRow
  BY <1>2 DEF CountedRow, Task
<1>4. Added(stats[u], r) \in StatsRow /\ Added(stats[u], r).tasks = stats[u].tasks + 1
  BY <1>2, AddedTyped
<1>. HIDE DEF row, r, u
<1>5. counted[u] \in Seq(CountedRow) /\ Append(counted[u], row) \in Seq(CountedRow)
  BY <1>2, <1>3 DEF TaskTyping, TablesTyped
<1>6. TablesTyped'
  BY <1>1, <1>2, <1>4, <1>5 DEF TaskTyping, TablesTyped
<1>7. TasksTyped' /\ LocalsTyped'
  BY <1>1 DEF TaskTyping, TasksTyped, LocalsTyped, PCs
<1>8. \A v \in Users : stats'[v].tasks >= stats[v].tasks /\ stats'[u].tasks > 0
  BY <1>1, <1>2, <1>4, SMTT(30) DEF TaskTyping, TablesTyped, StatsRow
<1>9. UnderWay'
  <2>1. \A v \in Sessions : UserOf[v] \in Users /\ stats[UserOf[v]].tasks \in Nat
                              /\ stats'[UserOf[v]].tasks \in Nat
    BY <1>6, UserAssumption DEF TaskTyping, TablesTyped, StatsRow
  <2>2. \A v \in Sessions :
          stats[UserOf[v]].tasks > 0 \/ v = s => stats'[UserOf[v]].tasks > 0
    BY <2>1, <1>8 DEF u
  <2>. QED
    BY <1>1, <2>2 DEF TaskTyping, LocalsTyped, UnderWay, Current, Stored
<1>. QED
  BY <1>6, <1>7, <1>9 DEF TaskTyping

LEMMA ReadsTyped ==
  ASSUME TaskTyping, NEW s \in Sessions, ReadStats(s) \/ ReadUnlocked(s)
  PROVE  TaskTyping'
<1>1. UNCHANGED <<stats, unlocked, history, tasks, flags, counted>>
  BY DEF ReadStats, ReadUnlocked
<1>2. TablesTyped' /\ TasksTyped'
  BY <1>1 DEF TaskTyping, TablesTyped, TasksTyped
<1>3. stats[UserOf[s]] \in StatsRow
  BY UserAssumption DEF TaskTyping, TablesTyped
<1>4. LocalsTyped'
  BY <1>1, <1>3
  DEF ReadStats, ReadUnlocked, Goto, Eligible, TaskTyping, LocalsTyped, PCs
<1>5. UnderWay'
  BY <1>1 DEF ReadStats, ReadUnlocked, Goto, TaskTyping, LocalsTyped, UnderWay, Current, Stored
<1>. QED
  BY <1>2, <1>4, <1>5 DEF TaskTyping

\* What Unlock writes into the task.
LEMMA UnlockedTasks ==
  ASSUME TaskTyping, NEW s \in Sessions, Unlock(s)
  PROVE  LET row == [result |-> Current(s).result, anomalies |-> Current(s).anomalies,
                     badges |-> newIds[s]]
         IN  /\ row \in TaskRow /\ tasks[s] # <<>>
             /\ tasks' = [tasks EXCEPT ![s] = [tasks[s] EXCEPT ![1] = row]]
<1>. DEFINE row == [result |-> Current(s).result, anomalies |-> Current(s).anomalies,
                    badges |-> newIds[s]]
<1>1. /\ Current(s) \in TaskRow /\ Current(s) = tasks[s][1] /\ tasks[s] # <<>>
      /\ Current(s) = [result |-> Current(s).result, anomalies |-> Current(s).anomalies,
                       badges |-> Current(s).badges]
  BY CurrentTyped DEF Unlock
<1>2. row \in TaskRow
  BY <1>1 DEF TaskRow, TaskTyping, LocalsTyped
<1>3. tasks' = [tasks EXCEPT ![s] =
                   [tasks[s] EXCEPT ![1] = [tasks[s][1] EXCEPT !.badges = newIds[s]]]]
  BY DEF Unlock
<1>4. [tasks[s][1] EXCEPT !.badges = newIds[s]] = row
  BY <1>1
<1>. QED
  BY <1>1, <1>2, <1>3, <1>4

LEMMA LeaveTyped ==
  ASSUME TaskTyping, TasksTyped', NEW s \in Sessions, Leave(s),
         UNCHANGED <<stats, history, counted>>, unlocked' \in [Users -> SUBSET Badges],
         \A v \in Sessions \ {s} : tasks'[v] = tasks[v]
  PROVE  TaskTyping'
<1>1. /\ pc' = [pc EXCEPT ![s] = "idle"] /\ flags' = [flags EXCEPT ![s] = {}]
      /\ seen' = [seen EXCEPT ![s] = NoUserStats] /\ newIds' = [newIds EXCEPT ![s] = {}]
  BY DEF Leave, Goto
<1>2. NoUserStats \in StatsRow
  BY DEF NoUserStats, StatsRow
<1>3. TablesTyped' /\ LocalsTyped'
  BY <1>1, <1>2 DEF TaskTyping, TablesTyped, LocalsTyped, PCs
<1>4. UnderWay'
  BY <1>1 DEF TaskTyping, LocalsTyped, UnderWay, Current, Stored
<1>. QED
  BY <1>3, <1>4 DEF TaskTyping

LEMMA LeavesTyped ==
  ASSUME TaskTyping, NEW s \in Sessions, Unlock(s) \/ UnlockConflicts(s) \/ AccessRaises(s)
  PROVE  TaskTyping'
<1>1. CASE Unlock(s)
  <2>1. /\ tasks[s] # <<>>
        /\ \E row \in TaskRow : tasks' = [tasks EXCEPT ![s] = [tasks[s] EXCEPT ![1] = row]]
    BY <1>1, UnlockedTasks
  <2>2. TasksTyped' /\ \A v \in Sessions \ {s} : tasks'[v] = tasks[v]
    BY <2>1, FirstSet DEF TaskTyping
  <2>3. unlocked' \in [Users -> SUBSET Badges]
    BY <1>1, UserAssumption DEF Unlock, TaskTyping, TablesTyped, LocalsTyped
  <2>. QED
    BY <1>1, <2>2, <2>3, LeaveTyped DEF Unlock
<1>2. CASE UnlockConflicts(s) \/ AccessRaises(s)
  BY <1>2, LeaveTyped DEF UnlockConflicts, AccessRaises, TaskTyping, TasksTyped, TablesTyped
<1>. QED
  BY <1>1, <1>2

LEMMA TypingIsInductive == TaskTyping /\ [Next]_vars => TaskTyping'
<1>. SUFFICES ASSUME TaskTyping, [Next]_vars PROVE TaskTyping'
  OBVIOUS
<1>1. CASE UNCHANGED vars
  BY <1>1 DEF vars, TaskTyping, TablesTyped, TasksTyped, LocalsTyped, UnderWay, Current
<1>2. CASE Quiescent
  BY <1>1, <1>2 DEF Quiescent
<1>. QED
  BY <1>1, <1>2, ShownTyped, ComparedTyped, RecordTyped, CountTyped, ReadsTyped, LeavesTyped
  DEF Next

LEMMA InitialTyping == Init => TaskTyping
<1>1. NoUserStats \in StatsRow
  BY DEF NoUserStats, StatsRow
<1>. QED
  BY <1>1, BoundAssumption
  DEF Init, TaskTyping, TablesTyped, TasksTyped, LocalsTyped, UnderWay, PCs, Stored

\* Whatever the interleaving and whatever raised, a session past the comparison
\* has shown what it found, and one that asks for badges has a row in the
\* statistics; a rate is at most 100.0 percent (streamlit_app.py:102-136).
THEOREM TasksAreTyped == Spec => []TypeOK
<1>1. TaskTyping => TypeOK
  <2>. SUFFICES ASSUME TaskTyping PROVE TypeOK
    OBVIOUS
  <2>1. \A i \in DOMAIN history : history[i].rate \in 0..1000
    <3>1. history \in Seq(HistoryRow)
      BY DEF TaskTyping, TablesTyped
    <3>2. \A i \in DOMAIN history : history[i] \in HistoryRow
      BY <3>1
    <3>. QED
      BY <3>2 DEF HistoryRow
  <2>2. \A s \in Sessions :
          /\ pc[s] # "idle" => tasks[s] # <<>>
          /\ pc[s] \in PCs \ {"idle", "detect", "flag"} => Current(s).anomalies = flags[s]
          /\ pc[s] \in {"unlocked", "unlock"} => seen[s].tasks > 0
    BY DEF TaskTyping, UnderWay, Stored, PCs
  <2>. QED
    BY <2>1, <2>2 DEF TaskTyping, TablesTyped, LocalsTyped, StatsRow, TypeOK
<1>. QED
  BY <1>1, InitialTyping, TypingIsInductive, PTL DEF Spec

-----------------------------------------------------------------------------
(* Announcements.  The list of a session grows at its head, so that a task *)
(* is best named by its number, which stays.                               *)

RowOf(s, n) == tasks[s][Len(tasks[s]) - n + 1]

Announces(s, n, b) == RowOf(s, n).badges # NotYet /\ b \in RowOf(s, n).badges

LEMMA RowsShown ==
  ASSUME TaskTyping, NEW s \in Sessions, Show(s)
  PROVE  /\ \A v \in Sessions \ {s} : tasks'[v] = tasks[v]
         /\ Len(tasks'[s]) = Len(tasks[s]) + 1 /\ Len(tasks[s]) \in Nat
         /\ \A v \in Sessions : \A n \in 1..Len(tasks[v]) : RowOf(v, n)' = RowOf(v, n)
         /\ \E r \in Results : RowOf(s, Len(tasks[s]))' =
                                 [result |-> r, anomalies |-> NotYet, badges |-> NotYet]
<1>1. PICK r \in Results :
        tasks' = [tasks EXCEPT ![s] =
                    <<[result |-> r, anomalies |-> NotYet, badges |-> NotYet]>> \o @]
  BY DEF Show
<1>. DEFINE row == [result |-> r, anomalies |-> NotYet, badges |-> NotYet]
<1>2. row \in TaskRow /\ tasks \in [Sessions -> Seq(TaskRow)]
  BY DEF TaskRow, TaskTyping, TasksTyped
<1>3. tasks' = [tasks EXCEPT ![s] = <<row>> \o @]
  BY <1>1
<1>. HIDE DEF row
<1>5. /\ tasks'[s] = <<row>> \o tasks[s] /\ \A v \in Sessions \ {s} : tasks'[v] = tasks[v]
      /\ Len(tasks'[s]) = Len(tasks[s]) + 1 /\ Len(tasks[s]) \in Nat /\ tasks'[s][1] = row
      /\ \A i \in 1..Len(tasks[s]) : tasks'[s][i + 1] = tasks[s][i]
  BY <1>2, <1>3, Prepended
<1>6. ASSUME NEW v \in Sessions, NEW n \in 1..Len(tasks[v])
      PROVE  tasks'[v][Len(tasks'[v]) - n + 1] = tasks[v][Len(tasks[v]) - n + 1]
  <2>1. CASE v = s
    <3>1. Len(tasks[s]) - n + 1 \in 1..Len(tasks[s])
      BY <1>5, <1>6, <2>1
    <3>2. Len(tasks'[s]) - n + 1 = (Len(tasks[s]) - n + 1) + 1
      BY <1>5, <1>6, <2>1
    <3>. QED
      BY <1>5, <2>1, <3>1, <3>2
  <2>2. CASE v # s
    BY <1>5, <2>2
  <2>. QED
    BY <2>1, <2>2
<1>7. tasks'[s][Len(tasks'[s]) - Len(tasks'[s]) + 1] = row
  <2>1. Len(tasks'[s]) - Len(tasks'[s]) + 1 = 1
    BY <1>5
  <2>. QED
    BY <1>5, <2>1
<1>8. \E q \in Results : tasks'[s][Len(tasks'[s]) - Len(tasks'[s]) + 1]
                           = [result |-> q, anomalies |-> NotYet, badges |-> NotYet]
  BY <1>7 DEF row
<1>. QED
  BY <1>5, <1>6, <1>8 DEF RowOf

LEMMA RowsSet ==
  ASSUME TasksTyped, NEW s \in Sessions, tasks[s] # <<>>, NEW row \in TaskRow,
         tasks' = [tasks EXCEPT ![s] = [tasks[s] EXCEPT ![1] = row]]
  PROVE  /\ \A v \in Sessions : Len(tasks'[v]) = Len(tasks[v]) /\ Len(tasks[v]) \in Nat
         /\ RowOf(s, Len(tasks[s])) = Current(s) /\ RowOf(s, Len(tasks[s]))' = row
         /\ Len(tasks[s]) \in 1..Len(tasks[s])
         /\ \A v \in Sessions : \A n \in 1..Len(tasks[v]) :
              v # s \/ n # Len(tasks[s]) => RowOf(v, n)' = RowOf(v, n)
<1>1. /\ \A v \in Sessions \ {s} : tasks'[v] = tasks[v]
      /\ Len(tasks'[s]) = Len(tasks[s]) /\ Len(tasks[s]) \in Nat \ {0}
      /\ Current(s) = tasks[s][1] /\ tasks'[s][1] = row
      /\ \A i \in 2..Len(tasks[s]) : tasks'[s][i] = tasks[s][i]
  BY FirstSet
<1>2. \A v \in Sessions : Len(tasks'[v]) = Len(tasks[v]) /\ Len(tasks[v]) \in Nat
  BY <1>1 DEF TasksTyped
<1>3. Len(tasks[s]) - Len(tasks[s]) + 1 = 1
  BY <1>1
<1>4. ASSUME NEW v \in Sessions, NEW n \in 1..Len(tasks[v]), v # s \/ n # Len(tasks[s])
      PROVE  tasks'[v][Len(tasks'[v]) - n + 1] = tasks[v][Len(tasks[v]) - n + 1]
  <2>1. CASE v = s
    <3>1. Len(tasks[s]) - n + 1 \in 2..Len(tasks[s])
      BY <1>1, <1>4, <2>1
    <3>. QED
      BY <1>1, <2>1, <3>1
  <2>2. CASE v # s
    BY <1>1, <2>2
  <2>. QED
    BY <2>1, <2>2
<1>. QED
  BY <1>1, <1>2, <1>3, <1>4 DEF RowOf

LEMMA NewestRow ==
  ASSUME TaskTyping, NEW s \in Sessions, pc[s] # "idle"
  PROVE  Current(s) = RowOf(s, Len(tasks[s])) /\ Len(tasks[s]) \in 1..Len(tasks[s])
<1>1. Current(s) = tasks[s][1] /\ Len(tasks[s]) \in Nat \ {0}
  BY CurrentTyped
<1>2. Len(tasks[s]) - Len(tasks[s]) + 1 = 1
  BY <1>1
<1>. QED
  BY <1>1, <1>2 DEF RowOf

\* All steps but Unlock: what was announced stays, and nothing is added to it.
LEMMA QuietBadges ==
  ASSUME TaskTyping, NEW s \in Sessions,
         \/ Show(s) \/ ReadHistory(s) \/ StoreFlags(s) \/ Record(s) \/ UpdateStats(s)
         \/ ReadStats(s) \/ ReadUnlocked(s) \/ UnlockConflicts(s) \/ AccessRaises(s)
  PROVE  /\ unlocked' = unlocked
         /\ \A v \in Sessions : \A n \in 1..Len(tasks[v]) :
              n \in 1..Len(tasks'[v]) /\ RowOf(v, n)'.badges = RowOf(v, n).badges
         /\ \A v \in Sessions : \A n \in 1..Len(tasks'[v]) :
              n \in 1..Len(tasks[v]) \/ RowOf(v, n)'.badges = NotYet
<1>1. unlocked' = unlocked
  BY DEF Show, ReadHistory, StoreFlags, Record, UpdateStats, ReadStats, ReadUnlocked,
         UnlockConflicts, AccessRaises
<1>2. CASE Show(s)
  <2>. DEFINE newest == RowOf(s, Len(tasks[s]))
  <2>1. /\ \A v \in Sessions \ {s} : tasks'[v] = tasks[v]
        /\ Len(tasks'[s]) = Len(tasks[s]) + 1 /\ Len(tasks[s]) \in Nat
        /\ \A v \in Sessions : \A n \in 1..Len(tasks[v]) : RowOf(v, n)' = RowOf(v, n)
        /\ newest'.badges = NotYet
    <3>1. PICK r \in Results :
            newest' = [result |-> r, anomalies |-> NotYet, badges |-> NotYet]
      BY <1>2, RowsShown
    <3>2. newest'.badges = NotYet
      BY <3>1
    <3>. HIDE DEF newest
    <3>. QED
      BY <1>2, <3>2, RowsShown
  <2>2. ASSUME NEW v \in Sessions, NEW n \in 1..Len(tasks'[v]), n \notin 1..Len(tasks[v])
        PROVE  v = s /\ n = Len(tasks'[s])
    BY <2>1, <2>2
  <2>3. \A v \in Sessions : \A n \in 1..Len(tasks[v]) : n \in 1..Len(tasks'[v])
    BY <2>1
  <2>. QED
    BY <1>1, <2>1, <2>2, <2>3
<1>3. CASE (ReadHistory(s) /\ Findings(Compared, Current(s).result) = {}) \/ StoreFlags(s)
  <2>. DEFINE row == [result |-> Current(s).result, anomalies |-> flags'[s],
                      badges |-> Current(s).badges]
  <2>1. /\ row \in TaskRow /\ tasks' = [tasks EXCEPT ![s] = [tasks[s] EXCEPT ![1] = row]]
    BY <1>3, ComparedTasks
  <2>2. tasks[s] # <<>> /\ TasksTyped
    BY <1>3, CurrentTyped DEF ReadHistory, StoreFlags, TaskTyping
  <2>3. row.badges = Current(s).badges
    OBVIOUS
  <2>. HIDE DEF row
  <2>4. /\ \A v \in Sessions : Len(tasks'[v]) = Len(tasks[v])
        /\ RowOf(s, Len(tasks[s])) = Current(s) /\ RowOf(s, Len(tasks[s]))' = row
        /\ \A v \in Sessions : \A n \in 1..Len(tasks[v]) :
             v # s \/ n # Len(tasks[s]) => RowOf(v, n)' = RowOf(v, n)
    BY <2>1, <2>2, RowsSet
  <2>. QED
    BY <1>1, <2>3, <2>4
<1>4. CASE UNCHANGED tasks
  BY <1>1, <1>4 DEF RowOf
<1>5. \/ UNCHANGED tasks \/ Show(s) \/ StoreFlags(s)
      \/ ReadHistory(s) /\ Findings(Compared, Current(s).result) = {}
  BY DEF ReadHistory, Record, UpdateStats, ReadStats, ReadUnlocked, UnlockConflicts, AccessRaises
<1>. QED
  BY <1>2, <1>3, <1>4, <1>5

\* A badge that is unlocked was announced by one task of its user, and a badge
\* that was announced is unlocked.
AnnounceInv ==
  /\ \A s \in Sessions : \A n \in 1..Len(tasks[s]) : \A b \in Badges :
       Announces(s, n, b) => b \in unlocked[UserOf[s]]
  /\ \A s, t \in Sessions : \A n \in 1..Len(tasks[s]), m \in 1..Len(tasks[t]) :
       \A b \in Badges :
         UserOf[s] = UserOf[t] /\ Announces(s, n, b) /\ Announces(t, m, b) => s = t /\ n = m
  /\ \A u \in Users : \A b \in unlocked[u] :
       \E s \in Sessions : \E n \in 1..Len(tasks[s]) : UserOf[s] = u /\ Announces(s, n, b)

LEMMA UnlockAnnounces ==
  ASSUME TaskTyping, AnnounceInv, NEW s \in Sessions, Unlock(s)
  PROVE  AnnounceInv'
<1>. DEFINE u == UserOf[s]
            new == newIds[s]
            last == Len(tasks[s])
            row == [result |-> Current(s).result, anomalies |-> Current(s).anomalies,
                    badges |-> newIds[s]]
<1>1. /\ row \in TaskRow /\ tasks[s] # <<>>
      /\ tasks' = [tasks EXCEPT ![s] = [tasks[s] EXCEPT ![1] = row]]
  BY UnlockedTasks
<1>2. row.badges = new /\ new # NotYet /\ new \in SUBSET Badges /\ u \in Users
  <2>1. new \in SUBSET Badges /\ u \in Users
    BY UserAssumption DEF TaskTyping, LocalsTyped
  <2>2. new # NotYet
    BY <2>1, NotYetAssumption
  <2>. QED
    BY <2>1, <2>2
<1>3. Current(s).badges = NotYet
  BY DEF Unlock, TaskTyping, UnderWay
<1>4. new \cap unlocked[u] = {} /\ unlocked' = [unlocked EXCEPT ![u] = unlocked[u] \cup new]
  BY DEF Unlock
<1>5. unlocked \in [Users -> SUBSET Badges]
  BY DEF TaskTyping, TablesTyped
<1>. HIDE DEF row, new
<1>6. /\ \A v \in Sessions : Len(tasks'[v]) = Len(tasks[v]) /\ Len(tasks[v]) \in Nat
      /\ RowOf(s, Len(tasks[s])) = Current(s) /\ RowOf(s, Len(tasks[s]))' = row
      /\ Len(tasks[s]) \in 1..Len(tasks[s])
      /\ \A v \in Sessions : \A n \in 1..Len(tasks[v]) :
           v # s \/ n # Len(tasks[s]) => RowOf(v, n)' = RowOf(v, n)
  BY <1>1, RowsSet DEF TaskTyping
<1>7. \A n : n = last => RowOf(s, n)' = row
  BY <1>6
<1>8. \A v \in Sessions : \A n \in 1..Len(tasks[v]) : \A b \in Badges :
        Announces(v, n, b)' <=> Announces(v, n, b) \/ (v = s /\ n = last /\ b \in new)
  <2>1. ASSUME NEW n, n = last PROVE RowOf(s, n).badges = NotYet /\ RowOf(s, n)'.badges = new
    <3>1. RowOf(s, n) = Current(s) /\ RowOf(s, n)' = row
      BY <2>1, <1>6, <1>7
    <3>. QED
      BY <3>1, <1>2, <1>3
  <2>2. ASSUME NEW v \in Sessions, NEW n \in 1..Len(tasks[v]), NEW b \in Badges
        PROVE  Announces(v, n, b)' <=> Announces(v, n, b) \/ (v = s /\ n = last /\ b \in new)
    <3>1. CASE v = s /\ n = last
      BY <2>1, <3>1, <1>2 DEF Announces
    <3>2. CASE ~(v = s /\ n = last)
      <4>1. RowOf(v, n)' = RowOf(v, n)
        BY <3>2, <1>6
      <4>. QED
        BY <3>2, <4>1 DEF Announces
    <3>. QED
      BY <3>1, <3>2
  <2>. QED
    BY <2>2
<1>9. \A v \in Users : \A b \in Badges :
        b \in unlocked'[v] <=> b \in unlocked[v] \/ (v = u /\ b \in new)
  BY <1>2, <1>4, <1>5
<1>10. \A v \in Sessions : UserOf[v] \in Users
  BY UserAssumption
<1>. HIDE DEF last
<1>11. last \in 1..Len(tasks[s]) /\ \A v \in Sessions : 1..Len(tasks'[v]) = 1..Len(tasks[v])
  BY <1>6 DEF last
<1>12. \A v \in Sessions : \A n \in 1..Len(tasks'[v]) : \A b \in Badges :
         Announces(v, n, b)' => b \in unlocked'[UserOf[v]]
  BY <1>8, <1>9, <1>10, <1>11 DEF AnnounceInv
<1>13. ASSUME NEW v \in Sessions, NEW t \in Sessions, NEW n \in 1..Len(tasks'[v]),
              NEW m \in 1..Len(tasks'[t]), NEW b \in Badges,
              UserOf[v] = UserOf[t], Announces(v, n, b)', Announces(t, m, b)'
       PROVE  v = t /\ n = m
  <2>1. n \in 1..Len(tasks[v]) /\ m \in 1..Len(tasks[t])
    BY <1>11
  <2>2. CASE b \in new /\ UserOf[v] = u
    <3>1. b \notin unlocked[UserOf[v]] /\ b \notin unlocked[UserOf[t]]
      BY <1>4, <1>13, <2>2
    <3>2. ~Announces(v, n, b) /\ ~Announces(t, m, b)
      BY <2>1, <3>1 DEF AnnounceInv
    <3>. QED
      BY <1>8, <1>13, <2>1, <3>2
  <2>3. CASE ~(b \in new /\ UserOf[v] = u)
    <3>1. Announces(v, n, b) /\ Announces(t, m, b)
      BY <1>8, <1>13, <2>1, <2>3
    <3>. QED
      BY <1>13, <2>1, <3>1 DEF AnnounceInv
  <2>. QED
    BY <2>2, <2>3
<1>14. ASSUME NEW v \in Users, NEW b \in unlocked'[v]
       PROVE  \E t \in Sessions : \E n \in 1..Len(tasks'[t]) :
                UserOf[t] = v /\ Announces(t, n, b)'
  <2>1. b \in Badges
    BY <1>2, <1>4, <1>5
  <2>2. CASE b \in unlocked[v]
    <3>1. PICK t \in Sessions : \E n \in 1..Len(tasks[t]) : UserOf[t] = v /\ Announces(t, n, b)
      BY <2>2 DEF AnnounceInv
    <3>2. PICK n \in 1..Len(tasks[t]) : UserOf[t] = v /\ Announces(t, n, b)
      BY <3>1
    <3>. QED
      BY <1>8, <1>11, <2>1, <3>2
  <2>3. CASE b \notin unlocked[v]
    BY <1>8, <1>9, <1>11, <2>1, <2>3
  <2>. QED
    BY <2>2, <2>3
<1>. QED
  BY <1>12, <1>13, <1>14 DEF AnnounceInv

LEMMA QuietAnnounces ==
  ASSUME TaskTyping, AnnounceInv, NEW s \in Sessions,
         \/ Show(s) \/ ReadHistory(s) \/ StoreFlags(s) \/ Record(s) \/ UpdateStats(s)
         \/ ReadStats(s) \/ ReadUnlocked(s) \/ UnlockConflicts(s) \/ AccessRaises(s)
  PROVE  AnnounceInv'
<1>1. unlocked' = unlocked
  BY QuietBadges
<1>2. \A v \in Sessions : \A n \in 1..Len(tasks[v]) :
        n \in 1..Len(tasks'[v]) /\ \A b \in Badges : Announces(v, n, b)' <=> Announces(v, n, b)
  BY QuietBadges DEF Announces
<1>3. \A v \in Sessions : \A n \in 1..Len(tasks'[v]) :
        n \in 1..Len(tasks[v]) \/ \A b \in Badges : ~Announces(v, n, b)'
  BY QuietBadges DEF Announces
<1>4. \A u \in Users : unlocked[u] \subseteq Badges
  BY DEF TaskTyping, TablesTyped
<1>. QED
  BY <1>1, <1>2, <1>3, <1>4 DEF AnnounceInv

\* The property, from the invariant: the list is counted from its head.
LEMMA AnnouncedByOne ==
  ASSUME TaskTyping, AnnounceInv
  PROVE  AnnouncedOnce
<1>1. SUFFICES
        ASSUME NEW u \in Users, NEW b \in Badges
        PROVE  Cardinality({t \in Sessions \X (1..MaxTasks) :
                              /\ UserOf[t[1]] = u /\ t[2] \in DOMAIN tasks[t[1]]
                              /\ tasks[t[1]][t[2]].badges # NotYet
                              /\ b \in tasks[t[1]][t[2]].badges}) = One(b \in unlocked[u])
  BY DEF AnnouncedOnce
<1>. DEFINE by == {t \in Sessions \X (1..MaxTasks) :
                     /\ UserOf[t[1]] = u /\ t[2] \in DOMAIN tasks[t[1]]
                     /\ tasks[t[1]][t[2]].badges # NotYet
                     /\ b \in tasks[t[1]][t[2]].badges}
            number(s, i) == Len(tasks[s]) - i + 1
<1>2. \A s \in Sessions : /\ DOMAIN tasks[s] = 1..Len(tasks[s]) /\ Len(tasks[s]) \in Nat
                          /\ 1..Len(tasks[s]) \subseteq 1..MaxTasks
  BY BoundAssumption DEF TaskTyping, TasksTyped
<1>3. \A s \in Sessions : \A i \in 1..Len(tasks[s]) :
        /\ number(s, i) \in 1..Len(tasks[s]) /\ number(s, number(s, i)) = i
        /\ RowOf(s, number(s, i)) = tasks[s][i]
  <2>1. ASSUME NEW s \in Sessions, NEW i \in 1..Len(tasks[s])
        PROVE  number(s, i) \in 1..Len(tasks[s]) /\ number(s, number(s, i)) = i
    BY <1>2
  <2>. QED
    BY <2>1 DEF RowOf
<1>4. \A t \in by : /\ t[1] \in Sessions /\ t[2] \in 1..Len(tasks[t[1]]) /\ t = <<t[1], t[2]>>
                    /\ UserOf[t[1]] = u /\ Announces(t[1], number(t[1], t[2]), b)
  <2>1. SUFFICES ASSUME NEW t \in by
                 PROVE  /\ t[1] \in Sessions /\ t[2] \in 1..Len(tasks[t[1]])
                        /\ t = <<t[1], t[2]>> /\ UserOf[t[1]] = u
                        /\ Announces(t[1], number(t[1], t[2]), b)
    OBVIOUS
  <2>2. t \in Sessions \X (1..MaxTasks)
    OBVIOUS
  <2>3. /\ UserOf[t[1]] = u /\ t[2] \in DOMAIN tasks[t[1]]
        /\ tasks[t[1]][t[2]].badges # NotYet /\ b \in tasks[t[1]][t[2]].badges
    OBVIOUS
  <2>4. t[1] \in Sessions /\ t = <<t[1], t[2]>>
    BY <2>2
  <2>5. t[2] \in 1..Len(tasks[t[1]])
    BY <1>2, <2>3, <2>4
  <2>6. RowOf(t[1], number(t[1], t[2])) = tasks[t[1]][t[2]]
    BY <1>3, <2>4, <2>5
  <2>. HIDE DEF number
  <2>. QED
    BY <2>3, <2>4, <2>5, <2>6 DEF Announces
<1>. HIDE DEF number
<1>5. CASE b \in unlocked[u]
  <2>0. PICK s \in Sessions : \E n \in 1..Len(tasks[s]) : UserOf[s] = u /\ Announces(s, n, b)
    BY <1>5 DEF AnnounceInv
  <2>1. PICK n \in 1..Len(tasks[s]) : UserOf[s] = u /\ Announces(s, n, b)
    BY <2>0
  <2>. DEFINE i == number(s, n)
  <2>2. /\ i \in 1..Len(tasks[s]) /\ number(s, i) = n
        /\ tasks[s][i] = RowOf(s, n)
    BY <1>3, <2>1
  <2>3. <<s, i>> \in by
    BY <1>2, <2>1, <2>2 DEF Announces
  <2>. HIDE DEF by, i
  <2>4. \A t \in by : t = <<s, i>>
    <3>1. SUFFICES ASSUME NEW t \in by PROVE t = <<s, i>>
      OBVIOUS
    <3>2. number(t[1], t[2]) \in 1..Len(tasks[t[1]])
      BY <1>3, <1>4
    <3>3. t[1] = s /\ number(t[1], t[2]) = n
      BY <1>4, <2>1, <3>2 DEF AnnounceInv
    <3>4. t[2] = i
      BY <1>3, <1>4, <3>3 DEF i
    <3>. QED
      BY <1>4, <3>3, <3>4
  <2>5. by = {<<s, i>>}
    BY <2>3, <2>4
  <2>6. Cardinality(by) = 1
    BY <2>5, FS_Singleton
  <2>. QED
    BY <1>5, <2>6 DEF One, by
<1>6. CASE b \notin unlocked[u]
  <2>1. by = {}
    BY <1>3, <1>4, <1>6 DEF AnnounceInv
  <2>2. Cardinality(by) = 0
    BY <2>1, FS_EmptySet
  <2>. QED
    BY <1>6, <2>2 DEF One
<1>. QED
  BY <1>5, <1>6

\* However many sessions of one user race for a badge, one task announces it,
\* and none is unlocked unannounced: the primary key lets one of them through and
\* the others raise (achievements.py:54-79).
THEOREM BadgesHaveOneWinner == Spec => []AnnouncedOnce
<1>1. Init => TaskTyping /\ AnnounceInv
  BY InitialTyping DEF Init, AnnounceInv
<1>2. TaskTyping /\ AnnounceInv /\ [Next]_vars => (TaskTyping /\ AnnounceInv)'
  <2>. SUFFICES ASSUME TaskTyping, AnnounceInv, [Next]_vars PROVE AnnounceInv'
    BY TypingIsInductive
  <2>1. CASE UNCHANGED vars
    BY <2>1 DEF vars, AnnounceInv, Announces, RowOf
  <2>2. CASE Quiescent
    BY <2>1, <2>2 DEF Quiescent
  <2>. QED
    BY <2>1, <2>2, UnlockAnnounces, QuietAnnounces DEF Next
<1>3. TaskTyping /\ AnnounceInv => AnnouncedOnce
  BY AnnouncedByOne
<1>. QED
  BY <1>1, <1>2, <1>3, PTL DEF Spec

-----------------------------------------------------------------------------
(* Records.                                                                *)

Step(s) ==
  \/ Show(s) \/ ReadHistory(s) \/ StoreFlags(s) \/ Record(s) \/ UpdateStats(s)
  \/ ReadStats(s) \/ ReadUnlocked(s) \/ Unlock(s) \/ UnlockConflicts(s) \/ AccessRaises(s)

\* The step that puts the anomalies into the result.
Compares(s) == (ReadHistory(s) /\ Findings(Compared, Current(s).result) = {}) \/ StoreFlags(s)

\* What a step does to the rows of the lists, by their numbers.
LEMMA RowsAfter ==
  ASSUME TaskTyping, NEW s \in Sessions, Step(s)
  PROVE  /\ \A v \in Sessions \ {s} : tasks'[v] = tasks[v] /\ pc'[v] = pc[v]
         /\ \A v \in Sessions : \A n \in 1..Len(tasks[v]) :
              /\ n \in 1..Len(tasks'[v]) /\ RowOf(v, n)'.result = RowOf(v, n).result
              /\ ~Compares(s) \/ v # s \/ n # Len(tasks[s]) =>
                   RowOf(v, n)'.anomalies = RowOf(v, n).anomalies
         /\ \A v \in Sessions : \A n \in 1..Len(tasks'[v]) :
              n \in 1..Len(tasks[v]) \/ (Show(s) /\ RowOf(v, n)'.anomalies = NotYet)
         /\ IF Show(s) THEN Len(tasks'[s]) = Len(tasks[s]) + 1
                       ELSE Len(tasks'[s]) = Len(tasks[s])
         /\ Compares(s) => /\ RowOf(s, Len(tasks[s])).anomalies = NotYet
                           /\ RowOf(s, Len(tasks[s]))'.anomalies = flags'[s]
<1>. DEFINE newest == RowOf(s, Len(tasks[s]))
            Onward ==
              /\ \A v \in Sessions \ {s} : tasks'[v] = tasks[v]
              /\ \A v \in Sessions : \A n \in 1..Len(tasks[v]) :
                   /\ n \in 1..Len(tasks'[v]) /\ RowOf(v, n)'.result = RowOf(v, n).result
                   /\ ~Compares(s) \/ v # s \/ n # Len(tasks[s]) =>
                        RowOf(v, n)'.anomalies = RowOf(v, n).anomalies
              /\ \A v \in Sessions : \A n \in 1..Len(tasks'[v]) :
                   n \in 1..Len(tasks[v]) \/ (Show(s) /\ RowOf(v, n)'.anomalies = NotYet)
              /\ IF Show(s) THEN Len(tasks'[s]) = Len(tasks[s]) + 1
                            ELSE Len(tasks'[s]) = Len(tasks[s])
              /\ Compares(s) => newest.anomalies = NotYet /\ newest'.anomalies = flags'[s]
<1>1. \A v \in Sessions \ {s} : pc'[v] = pc[v]
  BY DEF TaskTyping, LocalsTyped, Step, Goto, Leave, Show, ReadHistory, StoreFlags, Record,
         UpdateStats, ReadStats, ReadUnlocked, Unlock, UnlockConflicts, AccessRaises
<1>2. CASE Show(s)
  <2>1. /\ \A v \in Sessions \ {s} : tasks'[v] = tasks[v]
        /\ Len(tasks'[s]) = Len(tasks[s]) + 1 /\ Len(tasks[s]) \in Nat
        /\ \A v \in Sessions : \A n \in 1..Len(tasks[v]) : RowOf(v, n)' = RowOf(v, n)
        /\ newest'.anomalies = NotYet
    <3>1. PICK r \in Results :
            newest' = [result |-> r, anomalies |-> NotYet, badges |-> NotYet]
      BY <1>2, RowsShown
    <3>2. newest'.anomalies = NotYet
      BY <3>1
    <3>. HIDE DEF newest
    <3>. QED
      BY <1>2, <3>2, RowsShown
  <2>2. ~Compares(s)
    BY <1>2 DEF Show, Compares, ReadHistory, StoreFlags
  <2>3. ASSUME NEW v \in Sessions, NEW n \in 1..Len(tasks'[v]), n \notin 1..Len(tasks[v])
        PROVE  v = s /\ n = Len(tasks'[s])
    BY <2>1, <2>3
  <2>4. \A v \in Sessions : \A n \in 1..Len(tasks[v]) : n \in 1..Len(tasks'[v])
    BY <2>1
  <2>. QED
    BY <1>1, <1>2, <2>1, <2>2, <2>3, <2>4
<1>3. ASSUME NEW row \in TaskRow, pc[s] # "idle", row.result = Current(s).result,
             tasks' = [tasks EXCEPT ![s] = [tasks[s] EXCEPT ![1] = row]],
             IF Compares(s) THEN Current(s).anomalies = NotYet /\ row.anomalies = flags'[s]
                            ELSE row.anomalies = Current(s).anomalies
      PROVE  Onward
  <2>1. tasks[s] # <<>> /\ TasksTyped
    BY <1>3, CurrentTyped DEF TaskTyping
  <2>2. /\ \A v \in Sessions : Len(tasks'[v]) = Len(tasks[v]) /\ Len(tasks[v]) \in Nat
        /\ RowOf(s, Len(tasks[s])) = Current(s) /\ RowOf(s, Len(tasks[s]))' = row
        /\ \A v \in Sessions : \A n \in 1..Len(tasks[v]) :
             v # s \/ n # Len(tasks[s]) => RowOf(v, n)' = RowOf(v, n)
    BY <1>3, <2>1, RowsSet
  <2>3. \A v \in Sessions \ {s} : tasks'[v] = tasks[v]
    BY <1>3, <2>1 DEF TasksTyped
  <2>4. ~Show(s)
    BY <1>3 DEF Show
  <2>5. \A n : n = Len(tasks[s]) => RowOf(s, n) = Current(s) /\ RowOf(s, n)' = row
    BY <2>2
  <2>6. newest = Current(s) /\ newest' = row
    BY <2>2
  <2>. HIDE DEF newest
  <2>. QED
    BY <1>3, <2>2, <2>3, <2>4, <2>5, <2>6
<1>4. CASE Compares(s)
  <2>. DEFINE row == [result |-> Current(s).result, anomalies |-> flags'[s],
                      badges |-> Current(s).badges]
  <2>1. row \in TaskRow /\ tasks' = [tasks EXCEPT ![s] = [tasks[s] EXCEPT ![1] = row]]
    BY <1>4, ComparedTasks DEF Compares
  <2>2. pc[s] # "idle" /\ Current(s).anomalies = NotYet
    BY <1>4 DEF Compares, ReadHistory, StoreFlags, TaskTyping, UnderWay
  <2>3. row.result = Current(s).result /\ row.anomalies = flags'[s]
    OBVIOUS
  <2>. HIDE DEF row, Onward
  <2>4. Onward
    BY <1>3, <1>4, <2>1, <2>2, <2>3
  <2>. QED
    BY <1>1, <2>4 DEF Onward
<1>5. CASE Unlock(s)
  <2>. DEFINE row == [result |-> Current(s).result, anomalies |-> Current(s).anomalies,
                      badges |-> newIds[s]]
  <2>1. row \in TaskRow /\ tasks' = [tasks EXCEPT ![s] = [tasks[s] EXCEPT ![1] = row]]
    BY <1>5, UnlockedTasks
  <2>2. pc[s] # "idle" /\ ~Compares(s)
    BY <1>5 DEF Unlock, Compares, ReadHistory, StoreFlags
  <2>3. row.result = Current(s).result /\ row.anomalies = Current(s).anomalies
    OBVIOUS
  <2>. HIDE DEF row, Onward
  <2>4. Onward
    BY <1>3, <2>1, <2>2, <2>3
  <2>. QED
    BY <1>1, <2>4 DEF Onward
<1>6. CASE UNCHANGED tasks /\ pc[s] # "idle" /\ ~Compares(s)
  <2>1. ~Show(s)
    BY <1>6 DEF Show
  <2>. QED
    BY <1>1, <1>6, <2>1 DEF RowOf
<1>7. Show(s) \/ Compares(s) \/ Unlock(s) \/ (UNCHANGED tasks /\ pc[s] # "idle" /\ ~Compares(s))
  BY DEF Step, Compares, ReadHistory, Record, UpdateStats, ReadStats, ReadUnlocked,
         UnlockConflicts, AccessRaises, StoreFlags
<1>. QED
  BY <1>2, <1>4, <1>5, <1>6, <1>7

Numbered(id) == id[1] \in Sessions /\ id[2] \in 1..Len(tasks[id[1]])
Newest(id) == id[2] = Len(tasks[id[1]])

\* The history has each task at most once, and none that is still to be recorded.
HistoryInv ==
  /\ \A j \in DOMAIN history :
       LET id == history[j].task
       IN Numbered(id) /\ (Newest(id) => pc[id[1]] \notin {"detect", "flag", "record"})
  /\ \A i, j \in DOMAIN history : history[i].task = history[j].task => i = j
  /\ \A s \in Sessions : pc[s] = "count" => \E j \in DOMAIN history : history[j].task = Task(s)

\* A task keeps its number; one that is no longer the newest of its session
\* never is again.
LEMMA NumbersStay ==
  ASSUME TaskTyping, NEW s \in Sessions, Step(s), NEW id, Numbered(id)
  PROVE  /\ Numbered(id)'
         /\ Newest(id)' => Newest(id) /\ (id[1] = s => ~Show(s))
<1>1. id[1] \in Sessions /\ id[2] \in 1..Len(tasks[id[1]])
  BY DEF Numbered
<1>2. id[2] \in 1..Len(tasks'[id[1]])
  BY <1>1, RowsAfter
<1>3. CASE id[1] = s
  <2>1. Len(tasks[s]) \in Nat /\ id[2] \in 1..Len(tasks[s])
    BY <1>1, <1>3 DEF TaskTyping, TasksTyped
  <2>2. IF Show(s) THEN Len(tasks'[s]) = Len(tasks[s]) + 1 ELSE Len(tasks'[s]) = Len(tasks[s])
    BY RowsAfter
  <2>. QED
    BY <1>1, <1>2, <1>3, <2>1, <2>2 DEF Numbered, Newest
<1>4. CASE id[1] # s
  <2>1. tasks'[id[1]] = tasks[id[1]]
    BY <1>1, <1>4, RowsAfter
  <2>. QED
    BY <1>1, <1>2, <1>4, <2>1 DEF Numbered, Newest
<1>. QED
  BY <1>3, <1>4

LEMMA HistoryIsInductive ==
  ASSUME TaskTyping, HistoryInv, NEW s \in Sessions, Step(s)
  PROVE  HistoryInv'
<1>1. \A v \in Sessions \ {s} : pc'[v] = pc[v] /\ tasks'[v] = tasks[v]
  BY RowsAfter
<1>2. history \in Seq(HistoryRow) /\ Len(history) \in Nat
  BY DEF TaskTyping, TablesTyped
<1>3. \A v \in Sessions \ {s} : Task(v)' = Task(v)
  BY <1>1 DEF Task
<1>4. CASE Record(s)
  <2>. DEFINE r == Current(s).result
              row == [task |-> Task(s), time |-> r.time, rate |-> Rate(r)]
  <2>1. /\ pc[s] = "record" /\ pc'[s] = "count" /\ UNCHANGED tasks
        /\ history' = Append(history, row)
    BY <1>4 DEF Record, Goto, TaskTyping, LocalsTyped
  <2>2. row \in HistoryRow
    <3>1. r \in Results /\ Len(tasks[s]) \in Nat
      BY <2>1, CurrentTyped
    <3>2. r.time \in Nat
      BY <3>1, ResultAssumption DEF TaskResults
    <3>. QED
      BY <3>1, <3>2, RateBound, ZenonT(30) DEF HistoryRow, Task
  <2>3. row.task = Task(s)
    OBVIOUS
  <2>. HIDE DEF row
  <2>4. /\ Len(history') = Len(history) + 1 /\ history'[Len(history) + 1] = row
        /\ \A j \in 1..Len(history) : history'[j] = history[j]
        /\ DOMAIN history' = 1..Len(history) + 1 /\ DOMAIN history = 1..Len(history)
    BY <1>2, <2>1, <2>2, Appended
  <2>5. Numbered(Task(s)) /\ Newest(Task(s)) /\ Task(s)[1] = s /\ Task(s)' = Task(s)
    <3>1. Len(tasks[s]) \in 1..Len(tasks[s])
      BY <2>1, NewestRow
    <3>. QED
      BY <2>1, <3>1 DEF Task, Numbered, Newest
  <2>6. \A j \in 1..Len(history) : history[j].task # Task(s)
    BY <2>1, <2>4, <2>5 DEF HistoryInv
  <2>7. \A j \in DOMAIN history' :
          \/ j \in DOMAIN history /\ history'[j].task = history[j].task
          \/ j = Len(history) + 1 /\ history'[j].task = Task(s)
    BY <1>2, <2>3, <2>4
  <2>8. \A id : (Numbered(id) <=> Numbered(id)') /\ (Newest(id) <=> Newest(id)')
    BY <2>1 DEF Numbered, Newest
  <2>9. ASSUME NEW j \in DOMAIN history', NEW id, id = history'[j].task
        PROVE  Numbered(id)' /\ (Newest(id)' => pc'[id[1]] \notin {"detect", "flag", "record"})
    <3>1. Numbered(id) /\ (id = Task(s) \/ (Newest(id) => pc[id[1]] \notin {"detect", "flag", "record"}))
      BY <2>5, <2>7, <2>9 DEF HistoryInv
    <3>2. id[1] \in Sessions
      BY <3>1 DEF Numbered
    <3>3. pc'[id[1]] \in {pc[id[1]], "count"} /\ (id = Task(s) => id[1] = s)
      BY <1>1, <2>1, <2>5, <3>2
    <3>. QED
      BY <2>1, <2>8, <3>1, <3>3
  <2>10. \A i, j \in DOMAIN history' : history'[i].task = history'[j].task => i = j
    BY <2>4, <2>6, <2>7 DEF HistoryInv
  <2>11. ASSUME NEW v \in Sessions, pc'[v] = "count"
         PROVE  \E j \in DOMAIN history' : history'[j].task = Task(v)'
    <3>1. CASE v = s
      <4>1. Len(history) + 1 \in DOMAIN history'
        BY <1>2, <2>4
      <4>. QED
        BY <2>3, <2>4, <2>5, <3>1, <4>1
    <3>2. CASE v # s
      <4>1. PICK j \in DOMAIN history : history[j].task = Task(v)
        BY <1>1, <2>11, <3>2 DEF HistoryInv
      <4>2. j \in DOMAIN history' /\ history'[j] = history[j]
        BY <1>2, <2>4
      <4>. QED
        BY <1>3, <3>2, <4>1, <4>2
    <3>. QED
      BY <3>1, <3>2
  <2>. QED
    BY <2>9, <2>10, <2>11 DEF HistoryInv, Numbered, Newest
<1>5. CASE ~Record(s)
  <2>1. history' = history /\ pc'[s] # "count"
    BY <1>5 DEF TaskTyping, LocalsTyped, Step, Goto, Leave, Show, ReadHistory, StoreFlags,
         UpdateStats, ReadStats, ReadUnlocked, Unlock, UnlockConflicts, AccessRaises
  <2>2. Show(s) \/ pc[s] \in {"detect", "flag", "record"}
          \/ pc'[s] \notin {"detect", "flag", "record"}
    BY <1>5 DEF TaskTyping, LocalsTyped, Step, Goto, Leave, Show, ReadHistory, StoreFlags,
         UpdateStats, ReadStats, ReadUnlocked, Unlock, UnlockConflicts, AccessRaises
  <2>3. ASSUME NEW j \in DOMAIN history, NEW id, id = history[j].task
        PROVE  Numbered(id)' /\ (Newest(id)' => pc'[id[1]] \notin {"detect", "flag", "record"})
    <3>1. Numbered(id) /\ (Newest(id) => pc[id[1]] \notin {"detect", "flag", "record"})
      BY <2>3 DEF HistoryInv
    <3>2. id[1] \in Sessions
      BY <3>1 DEF Numbered
    <3>3. Numbered(id)' /\ (Newest(id)' => Newest(id) /\ (id[1] = s => ~Show(s)))
      BY <3>1, NumbersStay
    <3>4. Newest(id)' => pc'[id[1]] \notin {"detect", "flag", "record"}
      BY <1>1, <2>2, <3>1, <3>2, <3>3
    <3>. QED
      BY <3>3, <3>4
  <2>4. ASSUME NEW v \in Sessions, pc'[v] = "count"
        PROVE  \E j \in DOMAIN history' : history'[j].task = Task(v)'
    BY <1>1, <1>3, <2>1, <2>4 DEF HistoryInv
  <2>. QED
    BY <2>1, <2>3, <2>4 DEF HistoryInv, Numbered, Newest
<1>. QED
  BY <1>4, <1>5

FlagsOf(id) == {a.flag : a \in {e \in anomalies : e.task = id}}

\* The anomalies of a task that is past the comparison are stored, and no others.
FlagInv ==
  /\ \A e \in anomalies :
       Numbered(e.task) /\ RowOf(e.task[1], e.task[2]).anomalies # NotYet
  /\ \A v \in Sessions : \A n \in 1..Len(tasks[v]) :
       RowOf(v, n).anomalies # NotYet => FlagsOf(<<v, n>>) = RowOf(v, n).anomalies

LEMMA NumberedRow ==
  ASSUME TaskTyping, NEW s \in Sessions, Step(s), NEW id, Numbered(id),
         RowOf(id[1], id[2]).anomalies # NotYet
  PROVE  /\ Numbered(id)' /\ RowOf(id[1], id[2])'.anomalies = RowOf(id[1], id[2]).anomalies
         /\ RowOf(id[1], id[2])'.result = RowOf(id[1], id[2]).result
<1>1. id[1] \in Sessions /\ id[2] \in 1..Len(tasks[id[1]])
  BY DEF Numbered
<1>2. /\ id[2] \in 1..Len(tasks'[id[1]])
      /\ RowOf(id[1], id[2])'.result = RowOf(id[1], id[2]).result
      /\ ~Compares(s) \/ id[1] # s \/ id[2] # Len(tasks[s]) =>
           RowOf(id[1], id[2])'.anomalies = RowOf(id[1], id[2]).anomalies
  BY <1>1, RowsAfter
<1>3. ~(Compares(s) /\ id[1] = s /\ id[2] = Len(tasks[s]))
  <2>1. Compares(s) => RowOf(s, Len(tasks[s])).anomalies = NotYet
    BY RowsAfter
  <2>. QED
    BY <2>1
<1>. QED
  BY <1>1, <1>2, <1>3 DEF Numbered

LEMMA FlagsAreInductive ==
  ASSUME TaskTyping, FlagInv, NEW s \in Sessions, Step(s)
  PROVE  FlagInv'
<1>. DEFINE last == Len(tasks[s])
<1>1. \A e \in anomalies : /\ Numbered(e.task)'
                           /\ RowOf(e.task[1], e.task[2])'.anomalies # NotYet
  <2>1. SUFFICES ASSUME NEW e \in anomalies, NEW id, id = e.task
                 PROVE  Numbered(id)' /\ RowOf(id[1], id[2])'.anomalies # NotYet
    BY DEF Numbered, RowOf
  <2>2. Numbered(id) /\ RowOf(id[1], id[2]).anomalies # NotYet
    BY <2>1 DEF FlagInv
  <2>. QED
    BY <2>2, NumberedRow
<1>2. ASSUME NEW v \in Sessions, NEW n \in 1..Len(tasks'[v]), UNCHANGED anomalies,
             RowOf(v, n)'.anomalies # NotYet, ~(Compares(s) /\ v = s /\ n = last)
      PROVE  FlagsOf(<<v, n>>)' = RowOf(v, n)'.anomalies
  <2>1. n \in 1..Len(tasks[v])
    BY <1>2, RowsAfter
  <2>2. RowOf(v, n)'.anomalies = RowOf(v, n).anomalies
    BY <1>2, <2>1, RowsAfter
  <2>. QED
    BY <1>2, <2>1, <2>2 DEF FlagInv, FlagsOf
<1>3. CASE Compares(s)
  <2>1. /\ RowOf(s, last).anomalies = NotYet
        /\ \A n : n = last => RowOf(s, n)'.anomalies = flags'[s]
        /\ Len(tasks'[s]) = Len(tasks[s])
    <3>1. ~Show(s)
      BY <1>3 DEF Compares, Show, ReadHistory, StoreFlags
    <3>2. Len(tasks'[s]) = Len(tasks[s])
      BY <3>1, RowsAfter
    <3>3. RowOf(s, Len(tasks[s])).anomalies = NotYet
          /\ RowOf(s, Len(tasks[s]))'.anomalies = flags'[s]
      BY <1>3, RowsAfter
    <3>. QED
      BY <3>2, <3>3
  <2>2. flags'[s] \in SUBSET Flags /\ flags'[s] # NotYet
    <3>1. flags'[s] \in SUBSET Flags
      BY <1>3, ComparedTasks DEF Compares
    <3>. QED
      BY <3>1, NotYetAssumption
  <2>3. FlagsOf(Task(s)) = {} /\ Task(s) = <<s, last>>
    <3>1. \A e \in anomalies : e.task # Task(s)
      BY <2>1 DEF FlagInv, Task
    <3>. QED
      BY <3>1 DEF FlagsOf, Task
  <2>4. Numbered(Task(s))'
    <3>1. pc[s] # "idle"
      BY <1>3 DEF Compares, ReadHistory, StoreFlags
    <3>2. last \in 1..Len(tasks[s])
      BY <3>1, NewestRow
    <3>3. s \in Sessions /\ last \in 1..Len(tasks'[s])
      BY <2>1, <3>2
    <3>. QED
      BY <2>1, <3>3 DEF Numbered, Task
  <2>5. CASE StoreFlags(s)
    <3>1. flags'[s] = flags[s]
          /\ anomalies' = anomalies \cup {[task |-> Task(s), flag |-> f] : f \in flags[s]}
      BY <2>5 DEF StoreFlags
    <3>0. \A e : e \in anomalies' <=>
            e \in anomalies \/ \E f \in flags[s] : e = [task |-> Task(s), flag |-> f]
      BY <3>1
    <3>2. \A n : n = last => FlagsOf(<<s, n>>)' = RowOf(s, n)'.anomalies
      <4>0. \A e \in anomalies : e.task # Task(s)
        BY <2>1 DEF FlagInv, Task
      <4>1. {a.flag : a \in {e \in anomalies' : e.task = Task(s)}} = flags[s]
        <5>1. \A f \in flags[s] : \E e \in anomalies' : e.task = Task(s) /\ e.flag = f
          <6>1. \A f \in flags[s] : [task |-> Task(s), flag |-> f] \in anomalies'
            BY <3>0
          <6>. QED
            BY <6>1
        <5>2. \A e \in anomalies' : e.task = Task(s) => e.flag \in flags[s]
          BY <3>0, <4>0
        <5>. QED
          BY <5>1, <5>2
      <4>. QED
        BY <2>1, <2>3, <3>1, <4>1 DEF FlagsOf
    <3>3. ASSUME NEW v \in Sessions, NEW n \in 1..Len(tasks'[v]),
                 RowOf(v, n)'.anomalies # NotYet, ~(v = s /\ n = last)
          PROVE  FlagsOf(<<v, n>>)' = RowOf(v, n)'.anomalies
      <4>1. n \in 1..Len(tasks[v])
        BY <3>3, RowsAfter
      <4>2. RowOf(v, n)'.anomalies = RowOf(v, n).anomalies
        BY <3>3, <4>1, RowsAfter
      <4>3. <<v, n>> # Task(s)
        BY <3>3 DEF Task
      <4>4. {e \in anomalies' : e.task = <<v, n>>} = {e \in anomalies : e.task = <<v, n>>}
        <5>1. \A e \in anomalies' : e.task = <<v, n>> => e \in anomalies
          BY <3>0, <4>3
        <5>. QED
          BY <3>0, <5>1
      <4>. QED
        BY <3>3, <4>1, <4>2, <4>4 DEF FlagInv, FlagsOf
    <3>4. ASSUME NEW e \in anomalies', NEW id, id = e.task
          PROVE  Numbered(id)' /\ RowOf(id[1], id[2])'.anomalies # NotYet
      <4>1. CASE e \in anomalies
        BY <1>1, <3>4, <4>1 DEF Numbered, RowOf
      <4>2. CASE id = Task(s)
        BY <2>1, <2>2, <2>4, <4>2 DEF Task
      <4>. QED
        BY <3>1, <3>4, <4>1, <4>2
    <3>. HIDE DEF last
    <3>. QED
      BY <3>2, <3>3, <3>4 DEF FlagInv, Numbered, RowOf
  <2>6. CASE UNCHANGED anomalies /\ flags'[s] = {}
    <3>1. \A n : n = last => FlagsOf(<<s, n>>)' = RowOf(s, n)'.anomalies
      BY <2>1, <2>3, <2>6 DEF FlagsOf
    <3>. HIDE DEF last
    <3>. QED
      BY <1>1, <1>2, <2>6, <3>1 DEF FlagInv, Numbered, RowOf
  <2>7. StoreFlags(s) \/ (UNCHANGED anomalies /\ flags'[s] = {})
    BY <1>3 DEF Compares, ReadHistory, TaskTyping, LocalsTyped
  <2>. QED
    BY <2>5, <2>6, <2>7
<1>4. CASE ~Compares(s)
  <2>1. UNCHANGED anomalies
    BY <1>4 DEF Compares, Step, Show, ReadHistory, StoreFlags, Record,
         UpdateStats, ReadStats, ReadUnlocked, Unlock, UnlockConflicts, AccessRaises
  <2>. QED
    BY <1>1, <1>2, <1>4, <2>1 DEF FlagInv, Numbered, RowOf
<1>. QED
  BY <1>3, <1>4

\* The task id counts for u with the result r, rightly.
CountsFor(u, id, r) ==
  /\ Numbered(id) /\ UserOf[id[1]] = u
  /\ RowOf(id[1], id[2]).result = r /\ RowOf(id[1], id[2]).anomalies # NotYet
  /\ \E j \in DOMAIN history : history[j].task = id
  /\ Newest(id) => pc[id[1]] \notin {"detect", "flag", "record", "count"}

\* A task counts at most once, and does before it asks for badges.
CountsAreRight ==
  \A u \in Users : \A k \in DOMAIN counted[u] :
    CountsFor(u, counted[u][k].task, counted[u][k].result)
CountsOnce ==
  \A u \in Users : \A j, k \in DOMAIN counted[u] :
    counted[u][j].task = counted[u][k].task => j = k
CountsFirst ==
  \A s \in Sessions : pc[s] \in {"stats", "unlocked", "unlock"} =>
    \E k \in DOMAIN counted[UserOf[s]] : counted[UserOf[s]][k].task = Task(s)
CountedInv == CountsAreRight /\ CountsOnce /\ CountsFirst

LEMMA HistoryGrows ==
  ASSUME TaskTyping, NEW s \in Sessions, Step(s), NEW id,
         \E j \in DOMAIN history : history[j].task = id
  PROVE  \E j \in DOMAIN history' : history'[j].task = id
<1>1. CASE Record(s)
  <2>1. PICK row : history' = Append(history, row)
    BY <1>1 DEF Record
  <2>2. history \in Seq(HistoryRow)
    BY DEF TaskTyping, TablesTyped
  <2>3. \A j \in DOMAIN history : j \in DOMAIN history' /\ history'[j] = history[j]
    BY <2>1, <2>2
  <2>. QED
    BY <2>3
<1>2. CASE UNCHANGED history
  BY <1>2
<1>. QED
  BY <1>1, <1>2 DEF Step, Show, ReadHistory, StoreFlags,
     UpdateStats, ReadStats, ReadUnlocked, Unlock, UnlockConflicts, AccessRaises

\* What a step does to the list of what a user counts.
LEMMA CountedAfter ==
  ASSUME TaskTyping, NEW s \in Sessions, Step(s)
  PROVE  /\ \A u \in Users : counted[u] \in Seq(CountedRow)
         /\ ~UpdateStats(s) => UNCHANGED counted
         /\ UpdateStats(s) =>
              LET u == UserOf[s]
                  row == [task |-> Task(s), result |-> Current(s).result]
              IN  /\ u \in Users /\ row \in CountedRow
                  /\ counted'[u] = Append(counted[u], row)
                  /\ \A v \in Users \ {u} : counted'[v] = counted[v]
<1>1. \A u \in Users : counted[u] \in Seq(CountedRow)
  BY DEF TaskTyping, TablesTyped
<1>2. ~UpdateStats(s) => UNCHANGED counted
  BY DEF Step, Show, ReadHistory, StoreFlags, Record,
     ReadStats, ReadUnlocked, Unlock, UnlockConflicts, AccessRaises
<1>3. ASSUME UpdateStats(s)
      PROVE  LET u == UserOf[s]
                 row == [task |-> Task(s), result |-> Current(s).result]
             IN  /\ u \in Users /\ row \in CountedRow
                 /\ counted'[u] = Append(counted[u], row)
                 /\ \A v \in Users \ {u} : counted'[v] = counted[v]
  <2>1. UserOf[s] \in Users /\ Current(s).result \in Results /\ Len(tasks[s]) \in Nat
    BY <1>3, CurrentTyped, UserAssumption DEF UpdateStats
  <2>2. counted \in [Users -> Seq(CountedRow)]
    BY DEF TaskTyping, TablesTyped
  <2>. QED
    BY <1>3, <2>1, <2>2 DEF UpdateStats, CountedRow, Task
<1>. QED
  BY <1>1, <1>2, <1>3

LEMMA CountsStay ==
  ASSUME TaskTyping, NEW s \in Sessions, Step(s), NEW u, NEW id, NEW r, CountsFor(u, id, r)
  PROVE  CountsFor(u, id, r)'
<1>1. Numbered(id) /\ RowOf(id[1], id[2]).anomalies # NotYet /\ id[1] \in Sessions
  BY DEF CountsFor, Numbered
<1>2. /\ Numbered(id)' /\ RowOf(id[1], id[2])'.anomalies = RowOf(id[1], id[2]).anomalies
      /\ RowOf(id[1], id[2])'.result = RowOf(id[1], id[2]).result
  BY <1>1, NumberedRow
<1>3. \E j \in DOMAIN history' : history'[j].task = id
  BY HistoryGrows DEF CountsFor
<1>4. ASSUME Newest(id)' PROVE pc'[id[1]] \notin {"detect", "flag", "record", "count"}
  <2>1. Newest(id) /\ (id[1] = s => ~Show(s))
    BY <1>1, <1>4, NumbersStay
  <2>2. pc[id[1]] \notin {"detect", "flag", "record", "count"}
    BY <2>1 DEF CountsFor
  <2>3. CASE id[1] = s
    BY <2>1, <2>2, <2>3 DEF Step, TaskTyping, LocalsTyped, Goto, Leave, ReadHistory, StoreFlags,
       Record, UpdateStats, ReadStats, ReadUnlocked, Unlock, UnlockConflicts, AccessRaises
  <2>4. CASE id[1] # s
    BY <1>1, <2>2, <2>4, RowsAfter
  <2>. QED
    BY <2>3, <2>4
<1>. QED
  BY <1>2, <1>3, <1>4 DEF CountsFor

\* CountsFor of the next state.
CountsForNext(u, id, r) ==
  /\ id[1] \in Sessions /\ id[2] \in 1..Len(tasks'[id[1]]) /\ UserOf[id[1]] = u
  /\ tasks'[id[1]][Len(tasks'[id[1]]) - id[2] + 1].result = r
  /\ tasks'[id[1]][Len(tasks'[id[1]]) - id[2] + 1].anomalies # NotYet
  /\ \E j \in DOMAIN history' : history'[j].task = id
  /\ id[2] = Len(tasks'[id[1]]) => pc'[id[1]] \notin {"detect", "flag", "record", "count"}

LEMMA CountsForAfter ==
  ASSUME NEW u, NEW id, NEW r
  PROVE  CountsFor(u, id, r)' <=> CountsForNext(u, id, r)
<1>1. Numbered(id)' <=> id[1] \in Sessions /\ id[2] \in 1..Len(tasks'[id[1]])
  BY DEF Numbered
<1>2. RowOf(id[1], id[2])' = tasks'[id[1]][Len(tasks'[id[1]]) - id[2] + 1]
  BY DEF RowOf
<1>3. Newest(id)' <=> id[2] = Len(tasks'[id[1]])
  BY DEF Newest
<1>. QED
  BY <1>1, <1>2, <1>3 DEF CountsFor, CountsForNext

LEMMA CountsNext ==
  ASSUME \A u \in Users : \A k \in DOMAIN counted'[u] :
           CountsForNext(u, counted'[u][k].task, counted'[u][k].result)
  PROVE  CountsAreRight'
BY CountsForAfter DEF CountsAreRight

LEMMA CountedIsInductive ==
  ASSUME TaskTyping, HistoryInv, CountedInv, NEW s \in Sessions, Step(s)
  PROVE  CountedInv'
<1>. DEFINE u == UserOf[s]
            row == [task |-> Task(s), result |-> Current(s).result]
<1>1. \A v \in Sessions \ {s} : pc'[v] = pc[v] /\ Task(v)' = Task(v)
  BY RowsAfter DEF Task
<1>2. \A v \in Sessions : UserOf[v] \in Users
  BY UserAssumption
<1>3. ASSUME NEW v \in Users, NEW k \in DOMAIN counted[v]
      PROVE  CountsFor(v, counted[v][k].task, counted[v][k].result)
  BY DEF CountedInv, CountsAreRight
<1>4. ASSUME NEW v \in Users, NEW k \in DOMAIN counted[v], NEW id, NEW r,
             id = counted[v][k].task, r = counted[v][k].result
      PROVE  CountsForNext(v, id, r)
  <2>1. CountsFor(v, id, r)
    BY <1>3, <1>4
  <2>. QED
    BY <2>1, CountsStay, CountsForAfter
<1>5. CASE UpdateStats(s)
  <2>1. /\ u \in Users /\ row \in CountedRow /\ row.task = Task(s)
        /\ row.result = Current(s).result
        /\ counted'[u] = Append(counted[u], row) /\ counted[u] \in Seq(CountedRow)
        /\ \A v \in Users \ {u} : counted'[v] = counted[v]
    BY <1>5, CountedAfter
  <2>. HIDE DEF row
  <2>2. /\ Len(counted[u]) \in Nat /\ counted'[u][Len(counted[u]) + 1] = row
        /\ \A j \in 1..Len(counted[u]) : counted'[u][j] = counted[u][j]
        /\ DOMAIN counted'[u] = 1..Len(counted[u]) + 1 /\ DOMAIN counted[u] = 1..Len(counted[u])
    BY <2>1, Appended
  <2>3. /\ pc[s] = "count" /\ pc'[s] = "stats" /\ UNCHANGED <<tasks, history>>
    BY <1>5 DEF UpdateStats, Goto, TaskTyping, LocalsTyped
  <2>4. /\ Task(s)[1] = s /\ Numbered(Task(s)) /\ Newest(Task(s)) /\ Task(s)' = Task(s)
        /\ RowOf(Task(s)[1], Task(s)[2]) = Current(s)
        /\ Current(s).anomalies = flags[s] /\ flags[s] # NotYet
    <3>1. Len(tasks[s]) \in 1..Len(tasks[s]) /\ Current(s) = RowOf(s, Len(tasks[s]))
      BY <2>3, NewestRow
    <3>2. Current(s).anomalies = flags[s] /\ flags[s] \in SUBSET Flags
      BY <2>3 DEF TaskTyping, UnderWay, LocalsTyped, Stored
    <3>3. flags[s] # NotYet
      BY <3>2, NotYetAssumption
    <3>. QED
      BY <2>3, <3>1, <3>2, <3>3 DEF Task, Numbered, Newest
  <2>5. \E j \in DOMAIN history' : history'[j].task = Task(s)
    BY <2>3 DEF HistoryInv
  <2>6. ASSUME NEW id, NEW r, id = Task(s), r = row.result PROVE CountsForNext(u, id, r)
    <3>1. /\ id[1] \in Sessions /\ id[2] \in 1..Len(tasks'[id[1]]) /\ UserOf[id[1]] = u
          /\ tasks'[id[1]][Len(tasks'[id[1]]) - id[2] + 1] = Current(s)
      BY <2>3, <2>4, <2>6 DEF Numbered, RowOf
    <3>2. pc'[id[1]] = "stats"
      BY <2>3, <2>4, <2>6
    <3>3. Current(s).result = r /\ Current(s).anomalies # NotYet
      BY <2>1, <2>4, <2>6
    <3>. QED
      BY <2>5, <2>6, <3>1, <3>2, <3>3 DEF CountsForNext
  <2>7. \A k \in DOMAIN counted[u] : counted[u][k].task # Task(s)
    BY <2>1, <2>3, <2>4 DEF CountedInv, CountsAreRight, CountsFor
  <2>8. \A k \in DOMAIN counted'[u] :
          \/ k \in DOMAIN counted[u] /\ counted'[u][k] = counted[u][k]
          \/ k = Len(counted[u]) + 1 /\ counted'[u][k] = row
    BY <2>2
  <2>9. ASSUME NEW v \in Users, NEW k \in DOMAIN counted'[v], NEW id, NEW r,
               id = counted'[v][k].task, r = counted'[v][k].result
        PROVE  CountsForNext(v, id, r)
    <3>1. CASE v = u /\ k = Len(counted[u]) + 1
      BY <2>1, <2>2, <2>6, <2>9, <3>1
    <3>2. CASE ~(v = u /\ k = Len(counted[u]) + 1)
      <4>1. k \in DOMAIN counted[v] /\ counted'[v][k] = counted[v][k]
        BY <2>1, <2>8, <2>9, <3>2
      <4>. QED
        BY <1>4, <2>9, <4>1
    <3>. QED
      BY <3>1, <3>2
  <2>10. ASSUME NEW v \in Users, NEW j \in DOMAIN counted'[v], NEW k \in DOMAIN counted'[v],
                counted'[v][j].task = counted'[v][k].task
         PROVE  j = k
    <3>1. CASE v = u
      <4>1. j \in DOMAIN counted[u] <=> k \in DOMAIN counted[u]
        BY <2>1, <2>7, <2>8, <2>10, <3>1, ZenonT(30)
      <4>2. CASE j \in DOMAIN counted[u] /\ k \in DOMAIN counted[u]
        <5>1. counted[u][j].task = counted[u][k].task
          BY <2>2, <2>10, <3>1, <4>2
        <5>. QED
          BY <2>1, <4>2, <5>1 DEF CountedInv, CountsOnce
      <4>3. CASE j \notin DOMAIN counted[u] /\ k \notin DOMAIN counted[u]
        BY <2>8, <2>10, <3>1, <4>3
      <4>. QED
        BY <4>1, <4>2, <4>3
    <3>2. CASE v # u
      BY <2>1, <2>10, <3>2 DEF CountedInv, CountsOnce
    <3>. QED
      BY <3>1, <3>2
  <2>11. ASSUME NEW v \in Sessions, pc'[v] \in {"stats", "unlocked", "unlock"}
         PROVE  \E k \in DOMAIN counted'[UserOf[v]] : counted'[UserOf[v]][k].task = Task(v)'
    <3>1. CASE v = s
      <4>1. Len(counted[u]) + 1 \in DOMAIN counted'[u]
        BY <2>2
      <4>. QED
        BY <2>1, <2>2, <2>4, <3>1, <4>1
    <3>2. CASE v # s
      <4>1. PICK k \in DOMAIN counted[UserOf[v]] : counted[UserOf[v]][k].task = Task(v)
        BY <1>1, <2>11, <3>2 DEF CountedInv, CountsFirst
      <4>2. k \in DOMAIN counted'[UserOf[v]] /\ counted'[UserOf[v]][k] = counted[UserOf[v]][k]
        BY <1>2, <2>1, <2>2, SMTT(30)
      <4>. QED
        BY <1>1, <3>2, <4>1, <4>2
    <3>. QED
      BY <3>1, <3>2
  <2>12. CountsAreRight'
    BY <2>9, CountsNext
  <2>13. CountsOnce'
    BY <2>10 DEF CountsOnce
  <2>14. CountsFirst'
    BY <2>11 DEF CountsFirst
  <2>. QED
    BY <2>12, <2>13, <2>14 DEF CountedInv
<1>6. CASE ~UpdateStats(s)
  <2>1. UNCHANGED counted
    BY <1>6, CountedAfter
  <2>2. pc'[s] \in {"stats", "unlocked", "unlock"} =>
          pc[s] \in {"stats", "unlocked", "unlock"} /\ Task(s)' = Task(s)
    BY <1>6 DEF Task, Step, TaskTyping, LocalsTyped, Goto, Leave, Show, ReadHistory, StoreFlags,
       Record, ReadStats, ReadUnlocked, Unlock, UnlockConflicts, AccessRaises
  <2>3. \A v \in Sessions : pc'[v] \in {"stats", "unlocked", "unlock"} =>
          \E k \in DOMAIN counted'[UserOf[v]] : counted'[UserOf[v]][k].task = Task(v)'
    BY <1>1, <2>1, <2>2 DEF CountedInv, CountsFirst
  <2>4. CountsAreRight'
    <3>1. ASSUME NEW v \in Users, NEW k \in DOMAIN counted'[v], NEW id, NEW r,
                 id = counted'[v][k].task, r = counted'[v][k].result
          PROVE  CountsForNext(v, id, r)
      BY <1>4, <2>1, <3>1
    <3>. QED
      BY <3>1, CountsNext
  <2>. QED
    BY <2>1, <2>3, <2>4 DEF CountedInv, CountsOnce, CountsFirst
<1>. QED
  BY <1>5, <1>6

RecordInv == TaskTyping /\ HistoryInv /\ FlagInv /\ CountedInv

LEMMA RecordsAreInductive == RecordInv /\ [Next]_vars => RecordInv'
<1>. SUFFICES ASSUME RecordInv, [Next]_vars PROVE RecordInv'
  OBVIOUS
<1>1. TaskTyping'
  BY TypingIsInductive DEF RecordInv
<1>2. CASE UNCHANGED vars
  <2>1. UNCHANGED <<tasks, history, anomalies, pc, counted>>
    BY <1>2 DEF vars
  <2>2. HistoryInv'
    BY <2>1 DEF RecordInv, HistoryInv, Numbered, Newest, Task
  <2>3. FlagInv'
    BY <2>1 DEF RecordInv, FlagInv, Numbered, RowOf, FlagsOf
  <2>4. CountsOnce' /\ CountsFirst'
    BY <2>1 DEF RecordInv, CountedInv, CountsOnce, CountsFirst, Task
  <2>5. \A u, id, r : CountsFor(u, id, r) => CountsForNext(u, id, r)
    BY <2>1 DEF CountsFor, CountsForNext, Numbered, Newest, RowOf
  <2>6. CountsAreRight'
    BY <2>1, <2>5, CountsNext DEF RecordInv, CountedInv, CountsAreRight
  <2>. QED
    BY <1>1, <2>2, <2>3, <2>4, <2>6 DEF RecordInv, CountedInv
<1>3. ASSUME NEW s \in Sessions, Step(s) PROVE RecordInv'
  BY <1>1, <1>3, HistoryIsInductive, FlagsAreInductive, CountedIsInductive DEF RecordInv
<1>4. CASE Quiescent
  BY <1>2, <1>4 DEF Quiescent
<1>. QED
  BY <1>2, <1>3, <1>4 DEF Next, Step

LEMMA InitialRecords == Init => RecordInv
<1>. SUFFICES ASSUME Init PROVE RecordInv
  OBVIOUS
<1>1. /\ history = <<>> /\ anomalies = {} /\ \A s \in Sessions : tasks[s] = <<>> /\ pc[s] = "idle"
      /\ \A u \in Users : counted[u] = <<>>
  BY DEF Init
<1>2. HistoryInv /\ FlagInv
  BY <1>1 DEF HistoryInv, FlagInv
<1>3. CountedInv
  BY <1>1 DEF CountedInv, CountsAreRight, CountsOnce, CountsFirst
<1>. QED
  BY <1>2, <1>3, InitialTyping DEF RecordInv

\* A task that counts for its user was shown, is in the history exactly once and
\* its anomalies are stored, whatever raised in this task or another
\* (streamlit_app.py:122-135).
THEOREM CountedTasksAreRecorded == Spec => []CountedIsRecorded
<1>1. RecordInv => CountedIsRecorded
  <2>1. SUFFICES
          ASSUME RecordInv, NEW u \in Users, NEW k \in DOMAIN counted[u],
                 NEW id, id = counted[u][k].task
          PROVE  /\ RowOf(id[1], id[2]).result = counted[u][k].result
                 /\ Cardinality({j \in DOMAIN history : history[j].task = id}) = 1
                 /\ FlagsOf(id) = RowOf(id[1], id[2]).anomalies
    BY DEF CountedIsRecorded, RowOf, FlagsOf
  <2>2. CountsFor(u, id, counted[u][k].result)
    BY <2>1 DEF RecordInv, CountedInv, CountsAreRight
  <2>3. PICK j \in DOMAIN history : history[j].task = id
    BY <2>2 DEF CountsFor
  <2>4. {i \in DOMAIN history : history[i].task = id} = {j}
    BY <2>1, <2>3 DEF RecordInv, HistoryInv
  <2>5. Cardinality({j}) = 1
    BY FS_Singleton
  <2>6. id = <<id[1], id[2]>> /\ id[1] \in Sessions /\ id[2] \in 1..Len(tasks[id[1]])
    <3>1. counted[u] \in Seq(CountedRow)
      BY <2>1 DEF RecordInv, TaskTyping, TablesTyped
    <3>2. counted[u][k] \in CountedRow
      BY <3>1
    <3>. QED
      BY <2>1, <2>2, <3>2 DEF CountedRow, CountsFor, Numbered
  <2>7. FlagsOf(id) = RowOf(id[1], id[2]).anomalies
    BY <2>1, <2>2, <2>6 DEF RecordInv, FlagInv, CountsFor
  <2>. QED
    BY <2>2, <2>4, <2>5, <2>7 DEF CountsFor
<1>. QED
  BY <1>1, InitialRecords, RecordsAreInductive, PTL DEF Spec

-----------------------------------------------------------------------------
(* Statistics and badges.                                                  *)

CompleteOf(cs) == [i \in 1..Len(cs) |-> One(cs[i].result.complete)]
OfflineOf(cs) == [i \in 1..Len(cs) |-> One(cs[i].result.offline)]

SumOf(cs) == [tasks |-> Len(cs), evidence |-> Total(ReceiptsOf(cs)),
              perfect |-> Total(CompleteOf(cs)), offline |-> Total(OfflineOf(cs))]

LEMMA ListsTyped ==
  ASSUME NEW cs \in Seq(CountedRow)
  PROVE  /\ Len(cs) \in Nat /\ \A i \in 1..Len(cs) : cs[i].result \in TaskResults
         /\ ReceiptsOf(cs) \in Seq(Nat) /\ Len(ReceiptsOf(cs)) = Len(cs)
         /\ CompleteOf(cs) \in Seq(Nat) /\ Len(CompleteOf(cs)) = Len(cs)
         /\ OfflineOf(cs) \in Seq(Nat) /\ Len(OfflineOf(cs)) = Len(cs)
         /\ \A i \in 1..Len(cs) : /\ ReceiptsOf(cs)[i] = cs[i].result.receipts
                                  /\ CompleteOf(cs)[i] = One(cs[i].result.complete)
                                  /\ OfflineOf(cs)[i] = One(cs[i].result.offline)
<1>1. Len(cs) \in Nat
  OBVIOUS
<1>2. \A i \in 1..Len(cs) : cs[i].result \in TaskResults
  <2>1. \A i \in 1..Len(cs) : cs[i] \in CountedRow
    OBVIOUS
  <2>. QED
    BY <2>1, ResultAssumption DEF CountedRow
<1>3. \A i \in 1..Len(cs) : /\ cs[i].result.receipts \in Nat
                            /\ One(cs[i].result.complete) \in Nat
                            /\ One(cs[i].result.offline) \in Nat
  BY <1>2 DEF TaskResults, One
<1>. QED
  BY <1>1, <1>2, <1>3 DEF ReceiptsOf, CompleteOf, OfflineOf

LEMMA SumAppended ==
  ASSUME NEW cs \in Seq(CountedRow), NEW row \in CountedRow
  PROVE  SumOf(Append(cs, row)) = Added(SumOf(cs), row.result)
<1>. DEFINE ds == Append(cs, row)
<1>1. /\ ds \in Seq(CountedRow) /\ Len(ds) = Len(cs) + 1 /\ Len(cs) \in Nat
      /\ ds[Len(cs) + 1] = row /\ \A i \in 1..Len(cs) : ds[i] = cs[i]
  BY Appended
<1>. HIDE DEF ds
<1>a. ASSUME NEW v \in Seq(Nat), NEW w \in Seq(Nat), NEW x, Len(v) = Len(cs),
             Len(w) = Len(ds), w[Len(ds)] = x, \A i \in 1..Len(cs) : w[i] = v[i]
      PROVE  Total(w) = Total(v) + x
  BY <1>1, <1>a, TotalAppend
<1>b. /\ Len(ds) \in 1..Len(ds) /\ \A i \in 1..Len(cs) : i \in 1..Len(ds)
      /\ ds[Len(ds)] = row
  BY <1>1
<1>2. Total(ReceiptsOf(ds)) = Total(ReceiptsOf(cs)) + row.result.receipts
  <2>1. /\ ReceiptsOf(cs) \in Seq(Nat) /\ Len(ReceiptsOf(cs)) = Len(cs)
        /\ ReceiptsOf(ds) \in Seq(Nat) /\ Len(ReceiptsOf(ds)) = Len(ds)
        /\ ReceiptsOf(ds)[Len(ds)] = row.result.receipts
        /\ \A i \in 1..Len(cs) : ReceiptsOf(ds)[i] = ReceiptsOf(cs)[i]
    BY <1>1, <1>b, ListsTyped, ZenonT(30)
  <2>. QED
    BY <1>a, <2>1
<1>3. Total(CompleteOf(ds)) = Total(CompleteOf(cs)) + One(row.result.complete)
  <2>1. /\ CompleteOf(cs) \in Seq(Nat) /\ Len(CompleteOf(cs)) = Len(cs)
        /\ CompleteOf(ds) \in Seq(Nat) /\ Len(CompleteOf(ds)) = Len(ds)
        /\ CompleteOf(ds)[Len(ds)] = One(row.result.complete)
        /\ \A i \in 1..Len(cs) : CompleteOf(ds)[i] = CompleteOf(cs)[i]
    BY <1>1, <1>b, ListsTyped, ZenonT(30)
  <2>. QED
    BY <1>a, <2>1
<1>4. Total(OfflineOf(ds)) = Total(OfflineOf(cs)) + One(row.result.offline)
  <2>1. /\ OfflineOf(cs) \in Seq(Nat) /\ Len(OfflineOf(cs)) = Len(cs)
        /\ OfflineOf(ds) \in Seq(Nat) /\ Len(OfflineOf(ds)) = Len(ds)
        /\ OfflineOf(ds)[Len(ds)] = One(row.result.offline)
        /\ \A i \in 1..Len(cs) : OfflineOf(ds)[i] = OfflineOf(cs)[i]
    BY <1>1, <1>b, ListsTyped, ZenonT(30)
  <2>. QED
    BY <1>a, <2>1
<1>5. SumOf(ds) = Added(SumOf(cs), row.result)
  BY <1>1, <1>2, <1>3, <1>4 DEF SumOf, Added
<1>. QED
  BY <1>5 DEF ds

LEMMA SumsAreInductive ==
  ASSUME TaskTyping, StatsAreSums, [Next]_vars
  PROVE  StatsAreSums'
<1>1. \A u \in Users : stats[u] = SumOf(counted[u])
  BY DEF StatsAreSums, SumOf, CompleteOf, OfflineOf
<1>2. SUFFICES \A u \in Users : stats'[u] = SumOf(counted'[u])
  BY DEF StatsAreSums, SumOf, CompleteOf, OfflineOf, ReceiptsOf
<1>3. CASE UNCHANGED <<stats, counted>>
  BY <1>1, <1>3
<1>4. ASSUME NEW s \in Sessions, UpdateStats(s)
      PROVE  \A u \in Users : stats'[u] = SumOf(counted'[u])
  <2>. DEFINE u == UserOf[s]
              row == [task |-> Task(s), result |-> Current(s).result]
  <2>1. /\ u \in Users /\ row \in CountedRow /\ row.result = Current(s).result
        /\ counted'[u] = Append(counted[u], row) /\ counted[u] \in Seq(CountedRow)
        /\ \A v \in Users \ {u} : counted'[v] = counted[v]
    BY <1>4, CountedAfter DEF Step
  <2>2. /\ stats'[u] = Added(stats[u], Current(s).result)
        /\ \A v \in Users \ {u} : stats'[v] = stats[v]
    BY <1>4, <2>1 DEF UpdateStats, TaskTyping, TablesTyped
  <2>. HIDE DEF u, row
  <2>3. stats'[u] = SumOf(counted'[u])
    BY <1>1, <2>1, <2>2, SumAppended
  <2>. QED
    BY <1>1, <2>1, <2>2, <2>3
<1>. QED
  BY <1>3, <1>4 DEF Next, vars, Quiescent, Show, ReadHistory, StoreFlags, Record,
     ReadStats, ReadUnlocked, Unlock, UnlockConflicts, AccessRaises

LEMMA InitialSums == Init => StatsAreSums
<1>1. SUFFICES ASSUME Init, NEW u \in Users PROVE stats[u] = SumOf(counted[u])
  BY DEF StatsAreSums, SumOf, CompleteOf, OfflineOf
<1>2. counted[u] = <<>> /\ counted[u] \in Seq(CountedRow) /\ stats[u] = NoUserStats
      /\ Len(counted[u]) = 0
  BY <1>1 DEF Init
<1>3. /\ Total(ReceiptsOf(counted[u])) = 0 /\ Total(CompleteOf(counted[u])) = 0
      /\ Total(OfflineOf(counted[u])) = 0
  BY <1>2, ListsTyped, TotalEmpty
<1>. QED
  BY <1>2, <1>3 DEF SumOf, NoUserStats

\* However a user's sessions interleave, and wherever they raise, no update of the
\* user's statistics is lost (achievements.py:41-53).
THEOREM StatisticsAreSums == Spec => []StatsAreSums
<1>1. Init => StatsAreSums
  BY InitialSums
<1>2. TaskTyping /\ StatsAreSums /\ [Next]_vars => (TaskTyping /\ StatsAreSums)'
  BY TypingIsInductive, SumsAreInductive
<1>. QED
  BY <1>1, <1>2, InitialTyping, PTL DEF Spec

\* A sum of at least one has a number of at least one.
LEMMA TotalPositive ==
  ASSUME NEW v \in Seq(Nat), Total(v) >= 1
  PROVE  \E i \in 1..Len(v) : v[i] >= 1
<1>1. PICK f : IsSum(f, v) /\ Total(v) = f[Len(v)]
  BY TotalIsSum
<1>. DEFINE T == {k \in 0..Len(v) : f[k] # 0}
<1>2. Len(v) \in T
  <2>1. Len(v) \in 0..Len(v)
    OBVIOUS
  <2>. QED
    BY <1>1, <2>1
<1>3. PICK k \in T : \A j \in T : k <= j
  <2>1. T \in SUBSET Nat
    OBVIOUS
  <2>. HIDE DEF T
  <2>. QED
    BY <1>2, <2>1, LeastNumber
<1>4. f[0] = 0
  BY <1>1 DEF IsSum
<1>5. k # 0 /\ k \in 1..Len(v) /\ k - 1 \in 0..Len(v) /\ ~(k <= k - 1)
  BY <1>4
<1>6. f[k - 1] = 0
  BY <1>3, <1>5
<1>7. f[k] = f[k - 1] + v[k]
  <2>1. f[k] = IF k = 0 THEN 0 ELSE f[k - 1] + v[k]
    BY <1>1 DEF IsSum
  <2>. QED
    BY <1>5, <2>1
<1>8. v[k] \in Nat /\ f[k] # 0
  BY <1>5
<1>9. v[k] >= 1
  BY <1>6, <1>7, <1>8
<1>. QED
  BY <1>5, <1>9

\* No number is more than the sum.
LEMMA TotalAtLeast ==
  ASSUME NEW v \in Seq(Nat), NEW i \in 1..Len(v)
  PROVE  v[i] <= Total(v) /\ Total(v) \in Nat /\ v[i] \in Nat
<1>. DEFINE before == SubSeq(v, 1, i - 1)
            upto == SubSeq(v, 1, i)
<1>1. /\ i \in Nat /\ Len(v) \in Nat /\ 1 <= i /\ i <= Len(v) /\ v[i] \in Nat
  OBVIOUS
<1>2. /\ before \in Seq(Nat) /\ upto \in Seq(Nat) /\ Len(before) = i - 1 /\ Len(upto) = i
      /\ \A j \in 1..i : upto[j] = v[j]
      /\ \A j \in 1..(i - 1) : before[j] = v[j]
  BY <1>1
<1>. HIDE DEF before, upto
<1>3. Len(upto) = Len(before) + 1 /\ upto[Len(upto)] = v[i]
      /\ \A j \in 1..Len(before) : upto[j] = before[j]
  <2>1. i \in 1..i /\ (i - 1) + 1 = i /\ \A j \in 1..(i - 1) : j \in 1..i
    BY <1>1
  <2>. QED
    BY <1>2, <2>1
<1>4. Total(before) \in Nat /\ Total(upto) = Total(before) + v[i]
  BY <1>2, <1>3, TotalAppend
<1>5. Total(v) \in Nat /\ Total(upto) \in Nat /\ Total(upto) <= Total(v)
  BY <1>1, <1>2, TotalGrows
<1>. QED
  BY <1>1, <1>4, <1>5

Prefix(cs, ds) == Len(cs) <= Len(ds) /\ \A i \in 1..Len(cs) : ds[i] = cs[i]

\* What was earned stays earned.
LEMMA EarnedGrows ==
  ASSUME NEW cs \in Seq(CountedRow), NEW ds \in Seq(CountedRow), Prefix(cs, ds)
  PROVE  Earned(cs) \subseteq Earned(ds)
<1>1. /\ Len(cs) \in Nat /\ Len(ds) \in Nat /\ 1..Len(cs) \subseteq 1..Len(ds)
      /\ DOMAIN cs = 1..Len(cs) /\ DOMAIN ds = 1..Len(ds)
  BY DEF Prefix
<1>2. {cs[i].result : i \in DOMAIN cs} \subseteq {ds[i].result : i \in DOMAIN ds}
  BY <1>1 DEF Prefix
<1>3. Total(ReceiptsOf(cs)) >= EvidenceGoal => Total(ReceiptsOf(ds)) >= EvidenceGoal
  <2>1. /\ ReceiptsOf(cs) \in Seq(Nat) /\ Len(ReceiptsOf(cs)) = Len(cs)
        /\ ReceiptsOf(ds) \in Seq(Nat) /\ Len(ReceiptsOf(ds)) = Len(ds)
        /\ \A i \in 1..Len(cs) : ReceiptsOf(ds)[i] = ReceiptsOf(cs)[i]
    <3>1. /\ ReceiptsOf(cs) \in Seq(Nat) /\ Len(ReceiptsOf(cs)) = Len(cs)
          /\ \A i \in 1..Len(cs) : ReceiptsOf(cs)[i] = cs[i].result.receipts
      BY ListsTyped
    <3>2. /\ ReceiptsOf(ds) \in Seq(Nat) /\ Len(ReceiptsOf(ds)) = Len(ds)
          /\ \A i \in 1..Len(ds) : ReceiptsOf(ds)[i] = ds[i].result.receipts
      BY ListsTyped
    <3>. QED
      BY <1>1, <3>1, <3>2 DEF Prefix
  <2>2. /\ Total(ReceiptsOf(cs)) \in Nat /\ Total(ReceiptsOf(ds)) \in Nat
        /\ Total(ReceiptsOf(cs)) <= Total(ReceiptsOf(ds))
    BY <2>1, TotalGrows DEF Prefix
  <2>. QED
    BY <2>2, BoundAssumption
<1>. QED
  BY <1>2, <1>3 DEF Earned

\* What the statistics say a user deserves, and what its tasks earned.
LEMMA EarnedIsEligible ==
  ASSUME NEW cs \in Seq(CountedRow)
  PROVE  Earned(cs) \subseteq Eligible(SumOf(cs))
<1>1. /\ Len(cs) \in Nat /\ DOMAIN cs = 1..Len(cs)
      /\ ReceiptsOf(cs) \in Seq(Nat) /\ Len(ReceiptsOf(cs)) = Len(cs)
      /\ CompleteOf(cs) \in Seq(Nat) /\ Len(CompleteOf(cs)) = Len(cs)
      /\ OfflineOf(cs) \in Seq(Nat) /\ Len(OfflineOf(cs)) = Len(cs)
  BY ListsTyped
<1>2. \A i \in 1..Len(cs) : CompleteOf(cs)[i] = One(cs[i].result.complete)
                            /\ OfflineOf(cs)[i] = One(cs[i].result.offline)
  BY ListsTyped
<1>3. DOMAIN cs # {} => Len(cs) >= 1
  BY <1>1
<1>4. ASSUME NEW i \in DOMAIN cs, cs[i].result.complete PROVE Total(CompleteOf(cs)) >= 1
  <2>1. i \in 1..Len(CompleteOf(cs)) /\ CompleteOf(cs)[i] = 1
    BY <1>1, <1>2, <1>4 DEF One
  <2>2. CompleteOf(cs)[i] <= Total(CompleteOf(cs)) /\ Total(CompleteOf(cs)) \in Nat
    BY <1>1, <2>1, TotalAtLeast
  <2>. QED
    BY <2>1, <2>2
<1>5. ASSUME NEW i \in DOMAIN cs, cs[i].result.offline PROVE Total(OfflineOf(cs)) >= 1
  <2>1. i \in 1..Len(OfflineOf(cs)) /\ OfflineOf(cs)[i] = 1
    BY <1>1, <1>2, <1>5 DEF One
  <2>2. OfflineOf(cs)[i] <= Total(OfflineOf(cs)) /\ Total(OfflineOf(cs)) \in Nat
    BY <1>1, <2>1, TotalAtLeast
  <2>. QED
    BY <2>1, <2>2
<1>. QED
  BY <1>3, <1>4, <1>5 DEF Earned, Eligible, SumOf

LEMMA EligibleIsEarned ==
  ASSUME NEW cs \in Seq(CountedRow), \A r \in Results : r.complete => r.verified = r.receipts
  PROVE  Eligible(SumOf(cs)) \subseteq Earned(cs)
<1>1. /\ Len(cs) \in Nat /\ DOMAIN cs = 1..Len(cs)
      /\ CompleteOf(cs) \in Seq(Nat) /\ Len(CompleteOf(cs)) = Len(cs)
      /\ OfflineOf(cs) \in Seq(Nat) /\ Len(OfflineOf(cs)) = Len(cs)
  BY ListsTyped
<1>2. \A i \in 1..Len(cs) : CompleteOf(cs)[i] = One(cs[i].result.complete)
                            /\ OfflineOf(cs)[i] = One(cs[i].result.offline)
  BY ListsTyped
<1>3. \A i \in 1..Len(cs) : cs[i].result \in Results
  <2>1. \A i \in 1..Len(cs) : cs[i] \in CountedRow
    OBVIOUS
  <2>. QED
    BY <2>1 DEF CountedRow
<1>4. Len(cs) >= 1 => DOMAIN cs # {}
  BY <1>1, SMTT(30)
<1>5. ASSUME Total(CompleteOf(cs)) >= 1
      PROVE  \E i \in DOMAIN cs : cs[i].result.complete
                                  /\ cs[i].result.verified = cs[i].result.receipts
  <2>1. PICK i \in 1..Len(cs) : CompleteOf(cs)[i] >= 1
    BY <1>1, <1>5, TotalPositive
  <2>2. cs[i].result.complete
    BY <1>2, <2>1 DEF One
  <2>. QED
    BY <1>1, <1>3, <2>2
<1>6. ASSUME Total(OfflineOf(cs)) >= 1 PROVE \E i \in DOMAIN cs : cs[i].result.offline
  <2>1. PICK i \in 1..Len(cs) : OfflineOf(cs)[i] >= 1
    BY <1>1, <1>6, TotalPositive
  <2>2. cs[i].result.offline
    BY <1>2, <2>1 DEF One
  <2>. QED
    BY <1>1, <2>2
<1>. QED
  BY <1>4, <1>5, <1>6 DEF Earned, Eligible, SumOf

\* The list of what a user counts only grows at its end.
LEMMA CountedGrows ==
  ASSUME TaskTyping, NEW s \in Sessions, Step(s), NEW u \in Users
  PROVE  /\ counted[u] \in Seq(CountedRow) /\ counted'[u] \in Seq(CountedRow)
         /\ Prefix(counted[u], counted'[u])
<1>1. counted[u] \in Seq(CountedRow) /\ counted'[u] \in Seq(CountedRow)
  <2>1. TaskTyping'
    BY TypingIsInductive DEF Next, Step
  <2>. QED
    BY <2>1 DEF TaskTyping, TablesTyped
<1>2. CASE UpdateStats(s) /\ u = UserOf[s]
  <2>1. PICK row \in CountedRow : counted'[u] = Append(counted[u], row)
    BY <1>2, CountedAfter
  <2>. QED
    BY <1>1, <2>1, Appended DEF Prefix
<1>3. CASE counted'[u] = counted[u]
  BY <1>1, <1>3 DEF Prefix
<1>. QED
  BY <1>1, <1>2, <1>3, CountedAfter

\* Nothing is unlocked, or about to be, that the user's tasks did not earn.
EarnedInv ==
  /\ UnlockedIsEarned
  /\ \A s \in Sessions :
       /\ pc[s] = "unlocked" => Eligible(seen[s]) \subseteq Earned(counted[UserOf[s]])
       /\ newIds[s] \subseteq Earned(counted[UserOf[s]])

LEMMA EarnedIsInductive ==
  ASSUME TaskTyping, StatsAreSums, EarnedInv,
         \A r \in Results : r.complete => r.verified = r.receipts,
         NEW s \in Sessions, Step(s)
  PROVE  EarnedInv'
<1>1. \A u \in Users : Earned(counted[u]) \subseteq Earned(counted'[u])
  BY CountedGrows, EarnedGrows
<1>2. \A v \in Sessions : UserOf[v] \in Users
  BY UserAssumption
<1>3. \A u \in Users : unlocked'[u] \subseteq Earned(counted'[u])
  <2>1. CASE Unlock(s)
    <3>1. /\ \A u \in Users : unlocked'[u] \subseteq unlocked[u]
                                \cup (IF u = UserOf[s] THEN newIds[s] ELSE {})
      BY <2>1 DEF Unlock, TaskTyping, TablesTyped
    <3>. QED
      BY <1>1, <1>2, <3>1 DEF EarnedInv, UnlockedIsEarned
  <2>2. CASE UNCHANGED unlocked
    BY <1>1, <2>2 DEF EarnedInv, UnlockedIsEarned
  <2>. QED
    BY <2>1, <2>2 DEF Step, Show, ReadHistory, StoreFlags, Record, UpdateStats, ReadStats,
       ReadUnlocked, UnlockConflicts, AccessRaises
<1>4. Eligible(stats[UserOf[s]]) \subseteq Earned(counted[UserOf[s]])
  <2>1. stats[UserOf[s]] = SumOf(counted[UserOf[s]])
    BY <1>2 DEF StatsAreSums, SumOf, CompleteOf, OfflineOf
  <2>2. counted[UserOf[s]] \in Seq(CountedRow)
    BY <1>2, CountedGrows
  <2>. QED
    BY <2>1, <2>2, EligibleIsEarned
<1>5. \A v \in Sessions : pc'[v] = "unlocked" =>
        Eligible(seen'[v]) \subseteq Earned(counted'[UserOf[v]])
  <2>1. CASE ReadStats(s)
    <3>1. seen'[s] = stats[UserOf[s]]
          /\ \A v \in Sessions \ {s} : pc'[v] = pc[v] /\ seen'[v] = seen[v]
      BY <2>1 DEF ReadStats, Goto, TaskTyping, LocalsTyped
    <3>. QED
      BY <1>1, <1>2, <1>4, <3>1 DEF EarnedInv
  <2>2. CASE ~ReadStats(s)
    <3>1. pc'[s] # "unlocked" /\ \A v \in Sessions \ {s} : pc'[v] = pc[v] /\ seen'[v] = seen[v]
      BY <2>2 DEF Step, Show, ReadHistory, StoreFlags, Record, UpdateStats, ReadUnlocked,
         Unlock, UnlockConflicts, AccessRaises, Leave, Goto, TaskTyping, LocalsTyped
    <3>. QED
      BY <1>1, <1>2, <3>1 DEF EarnedInv
  <2>. QED
    BY <2>1, <2>2
<1>6. \A v \in Sessions : newIds'[v] \subseteq Earned(counted'[UserOf[v]])
  <2>1. \A v \in Sessions \ {s} : newIds'[v] = newIds[v]
    BY DEF Step, Show, ReadHistory, StoreFlags, Record, UpdateStats, ReadStats, ReadUnlocked,
       Unlock, UnlockConflicts, AccessRaises, Leave, TaskTyping, LocalsTyped
  <2>2. newIds'[s] \subseteq Earned(counted[UserOf[s]])
    <3>1. CASE ReadUnlocked(s)
      BY <3>1 DEF ReadUnlocked, EarnedInv, TaskTyping, LocalsTyped
    <3>2. CASE ~ReadUnlocked(s)
      <4>1. newIds'[s] = newIds[s] \/ newIds'[s] = {}
        BY <3>2 DEF Step, Show, ReadHistory, StoreFlags, Record, UpdateStats, ReadStats,
           Unlock, UnlockConflicts, AccessRaises, Leave, TaskTyping, LocalsTyped
      <4>. QED
        BY <4>1 DEF EarnedInv
    <3>. QED
      BY <3>1, <3>2
  <2>. QED
    BY <1>1, <1>2, <2>1, <2>2 DEF EarnedInv
<1>. QED
  BY <1>3, <1>5, <1>6 DEF EarnedInv, UnlockedIsEarned

\* Nobody has a badge the user's tasks did not earn, however old the statistics it
\* was stored by (achievements.py:56-78).  A COMPLETE result has no receipt but
\* verified ones, which is what EvidencePipeline proves of the pipeline.
THEOREM UnlockedBadgesAreEarned ==
  ASSUME \A r \in Results : r.complete => r.verified = r.receipts
  PROVE  Spec => []UnlockedIsEarned
<1>. DEFINE Inv == TaskTyping /\ StatsAreSums /\ EarnedInv
<1>1. Init => Inv
  <2>1. Init => StatsAreSums
    BY InitialSums
  <2>2. Init => EarnedInv
    BY DEF Init, EarnedInv, UnlockedIsEarned
  <2>. QED
    BY <2>1, <2>2, InitialTyping
<1>2. Inv /\ [Next]_vars => Inv'
  <2>. SUFFICES ASSUME Inv, [Next]_vars PROVE EarnedInv'
    BY TypingIsInductive, SumsAreInductive
  <2>1. CASE UNCHANGED vars
    BY <2>1 DEF vars, EarnedInv, UnlockedIsEarned
  <2>2. CASE Quiescent
    BY <2>1, <2>2 DEF Quiescent
  <2>3. ASSUME NEW s \in Sessions, Step(s) PROVE EarnedInv'
    BY <2>3, EarnedIsInductive
  <2>. QED
    BY <2>1, <2>2, <2>3 DEF Next, Step
<1>3. Inv => UnlockedIsEarned
  BY DEF EarnedInv
<1>. QED
  BY <1>1, <1>2, <1>3, PTL DEF Spec

\* What the tasks of its user had earned up to and with task n of s is in set.
EarnedWith(s, n, set) ==
  \E k \in DOMAIN counted[UserOf[s]] :
    /\ counted[UserOf[s]][k].task = <<s, n>>
    /\ Earned(SubSeq(counted[UserOf[s]], 1, k)) \subseteq set

\* From the read of the statistics on, a session has in hand all that was earned
\* up to its own task, although others go on.
LeavesInv ==
  /\ \A s \in Sessions : pc[s] \in {"unlocked", "unlock"} =>
       EarnedWith(s, Len(tasks[s]), Eligible(seen[s]))
  /\ \A s \in Sessions : pc[s] = "unlock" =>
       Eligible(seen[s]) \subseteq newIds[s] \cup unlocked[UserOf[s]]
  /\ \A s \in Sessions : \A n \in 1..Len(tasks[s]) :
       RowOf(s, n).badges # NotYet => EarnedWith(s, n, unlocked[UserOf[s]])

LEMMA StillEarnedWith ==
  ASSUME TaskTyping, NEW s \in Sessions, Step(s), NEW v \in Sessions, NEW n,
         NEW set, NEW larger, set \subseteq larger, EarnedWith(v, n, set)
  PROVE  EarnedWith(v, n, larger)'
<1>. DEFINE u == UserOf[v]
<1>1. u \in Users
  BY UserAssumption
<1>2. /\ counted[u] \in Seq(CountedRow) /\ counted'[u] \in Seq(CountedRow)
      /\ Len(counted[u]) <= Len(counted'[u])
      /\ \A i \in 1..Len(counted[u]) : counted'[u][i] = counted[u][i]
  BY <1>1, CountedGrows DEF Prefix
<1>3. PICK k \in DOMAIN counted[u] : /\ counted[u][k].task = <<v, n>>
                                     /\ Earned(SubSeq(counted[u], 1, k)) \subseteq set
  BY DEF EarnedWith
<1>4. k \in DOMAIN counted'[u] /\ counted'[u][k] = counted[u][k]
  BY <1>2
<1>5. SubSeq(counted'[u], 1, k) = SubSeq(counted[u], 1, k)
  BY <1>2
<1>. QED
  BY <1>3, <1>4, <1>5 DEF EarnedWith

LEMMA LeavesAreInductive ==
  ASSUME TaskTyping, StatsAreSums, CountedInv, LeavesInv, NEW s \in Sessions, Step(s)
  PROVE  LeavesInv'
<1>1. \A v \in Sessions \ {s} : pc'[v] = pc[v] /\ tasks'[v] = tasks[v] /\ seen'[v] = seen[v]
                               /\ newIds'[v] = newIds[v]
  <2>1. \A v \in Sessions \ {s} : pc'[v] = pc[v] /\ tasks'[v] = tasks[v]
    BY RowsAfter
  <2>. QED
    BY <2>1 DEF Step, Show, ReadHistory, StoreFlags, Record, UpdateStats, ReadStats, ReadUnlocked,
       Unlock, UnlockConflicts, AccessRaises, Leave, TaskTyping, LocalsTyped
<1>2. \A u \in Users : unlocked[u] \subseteq unlocked'[u]
  <2>1. CASE Unlock(s)
    BY <2>1 DEF Unlock, TaskTyping, TablesTyped
  <2>2. CASE ~Unlock(s)
    BY <2>2 DEF Step, Show, ReadHistory, StoreFlags, Record, UpdateStats, ReadStats, ReadUnlocked,
       UnlockConflicts, AccessRaises
  <2>. QED
    BY <2>1, <2>2
<1>3. \A v \in Sessions : UserOf[v] \in Users
  BY UserAssumption
<1>4. ASSUME NEW v \in Sessions, pc'[v] \in {"unlocked", "unlock"}
      PROVE  EarnedWith(v, Len(tasks[v]), Eligible(seen[v]))'
  <2>1. CASE v = s /\ ReadStats(s)
    <3>1. UNCHANGED <<counted, tasks>> /\ seen'[s] = stats[UserOf[s]] /\ pc[s] = "stats"
      BY <2>1 DEF ReadStats, TaskTyping, LocalsTyped
    <3>2. PICK k \in DOMAIN counted[UserOf[s]] : counted[UserOf[s]][k].task = Task(s)
      BY <3>1 DEF CountedInv, CountsFirst
    <3>3. counted[UserOf[s]] \in Seq(CountedRow)
      BY <1>3, CountedGrows
    <3>4. /\ SubSeq(counted[UserOf[s]], 1, k) \in Seq(CountedRow)
          /\ Prefix(SubSeq(counted[UserOf[s]], 1, k), counted[UserOf[s]])
      BY <3>3 DEF Prefix
    <3>5. Earned(SubSeq(counted[UserOf[s]], 1, k)) \subseteq Earned(counted[UserOf[s]])
      BY <3>3, <3>4, EarnedGrows
    <3>6. Earned(counted[UserOf[s]]) \subseteq Eligible(SumOf(counted[UserOf[s]]))
      BY <3>3, EarnedIsEligible
    <3>7. stats[UserOf[s]] = SumOf(counted[UserOf[s]])
      BY <1>3 DEF StatsAreSums, SumOf, CompleteOf, OfflineOf
    <3>. QED
      BY <2>1, <3>1, <3>2, <3>5, <3>6, <3>7 DEF EarnedWith, Task
  <2>2. CASE v = s /\ ~ReadStats(s)
    <3>1. ReadUnlocked(s)
      BY <1>4, <2>2 DEF Step, Show, ReadHistory, StoreFlags, Record, UpdateStats,
         Unlock, UnlockConflicts, AccessRaises, Leave, Goto, TaskTyping, LocalsTyped
    <3>2. UNCHANGED <<counted, tasks, seen>> /\ pc[s] = "unlocked"
      BY <3>1 DEF ReadUnlocked
    <3>. QED
      BY <2>2, <3>2 DEF LeavesInv, EarnedWith
  <2>3. CASE v # s
    <3>1. EarnedWith(v, Len(tasks[v]), Eligible(seen[v]))
      BY <1>1, <1>4, <2>3 DEF LeavesInv
    <3>2. \A n, set : EarnedWith(v, n, set) => EarnedWith(v, n, set)'
      BY StillEarnedWith
    <3>3. seen'[v] = seen[v] /\ tasks'[v] = tasks[v]
      BY <1>1, <2>3
    <3>. QED
      BY <3>1, <3>2, <3>3 DEF EarnedWith
  <2>. QED
    BY <2>1, <2>2, <2>3
<1>5. \A v \in Sessions : pc'[v] = "unlock" =>
        Eligible(seen'[v]) \subseteq newIds'[v] \cup unlocked'[UserOf[v]]
  <2>1. CASE ReadUnlocked(s)
    <3>1. /\ newIds'[s] = Eligible(seen[s]) \ unlocked[UserOf[s]] /\ seen' = seen
          /\ unlocked' = unlocked
      BY <2>1 DEF ReadUnlocked, TaskTyping, LocalsTyped
    <3>2. Eligible(seen'[s]) \subseteq newIds'[s] \cup unlocked'[UserOf[s]]
      BY <3>1
    <3>. QED
      BY <1>1, <1>2, <1>3, <3>2 DEF LeavesInv
  <2>2. CASE ~ReadUnlocked(s)
    <3>1. pc'[s] # "unlock"
      BY <2>2 DEF Step, Show, ReadHistory, StoreFlags, Record, UpdateStats, ReadStats,
         Unlock, UnlockConflicts, AccessRaises, Leave, Goto, TaskTyping, LocalsTyped
    <3>. QED
      BY <1>1, <1>2, <1>3, <3>1 DEF LeavesInv
  <2>. QED
    BY <2>1, <2>2
<1>6. ASSUME NEW v \in Sessions, NEW n \in 1..Len(tasks[v]), RowOf(v, n).badges # NotYet
      PROVE  EarnedWith(v, n, unlocked[UserOf[v]])'
  <2>1. EarnedWith(v, n, unlocked[UserOf[v]])
    BY <1>6 DEF LeavesInv
  <2>2. \A set, larger : set \subseteq larger /\ EarnedWith(v, n, set) =>
          EarnedWith(v, n, larger)'
    BY StillEarnedWith
  <2>3. unlocked[UserOf[v]] \subseteq unlocked'[UserOf[v]]
    BY <1>2, <1>3
  <2>. QED
    BY <2>1, <2>2, <2>3 DEF EarnedWith
<1>7. ASSUME NEW v \in Sessions, NEW n \in 1..Len(tasks'[v]), RowOf(v, n)'.badges # NotYet
      PROVE  EarnedWith(v, n, unlocked[UserOf[v]])'
  <2>1. CASE Unlock(s)
    <3>. DEFINE row == [result |-> Current(s).result, anomalies |-> Current(s).anomalies,
                        badges |-> newIds[s]]
    <3>1. /\ row \in TaskRow /\ tasks[s] # <<>>
          /\ tasks' = [tasks EXCEPT ![s] = [tasks[s] EXCEPT ![1] = row]]
      BY <2>1, UnlockedTasks
    <3>. HIDE DEF row
    <3>2. /\ \A w \in Sessions : Len(tasks'[w]) = Len(tasks[w])
          /\ \A w \in Sessions : \A m \in 1..Len(tasks[w]) :
               w # s \/ m # Len(tasks[s]) => RowOf(w, m)' = RowOf(w, m)
      BY <3>1, RowsSet DEF TaskTyping
    <3>3. CASE v = s /\ n = Len(tasks[s])
      <4>1. /\ EarnedWith(v, n, Eligible(seen[s])) /\ UNCHANGED counted
            /\ Eligible(seen[s]) \subseteq newIds[s] \cup unlocked[UserOf[s]]
        BY <2>1, <3>3 DEF Unlock, LeavesInv
      <4>2. unlocked'[UserOf[s]] = unlocked[UserOf[s]] \cup newIds[s]
        BY <1>3, <2>1 DEF Unlock, TaskTyping, TablesTyped
      <4>. QED
        BY <3>3, <4>1, <4>2 DEF EarnedWith
    <3>4. CASE ~(v = s /\ n = Len(tasks[s]))
      <4>1. n \in 1..Len(tasks[v]) /\ RowOf(v, n)' = RowOf(v, n)
        BY <3>2, <3>4
      <4>. QED
        BY <1>6, <1>7, <4>1
    <3>. QED
      BY <3>3, <3>4
  <2>2. CASE ~Unlock(s)
    <3>1. /\ n \in 1..Len(tasks[v]) \/ RowOf(v, n)'.badges = NotYet
          /\ n \in 1..Len(tasks[v]) => RowOf(v, n)'.badges = RowOf(v, n).badges
      BY <2>2, QuietBadges DEF Step
    <3>. QED
      BY <1>6, <1>7, <3>1
  <2>. QED
    BY <2>1, <2>2
<1>. QED
  BY <1>4, <1>5, <1>7 DEF LeavesInv

\* A task that returned its badges left none behind that its user had earned up to
\* and with it, in whichever session (achievements.py:54-79).
THEOREM ReturnsLeaveNone == Spec => []ReturnedTaskLeavesNone
<1>. DEFINE Inv == RecordInv /\ StatsAreSums /\ LeavesInv
<1>1. Init => Inv
  <2>1. Init => LeavesInv
    BY DEF Init, LeavesInv
  <2>. QED
    BY <2>1, InitialRecords, InitialSums
<1>2. Inv /\ [Next]_vars => Inv'
  <2>. SUFFICES ASSUME Inv, [Next]_vars PROVE LeavesInv'
    BY RecordsAreInductive, SumsAreInductive DEF RecordInv
  <2>1. CASE UNCHANGED vars
    BY <2>1 DEF vars, LeavesInv, EarnedWith, RowOf
  <2>2. CASE Quiescent
    BY <2>1, <2>2 DEF Quiescent
  <2>3. ASSUME NEW s \in Sessions, Step(s) PROVE LeavesInv'
    BY <2>3, LeavesAreInductive DEF RecordInv
  <2>. QED
    BY <2>1, <2>2, <2>3 DEF Next, Step
<1>3. Inv => ReturnedTaskLeavesNone
  <2>1. SUFFICES
          ASSUME Inv, NEW s \in Sessions, NEW i \in DOMAIN tasks[s],
                 tasks[s][i].badges # NotYet
          PROVE  LET u == UserOf[s]
                     id == <<s, Len(tasks[s]) - i + 1>>
                     n == CHOOSE k \in DOMAIN counted[u] : counted[u][k].task = id
                 IN Earned(SubSeq(counted[u], 1, n)) \subseteq unlocked[u]
    BY DEF ReturnedTaskLeavesNone
  <2>. DEFINE u == UserOf[s]
              n == Len(tasks[s]) - i + 1
              id == <<s, n>>
              k == CHOOSE j \in DOMAIN counted[u] : counted[u][j].task = id
  <2>2. i \in 1..Len(tasks[s]) /\ Len(tasks[s]) \in Nat
    BY <2>1 DEF RecordInv, TaskTyping, TasksTyped
  <2>3. n \in 1..Len(tasks[s]) /\ RowOf(s, n) = tasks[s][i]
    <3>1. n \in 1..Len(tasks[s]) /\ Len(tasks[s]) - n + 1 = i
      <4>1. \A a \in Nat : \A j \in 1..a : a - j + 1 \in 1..a /\ a - (a - j + 1) + 1 = j
        OBVIOUS
      <4>. QED
        BY <2>2, <4>1
    <3>. HIDE DEF n
    <3>. QED
      BY <3>1 DEF RowOf
  <2>4. EarnedWith(s, n, unlocked[u])
    BY <2>1, <2>3 DEF LeavesInv
  <2>5. PICK j \in DOMAIN counted[u] : /\ counted[u][j].task = id
                                       /\ Earned(SubSeq(counted[u], 1, j)) \subseteq unlocked[u]
    BY <2>4 DEF EarnedWith
  <2>6. u \in Users
    BY UserAssumption
  <2>. HIDE DEF id, u
  <2>7. k \in DOMAIN counted[u] /\ counted[u][k].task = id
    BY <2>5
  <2>8. k = j
    BY <2>1, <2>5, <2>6, <2>7 DEF RecordInv, CountedInv, CountsOnce
  <2>. QED
    BY <2>5, <2>8 DEF id, u
<1>. QED
  BY <1>1, <1>2, <1>3, PTL DEF Spec
-----------------------------------------------------------------------------
(* What is flagged is news.  A number among n whose mean and variance are   *)
(* known is within sqrt(n - 1) standard deviations of that mean: with ten   *)
(* rows at most, within three.                                              *)

\* Squares are ordered as their roots are.
LEMMA RootsAreOrdered ==
  ASSUME NEW a \in Nat, NEW b \in Nat, Square(a) <= Square(b)
  PROVE  a <= b
<1>1. SUFFICES ASSUME b + 1 <= a PROVE FALSE
  OBVIOUS
<1>2. (b + 1) * (b + 1) <= a * (b + 1) /\ a * (b + 1) <= a * a
  BY <1>1
<1>3. (b + 1) * (b + 1) = b * b + 2 * b + 1
  OBVIOUS
<1>. QED
  BY <1>2, <1>3 DEF Square

LEMMA SquaresAreOrdered ==
  ASSUME NEW a \in Nat, NEW b \in Nat, a <= b
  PROVE  Square(a) <= Square(b)
<1>1. a * a <= a * b /\ a * b <= b * b
  OBVIOUS
<1>. QED
  BY <1>1 DEF Square

\* The inequality of Cauchy and Schwarz, one number at a time: c numbers with the
\* sum s have at least the sum of squares q with s^2 <= c q, and so with x added.
LEMMA OneMore ==
  ASSUME NEW s \in Nat, NEW q \in Nat, NEW c \in Nat, NEW x \in Nat,
         Square(s) <= c * q
  PROVE  Square(s + x) <= (c + 1) * (q + Square(x))
<1>. DEFINE y == x * x
            z == c * y
<1>0. y \in Nat /\ z \in Nat /\ s * s \in Nat /\ c * q \in Nat /\ s * s <= c * q
  BY DEF Square
<1>1. Square(2 * s * x) = 4 * ((s * s) * y)
  BY DEF Square
<1>2. (s * s) * y <= (c * q) * y
  <2>. HIDE DEF y
  <2>1. \A a, b, d \in Nat : a <= b => a * d <= b * d
    OBVIOUS
  <2>. QED
    BY <1>0, <2>1
<1>3. (c * q) * y = q * z
  OBVIOUS
<1>4. 4 * (q * z) <= Square(q + z)
  <2>. HIDE DEF z
  <2>1. \A a, b \in Int : Square(a + b) = 4 * (a * b) + Square(a - b)
    BY DEF Square
  <2>2. Square(q - z) >= 0
    BY <1>0 DEF Square
  <2>. QED
    BY <1>0, <2>1, <2>2 DEF Square
<1>5. 2 * s * x <= q + z
  <2>. HIDE DEF z, y
  <2>1. Square(2 * s * x) <= Square(q + z)
    BY <1>0, <1>1, <1>2, <1>3, <1>4 DEF Square
  <2>2. 2 * s * x \in Nat /\ q + z \in Nat
    BY <1>0
  <2>. QED
    BY <2>1, <2>2, RootsAreOrdered
<1>6. Square(s + x) = s * s + 2 * s * x + y
  BY DEF Square
<1>7. (c + 1) * (q + Square(x)) = c * q + z + q + y
  BY DEF Square
<1>. QED
  <2>. HIDE DEF y, z
  <2>1. s * s \in Nat /\ 2 * s * x \in Nat /\ c * q \in Nat
    BY <1>0
  <2>. QED
    BY <1>0, <1>5, <1>6, <1>7, <2>1

\* A number a beside c others with the sum s and the sum of squares q.
LEMMA NearTheMean ==
  ASSUME NEW s \in Nat, NEW q \in Nat, NEW c \in Nat, NEW a \in Nat, Square(s) <= c * q
  PROVE  Square((c + 1) * a - (a + s)) <= c * ((c + 1) * (Square(a) + q) - Square(a + s))
<1>. DEFINE d == c * q - s * s
<1>1. d \in Nat /\ (c + 1) * d >= 0
  BY DEF Square
<1>2. c * ((c + 1) * (Square(a) + q) - Square(a + s)) - Square((c + 1) * a - (a + s)) = (c + 1) * d
  BY DEF Square
<1>3. c * ((c + 1) * (Square(a) + q) - Square(a + s)) \in Int /\ Square((c + 1) * a - (a + s)) \in Int
  BY DEF Square
<1>. QED
  BY <1>1, <1>2, <1>3

\* The sums over the first m of v, without the k-th once m has come to it.
LEMMA SumsOfOthers ==
  ASSUME NEW v \in Seq(Nat), NEW k \in 1..Len(v), NEW f, NEW g,
         IsSum(f, v), IsSum(g, Squares(v))
  PROVE  /\ f[Len(v)] - v[k] \in Nat /\ g[Len(v)] - Square(v[k]) \in Nat
         /\ Square(f[Len(v)] - v[k]) <= (Len(v) - 1) * (g[Len(v)] - Square(v[k]))
<1>. DEFINE N == Len(v)
            a == v[k]
            before(m) == /\ f[m] \in Nat /\ g[m] \in Nat
                         /\ Square(f[m]) <= m * g[m]
            after(m) == /\ f[m] - a \in Nat /\ g[m] - Square(a) \in Nat
                        /\ Square(f[m] - a) <= (m - 1) * (g[m] - Square(a))
            good(m) == IF m < k THEN before(m) ELSE after(m) /\ f[m] \in Nat /\ g[m] \in Nat
            T == {m \in 0..N : ~good(m)}
<1>1. N \in Nat /\ k \in 1..N /\ k \in Nat /\ a \in Nat /\ Len(Squares(v)) = N
      /\ Square(a) \in Nat
  BY DEF Squares, Square
<1>2. ASSUME NEW m \in 1..N
      PROVE  /\ v[m] \in Nat /\ Square(v[m]) \in Nat
             /\ f[m] = f[m - 1] + v[m] /\ g[m] = g[m - 1] + Square(v[m])
  <2>1. v[m] \in Nat /\ Squares(v)[m] = Square(v[m])
    BY DEF Squares
  <2>2. Square(v[m]) \in Nat
    BY <2>1 DEF Square
  <2>3. m \in 0..Len(v) /\ m \in 0..Len(Squares(v)) /\ m # 0
    BY <1>1
  <2>4. f[m] = IF m = 0 THEN 0 ELSE f[m - 1] + v[m]
    BY <2>3 DEF IsSum
  <2>5. g[m] = IF m = 0 THEN 0 ELSE g[m - 1] + Squares(v)[m]
    BY <2>3 DEF IsSum
  <2>. QED
    BY <2>1, <2>2, <2>3, <2>4, <2>5
<1>3. f[0] = 0 /\ g[0] = 0
  BY <1>1 DEF IsSum
<1>4. SUFFICES ASSUME NEW m \in 0..N, ~good(m), \A j \in 0..N : good(j) \/ m <= j
               PROVE  FALSE
  <2>1. T \in SUBSET Nat
    BY <1>1
  <2>2. N \notin T => after(N)
    BY <1>1
  <2>3. T = {}
    <3>. HIDE DEF good
    <3>1. ASSUME NEW n \in T, \A j \in T : n <= j PROVE FALSE
      BY <3>1, <1>4
    <3>. HIDE DEF T
    <3>. QED
      BY <2>1, <3>1, LeastNumber
  <2>. HIDE DEF T, after
  <2>4. after(N)
    BY <2>2, <2>3
  <2>. QED
    BY <2>4 DEF after
<1>5. good(0)
  BY <1>1, <1>3 DEF Square
<1>. HIDE DEF before, after, good
<1>6. m # 0 /\ m \in 1..N /\ m - 1 \in 0..N /\ m \in Nat /\ ~(m <= m - 1)
  BY <1>1, <1>4, <1>5
<1>. DEFINE x == v[m]
<1>7. /\ x \in Nat /\ f[m] = f[m - 1] + x /\ g[m] = g[m - 1] + Square(x) /\ Square(x) \in Nat
  BY <1>2, <1>6
<1>8. IF m - 1 < k THEN before(m - 1)
                   ELSE after(m - 1) /\ f[m - 1] \in Nat /\ g[m - 1] \in Nat
  BY <1>4, <1>6 DEF good
<1>9. f[m - 1] \in Nat /\ g[m - 1] \in Nat /\ f[m] \in Nat /\ g[m] \in Nat
  <2>1. f[m - 1] \in Nat /\ g[m - 1] \in Nat
    BY <1>8 DEF before
  <2>2. \A p, r \in Nat : p + r \in Nat
    OBVIOUS
  <2>. HIDE DEF x
  <2>. QED
    BY <1>7, <2>1, <2>2
<1>10. ASSUME m < k PROVE good(m)
  <2>1. Square(f[m - 1]) <= (m - 1) * g[m - 1]
    <3>1. m - 1 < k
      BY <1>1, <1>6, <1>10
    <3>2. before(m - 1)
      BY <1>8, <3>1
    <3>. QED
      BY <3>2 DEF before
  <2>2. Square(f[m - 1] + x) <= ((m - 1) + 1) * (g[m - 1] + Square(x))
    <3>1. m - 1 \in Nat
      BY <1>6
    <3>. HIDE DEF x
    <3>. QED
      BY <3>1, <1>7, <1>9, <2>1, OneMore
  <2>3. before(m)
    BY <1>6, <1>7, <1>9, <2>2 DEF before
  <2>. QED
    BY <1>10, <2>3 DEF good
<1>11. ASSUME m = k PROVE good(m)
  <2>1. x = a
    BY <1>11
  <2>2. f[m] - a = f[m - 1] /\ g[m] - Square(a) = g[m - 1]
    <3>1. \A p, r \in Nat : (p + r) - r = p
      OBVIOUS
    <3>. QED
      BY <1>1, <1>7, <1>9, <2>1, <3>1, SMTT(30)
  <2>3. Square(f[m - 1]) <= (m - 1) * g[m - 1]
    <3>1. m - 1 < k
      BY <1>1, <1>6, <1>11
    <3>2. before(m - 1)
      BY <1>8, <3>1
    <3>. QED
      BY <3>2 DEF before
  <2>4. after(m)
    BY <1>9, <2>2, <2>3 DEF after
  <2>. QED
    BY <1>1, <1>9, <1>11, <2>4 DEF good
<1>12. ASSUME k < m PROVE good(m)
  <2>. DEFINE s == f[m - 1] - a
              q == g[m - 1] - Square(a)
              c == (m - 1) - 1
  <2>1. after(m - 1)
    BY <1>1, <1>6, <1>8, <1>12
  <2>2. s \in Nat /\ q \in Nat /\ c \in Nat
    BY <1>1, <1>6, <1>12, <2>1 DEF after
  <2>3. Square(s) <= c * q
    BY <2>1 DEF after
  <2>4. Square(s + x) <= (c + 1) * (q + Square(x))
    <3>1. x \in Nat
      BY <1>7
    <3>. HIDE DEF s, q, c, x
    <3>. QED
      BY <3>1, <2>2, <2>3, OneMore
  <2>5. f[m] - a = s + x /\ g[m] - Square(a) = q + Square(x) /\ m - 1 = c + 1
    <3>1. \A p, r, e \in Nat : (p + r) - e = (p - e) + r
      OBVIOUS
    <3>2. m - 1 = c + 1
      BY <1>6
    <3>3. f[m] - a = s + x
      <4>1. f[m] - a = (f[m - 1] + x) - a
        BY <1>7
      <4>. HIDE DEF x, a
      <4>. QED
        BY <1>1, <1>7, <1>9, <3>1, <4>1
    <3>4. g[m] - Square(a) = q + Square(x)
      <4>1. g[m] - Square(a) = (g[m - 1] + Square(x)) - Square(a)
        BY <1>7
      <4>. HIDE DEF x, a
      <4>. QED
        BY <1>1, <1>7, <1>9, <3>1, <4>1
    <3>. QED
      BY <3>2, <3>3, <3>4
  <2>6. f[m] - a \in Nat /\ g[m] - Square(a) \in Nat
    <3>1. \A p, r \in Nat : p + r \in Nat
      OBVIOUS
    <3>. HIDE DEF s, q, c, x
    <3>. QED
      BY <1>7, <2>2, <2>5, <3>1
  <2>7. Square(f[m] - a) <= (m - 1) * (g[m] - Square(a))
    <3>. HIDE DEF s, q, c, x, a
    <3>. QED
      BY <2>4, <2>5
  <2>8. after(m)
    BY <2>6, <2>7 DEF after
  <2>. QED
    BY <1>1, <1>6, <1>9, <1>12, <2>8 DEF good
<1>13. good(m) => FALSE
  BY <1>4
<1>14. m < k \/ m = k \/ k < m
  BY <1>1, <1>6
<1>. QED
  BY <1>10, <1>11, <1>12, <1>13, <1>14

\* A number among ten or fewer is within three standard deviations of their mean.
LEMMA MemberIsNear ==
  ASSUME NEW v \in Seq(Nat), Len(v) <= 10, NEW k \in 1..Len(v),
         NEW S, S = Total(v), NEW Q, Q = Total(Squares(v))
  PROVE  /\ S \in Nat /\ Q \in Nat
         /\ Square(Len(v) * v[k] - S) <= 9 * (Len(v) * Q - Square(S))
<1>0. Squares(v) \in Seq(Nat) /\ Len(Squares(v)) = Len(v)
  BY DEF Squares, Square
<1>1. PICK f : IsSum(f, v) /\ Total(v) = f[Len(v)]
  BY TotalIsSum
<1>2. PICK g : IsSum(g, Squares(v)) /\ Total(Squares(v)) = g[Len(Squares(v))]
  BY <1>0, TotalIsSum
<1>. DEFINE a == v[k]
            s == S - a
            q == Q - Square(a)
            c == Len(v) - 1
<1>3. /\ s \in Nat /\ q \in Nat /\ Square(s) <= c * q
  BY <1>0, <1>1, <1>2, SumsOfOthers
<1>4. a \in Nat /\ Square(a) \in Nat /\ c \in Nat /\ c <= 9 /\ Len(v) = c + 1
  BY DEF Square
<1>5. S \in Nat /\ Q \in Nat
  <2>1. Total(v) \in Nat /\ Total(Squares(v)) \in Nat
    BY <1>0, TotalGrows
  <2>. QED
    BY <2>1
<1>6. S = a + s /\ Q = Square(a) + q
  <2>1. \A p, r \in Nat : p = r + (p - r)
    OBVIOUS
  <2>. QED
    BY <1>4, <1>5, <2>1
<1>. HIDE DEF a, s, q, c
<1>. DEFINE D == (c + 1) * (Square(a) + q) - Square(a + s)
<1>7. Square((c + 1) * a - (a + s)) <= c * D
  BY <1>3, <1>4, NearTheMean
<1>8. D \in Nat
  <2>1. Square(s + a) <= (c + 1) * (q + Square(a))
    BY <1>3, <1>4, OneMore
  <2>2. s + a = a + s /\ q + Square(a) = Square(a) + q
    BY <1>3, <1>4
  <2>3. Square(a + s) \in Nat /\ (c + 1) * (Square(a) + q) \in Nat
    BY <1>3, <1>4 DEF Square
  <2>. QED
    BY <2>1, <2>2, <2>3
<1>9. c * D <= 9 * D
  <2>. HIDE DEF D
  <2>. QED
    BY <1>4, <1>8
<1>10. Square((c + 1) * a - (a + s)) <= 9 * D
  <2>1. Square((c + 1) * a - (a + s)) \in Int /\ c * D \in Int /\ 9 * D \in Int
    <3>1. (c + 1) * a - (a + s) \in Int
      BY <1>3, <1>4
    <3>. HIDE DEF D
    <3>. QED
      BY <1>4, <1>8, <3>1 DEF Square
  <2>. HIDE DEF D
  <2>. QED
    BY <1>7, <1>9, <2>1
<1>. QED
  BY <1>4, <1>5, <1>6, <1>10 DEF a

\* So is a number between two of them.
LEMMA RangeIsNear ==
  ASSUME NEW v \in Seq(Nat), Len(v) <= 10, NEW i \in 1..Len(v), NEW j \in 1..Len(v),
         NEW t \in Nat, v[i] <= t, t <= v[j],
         NEW S, S = Total(v), NEW Q, Q = Total(Squares(v))
  PROVE  Square(Len(v) * t - S) <= 9 * (Len(v) * Q - Square(S))
<1>. DEFINE n == Len(v)
            bound == 9 * (n * Q - Square(S))
            at(x) == n * x - S
<1>1. S \in Nat /\ Q \in Nat
  BY MemberIsNear
<1>2. Square(at(v[i])) <= bound /\ Square(at(v[j])) <= bound
  BY MemberIsNear
<1>3. n \in Nat /\ v[i] \in Nat /\ v[j] \in Nat
  <2>1. Len(v) \in Nat /\ \A k \in 1..Len(v) : v[k] \in Nat
    OBVIOUS
  <2>. QED
    BY <2>1
<1>4. \A x, y \in Nat : x <= y => at(x) \in Int /\ at(y) \in Int /\ at(x) <= at(y)
  <2>1. ASSUME NEW x \in Nat, NEW y \in Nat, x <= y PROVE n * x <= n * y
    <3>. HIDE DEF n
    <3>. QED
      BY <1>3, <2>1
  <2>2. \A x \in Nat : n * x \in Nat
    <3>. HIDE DEF n
    <3>. QED
      BY <1>3
  <2>3. \A p, r, e \in Nat : p <= r => p - e \in Int /\ r - e \in Int /\ p - e <= r - e
    OBVIOUS
  <2>. HIDE DEF n
  <2>. QED
    BY <1>1, <2>1, <2>2, <2>3
<1>5. bound \in Int
  <2>1. \A p, r, e \in Nat : 9 * (p * r - Square(e)) \in Int
    BY DEF Square
  <2>. HIDE DEF n
  <2>. QED
    BY <1>1, <1>3, <2>1
<1>6. \A x, y, z \in Int : x <= y /\ y <= z => Square(y) <= Square(x) \/ Square(y) <= Square(z)
  <2>. SUFFICES ASSUME NEW x \in Int, NEW y \in Int, NEW z \in Int, x <= y, y <= z
                PROVE  Square(y) <= Square(x) \/ Square(y) <= Square(z)
    OBVIOUS
  <2>1. CASE y >= 0
    BY <2>1, SquaresAreOrdered
  <2>2. CASE y < 0
    <3>1. 0 - y \in Nat /\ 0 - x \in Nat /\ 0 - y <= 0 - x
      BY <2>2
    <3>2. Square(0 - y) <= Square(0 - x)
      BY <3>1, SquaresAreOrdered
    <3>3. Square(0 - y) = Square(y) /\ Square(0 - x) = Square(x)
      BY DEF Square
    <3>. QED
      BY <3>2, <3>3
  <2>. QED
    BY <2>1, <2>2
<1>7. \A x \in Int : Square(x) \in Int
  BY DEF Square
<1>. HIDE DEF n, bound, at
<1>8. at(v[i]) \in Int /\ at(t) \in Int /\ at(v[j]) \in Int /\ at(v[i]) <= at(t) /\ at(t) <= at(v[j])
  BY <1>3, <1>4
<1>9. Square(at(t)) <= bound
  <2>1. Square(at(t)) <= Square(at(v[i])) \/ Square(at(t)) <= Square(at(v[j]))
    BY <1>6, <1>8
  <2>2. Square(at(t)) \in Int /\ Square(at(v[i])) \in Int /\ Square(at(v[j])) \in Int
    BY <1>7, <1>8
  <2>3. \A p, r, e \in Int : p <= r /\ r <= e => p <= e
    OBVIOUS
  <2>. QED
    BY <1>2, <1>5, <2>1, <2>2, <2>3
<1>. QED
  BY <1>9 DEF at, bound, n

LEMMA SumSteps ==
  ASSUME NEW v \in Seq(Nat), NEW f, IsSum(f, v)
  PROVE  \A n \in 0..Len(v) : f[n] = IF n = 0 THEN 0 ELSE f[n - 1] + v[n]
BY DEF IsSum

\* With one number of 667 at most, the mean of six or fewer is 950 at most.
LEMMA LowMean ==
  ASSUME NEW v \in Seq(Nat), \A i \in 1..Len(v) : v[i] <= 1000,
         NEW k \in 1..Len(v), v[k] <= 667, Len(v) <= 6
  PROVE  ~(Total(v) > 950 * Len(v))
<1>. DEFINE N == Len(v)
<1>0. N \in Nat /\ k \in 1..N /\ \A i \in 1..N : v[i] \in Nat
  OBVIOUS
<1>1. PICK f : IsSum(f, v) /\ Total(v) = f[N]
  BY <1>0, TotalIsSum
<1>5. \A n \in 0..N : f[n] = IF n = 0 THEN 0 ELSE f[n - 1] + v[n]
  BY <1>1, SumSteps
<1>. DEFINE good(m) == f[m] \in Nat /\ f[m] <= 1000 * m /\ (k <= m => f[m] + 333 <= 1000 * m)
            T == {m \in 0..N : ~good(m)}
<1>2. good(N)
  <2>1. SUFFICES ASSUME NEW m \in 0..N, ~good(m), \A j \in 0..N : good(j) \/ m <= j
                 PROVE  FALSE
    <3>. HIDE DEF good
    <3>1. T \in SUBSET Nat
      BY <1>0
    <3>2. ASSUME NEW n \in T, \A j \in T : n <= j PROVE FALSE
      BY <3>2, <2>1
    <3>3. T = {}
      <4>. HIDE DEF T
      <4>. QED
        BY <3>1, <3>2, LeastNumber
    <3>4. N \in 0..N
      BY <1>0
    <3>. QED
      BY <3>3, <3>4
  <2>2. good(0)
    BY <1>0, <1>1 DEF IsSum
  <2>. HIDE DEF good
  <2>3. m # 0 /\ m \in 1..N /\ m - 1 \in 0..N /\ m \in Nat /\ ~(m <= m - 1)
    BY <1>0, <2>1, <2>2
  <2>4. good(m - 1)
    BY <2>1, <2>3
  <2>5. f[m] = f[m - 1] + v[m]
    BY <1>5, <2>3
  <2>6. v[m] \in Nat /\ v[m] <= 1000 /\ (m = k => v[m] <= 667)
    BY <1>0, <2>3
  <2>7. f[m - 1] \in Nat /\ f[m - 1] <= 1000 * (m - 1) /\ (k <= m - 1 => f[m - 1] + 333 <= 1000 * (m - 1))
    BY <2>4 DEF good
  <2>8. k \in Nat
    BY <1>0
  <2>. DEFINE p == f[m - 1]
              x == v[m]
  <2>9. p + x \in Nat /\ p + x <= 1000 * m /\ (k <= m => p + x + 333 <= 1000 * m)
    <3>1. /\ p \in Nat /\ p <= 1000 * (m - 1) /\ (k <= m - 1 => p + 333 <= 1000 * (m - 1))
          /\ x \in Nat /\ x <= 1000 /\ (m = k => x <= 667)
      BY <2>6, <2>7
    <3>. HIDE DEF p, x
    <3>. QED
      BY <2>3, <2>8, <3>1
  <2>10. good(m)
    BY <2>5, <2>9 DEF good
  <2>. QED
    BY <2>1, <2>10
<1>3. f[N] \in Nat /\ f[N] + 333 <= 1000 * N
  BY <1>0, <1>2
<1>. HIDE DEF N
<1>4. \A p, n \in Nat : p + 333 <= 1000 * n /\ n <= 6 => ~(p > 950 * n)
  OBVIOUS
<1>. QED
  BY <1>0, <1>1, <1>3, <1>4 DEF N

\* Of three receipts or fewer, two thirds at most are verified unless all are.
LEMMA LowRate ==
  ASSUME NEW r \in Results, r.receipts <= 3, Rate(r) < 900
  PROVE  Rate(r) <= 667
<1>. DEFINE n == r.receipts
            p == r.verified
<1>1. n \in Nat /\ p \in Nat /\ p <= n /\ n <= 3
  BY ResultAssumption DEF TaskResults
<1>2. Rate(r) = IF n = 0 THEN 0 ELSE (2000 * p + n) \div (2 * n)
  BY DEF Rate
<1>. HIDE DEF n, p
<1>3. n = 0 \/ n = 1 \/ n = 2 \/ n = 3
  BY <1>1
<1>4. CASE n = 0
  BY <1>2, <1>4
<1>5. CASE n = 1
  BY <1>1, <1>2, <1>5
<1>6. CASE n = 2
  BY <1>1, <1>2, <1>6
<1>7. CASE n = 3
  BY <1>1, <1>2, <1>7
<1>. QED
  BY <1>3, <1>4, <1>5, <1>6, <1>7

LEMMA HistoryNumbers ==
  ASSUME NEW e \in HistoryRow
  PROVE  e.time \in Nat /\ e.rate \in Nat /\ e.rate <= 1000
<1>. DEFINE a == e.rate
<1>1. e.time \in Nat /\ a \in 0..1000
  BY DEF HistoryRow
<1>. HIDE DEF a
<1>2. a \in Nat /\ a <= 1000
  BY <1>1
<1>. QED
  BY <1>1, <1>2 DEF a

\* A comparison with at most ten rows flags a time outside their range only, and
\* one with at most six a drop of the rate only if none of them is a drop.
LEMMA FindingsAreNews ==
  ASSUME NEW rs \in Seq(HistoryRow), NEW r \in Results, NEW f \in Findings(rs, r)
  PROVE  /\ f.kind = "UNUSUAL_EXECUTION_TIME" /\ Len(rs) <= 10 =>
              \/ \A i \in DOMAIN rs : rs[i].time < r.time
              \/ \A i \in DOMAIN rs : rs[i].time > r.time
         /\ f.kind = "VERIFICATION_RATE_DROP" /\ Len(rs) <= 6
            /\ (\A i \in DOMAIN rs : \E h \in Results : h.receipts <= 3 /\ rs[i].rate = Rate(h)) =>
              \A i \in DOMAIN rs : rs[i].rate >= 900
<1>0. /\ r.time \in Nat /\ DOMAIN rs = 1..Len(rs) /\ Len(rs) \in Nat
      /\ \A i \in 1..Len(rs) : rs[i].time \in Nat /\ rs[i].rate \in Nat /\ rs[i].rate <= 1000
  <2>1. r.time \in Nat
    BY ResultAssumption DEF TaskResults
  <2>2. \A i \in 1..Len(rs) : rs[i] \in HistoryRow
    OBVIOUS
  <2>3. \A i \in 1..Len(rs) : rs[i].time \in Nat /\ rs[i].rate \in Nat /\ rs[i].rate <= 1000
    <3>. DEFINE good(e) == e.time \in Nat /\ e.rate \in Nat /\ e.rate <= 1000
    <3>1. \A e \in HistoryRow : good(e)
      BY HistoryNumbers
    <3>2. \A i \in 1..Len(rs) : good(rs[i])
      <4>. HIDE DEF good
      <4>. QED
        BY <2>2, <3>1
    <3>. QED
      BY <3>2
  <2>4. DOMAIN rs = 1..Len(rs) /\ Len(rs) \in Nat
    OBVIOUS
  <2>. QED
    BY <2>1, <2>3, <2>4
<1>1. /\ f.kind = "UNUSUAL_EXECUTION_TIME" => UnusualTime(rs, r.time)
      /\ f.kind = "VERIFICATION_RATE_DROP" => RateDrop(rs, Rate(r))
  BY DEF Findings
<1>2. ASSUME f.kind = "UNUSUAL_EXECUTION_TIME", Len(rs) <= 10,
             NEW i \in 1..Len(rs), NEW j \in 1..Len(rs),
             rs[i].time <= r.time, r.time <= rs[j].time
      PROVE  FALSE
  <2>. DEFINE v == Times(rs)
              S == Total(v)
              Q == Total(Squares(v))
  <2>1. v \in Seq(Nat) /\ Len(v) = Len(rs) /\ \A e \in 1..Len(rs) : v[e] = rs[e].time
    BY <1>0 DEF Times
  <2>2. S \in Nat /\ Q \in Nat /\ Square(Len(rs) * r.time - S) <= 9 * (Len(rs) * Q - Square(S))
    <3>. HIDE DEF v
    <3>1. v[i] <= r.time /\ r.time <= v[j] /\ i \in 1..Len(v) /\ j \in 1..Len(v) /\ Len(v) <= 10
      BY <1>2, <2>1
    <3>2. S \in Nat /\ Q \in Nat
      BY <2>1, <3>1, MemberIsNear
    <3>3. Square(Len(v) * r.time - S) <= 9 * (Len(v) * Q - Square(S))
      BY <1>0, <2>1, <3>1, RangeIsNear
    <3>. QED
      BY <2>1, <3>2, <3>3
  <2>3. Square(Len(rs) * r.time - S) > 9 * (Len(rs) * Q - Square(S))
    BY <1>1, <1>2 DEF UnusualTime, Deviation, Spread
  <2>. HIDE DEF S, Q
  <2>4. \A n, t, p, q \in Nat : Square(n * t - p) \in Int /\ 9 * (n * q - Square(p)) \in Int
    BY DEF Square
  <2>5. \A a, b \in Int : ~(a <= b /\ a > b)
    OBVIOUS
  <2>6. Square(Len(rs) * r.time - S) \in Int /\ 9 * (Len(rs) * Q - Square(S)) \in Int
    BY <1>0, <2>2, <2>4, ZenonT(30)
  <2>. QED
    BY <2>2, <2>3, <2>5, <2>6
<1>. DEFINE rates == [e \in 1..Len(rs) |-> rs[e].rate]
<1>3. /\ rates \in Seq(Nat) /\ Len(rates) = Len(rs)
      /\ \A e \in 1..Len(rs) : rates[e] = rs[e].rate /\ rates[e] <= 1000
  BY <1>0
<1>. DEFINE low(h) == Rate(h) < 900
<1>4. ASSUME f.kind = "VERIFICATION_RATE_DROP", Len(rs) <= 6, NEW i \in 1..Len(rs),
             NEW h \in Results, h.receipts <= 3, rs[i].rate = Rate(h), low(h)
      PROVE  FALSE
  <2>1. Rate(h) <= 667
    BY <1>4, LowRate
  <2>2. Total(rates) > 950 * Len(rs)
    BY <1>1, <1>4 DEF RateDrop
  <2>. HIDE DEF rates
  <2>3. rates[i] <= 667 /\ Len(rates) <= 6 /\ i \in 1..Len(rates)
    <3>1. rates[i] = Rate(h)
      BY <1>3, <1>4
    <3>2. Len(rates) <= 6 /\ i \in 1..Len(rates)
      BY <1>3, <1>4
    <3>. QED
      BY <2>1, <3>1, <3>2
  <2>4. ~(Total(rates) > 950 * Len(rates))
    <3>1. \A e \in 1..Len(rates) : rates[e] <= 1000
      BY <1>3
    <3>2. rates \in Seq(Nat)
      BY <1>3
    <3>. QED
      BY <2>3, <3>1, <3>2, LowMean, SMTT(30)
  <2>. QED
    BY <1>3, <2>2, <2>4
<1>5. \A a, b \in Nat : (~(a <= b) => a > b) /\ (~(b <= a) => a < b)
  OBVIOUS
<1>6. ASSUME f.kind = "UNUSUAL_EXECUTION_TIME", Len(rs) <= 10
      PROVE  \/ \A i \in DOMAIN rs : rs[i].time > r.time
             \/ \A i \in DOMAIN rs : rs[i].time < r.time
  BY <1>0, <1>2, <1>5, <1>6
<1>7. ASSUME f.kind = "VERIFICATION_RATE_DROP", Len(rs) <= 6,
             \A i \in DOMAIN rs : \E h \in Results : h.receipts <= 3 /\ rs[i].rate = Rate(h),
             NEW i \in DOMAIN rs
      PROVE  rs[i].rate >= 900
  <2>1. PICK h \in Results : h.receipts <= 3 /\ rs[i].rate = Rate(h)
    BY <1>7
  <2>2. ~low(h)
    <3>1. i \in 1..Len(rs)
      BY <1>0, <1>7
    <3>. HIDE DEF low
    <3>. QED
      BY <1>4, <1>7, <2>1, <3>1
  <2>. DEFINE rate == rs[i].rate
  <2>3. rate \in Nat /\ ~(rate < 900)
    BY <1>0, <2>1, <2>2
  <2>. HIDE DEF rate
  <2>4. rate >= 900
    BY <2>3
  <2>. QED
    BY <2>4 DEF rate
<1>. QED
  BY <1>6, <1>7

\* The rates in the history are those of results; a session about to store its
\* flags compared the task with rows of other tasks, and has what it found.
ResultRate(row) == \E r \in Results : row.rate = Rate(r)

NewsOf(s) ==
  /\ rows[s] \in Seq(HistoryRow)
  /\ \A i \in DOMAIN rows[s] : rows[s][i].task # Task(s) /\ ResultRate(rows[s][i])
  /\ flags[s] = Findings(rows[s], Current(s).result)

NewsInv ==
  /\ \A j \in DOMAIN history : ResultRate(history[j])
  /\ DOMAIN rows = Sessions
  /\ \A s \in Sessions : pc[s] = "flag" => NewsOf(s)

\* The rows that are compared are rows of the history.
LEMMA ComparedRows ==
  ASSUME NEW S, history \in Seq(S)
  PROVE  /\ Compared \in Seq(S)
         /\ \A i \in DOMAIN Compared : \E j \in DOMAIN history : Compared[i] = history[j]
<1>. DEFINE n == Len(history)
            m == IF n > Window THEN n - Window + 1 ELSE 1
<1>1. n \in Nat /\ Window \in Nat \ {0}
  BY BoundAssumption
<1>2. m \in Nat \ {0} /\ m <= n + 1
  BY <1>1
<1>3. Compared = SubSeq(history, m, n)
  BY DEF Compared
<1>. HIDE DEF m
<1>4. /\ SubSeq(history, m, n) \in Seq(S)
      /\ \A i \in DOMAIN SubSeq(history, m, n) :
           m + i - 1 \in DOMAIN history /\ SubSeq(history, m, n)[i] = history[m + i - 1]
  BY <1>1, <1>2
<1>. QED
  BY <1>3, <1>4

LEMMA NewsIsInductive ==
  ASSUME TaskTyping, HistoryInv, NewsInv, NEW s \in Sessions, Step(s)
  PROVE  NewsInv'
<1>1. history \in Seq(HistoryRow) /\ DOMAIN rows = Sessions
  BY DEF TaskTyping, TablesTyped, NewsInv
<1>2. \A j \in DOMAIN history' : ResultRate(history'[j])
  <2>1. CASE Record(s)
    <3>. DEFINE r == Current(s).result
                row == [task |-> Task(s), time |-> r.time, rate |-> Rate(r)]
    <3>1. pc[s] # "idle" /\ history' = Append(history, row)
      BY <2>1 DEF Record
    <3>2. r \in Results
      BY <3>1, CurrentTyped
    <3>3. ResultRate(row)
      BY <3>2 DEF ResultRate
    <3>. HIDE DEF row
    <3>4. /\ DOMAIN history' = 1..(Len(history) + 1) /\ DOMAIN history = 1..Len(history)
          /\ Len(history) \in Nat /\ history'[Len(history) + 1] = row
          /\ \A j \in 1..Len(history) : history'[j] = history[j]
      BY <1>1, <3>1
    <3>5. \A j \in DOMAIN history' : j \in DOMAIN history \/ j = Len(history) + 1
      BY <3>4
    <3>. QED
      BY <3>3, <3>4, <3>5 DEF NewsInv
  <2>2. CASE ~Record(s)
    <3>1. history' = history
      BY <2>2 DEF Step, Show, ReadHistory, StoreFlags, UpdateStats, ReadStats, ReadUnlocked,
           Unlock, UnlockConflicts, AccessRaises
    <3>. QED
      BY <3>1 DEF NewsInv
  <2>. QED
    BY <2>1, <2>2
<1>3. /\ DOMAIN rows' = Sessions
      /\ \A v \in Sessions \ {s} : rows'[v] = rows[v] /\ flags'[v] = flags[v]
  BY <1>1 DEF TaskTyping, LocalsTyped, Step, Leave, Show, ReadHistory, StoreFlags, Record,
       UpdateStats, ReadStats, ReadUnlocked, Unlock, UnlockConflicts, AccessRaises
<1>4. \A v \in Sessions \ {s} : tasks'[v] = tasks[v] /\ pc'[v] = pc[v]
  BY RowsAfter
<1>5. ASSUME NEW v \in Sessions \ {s}, pc'[v] = "flag" PROVE NewsOf(v)'
  <2>1. NewsOf(v)
    BY <1>4, <1>5 DEF NewsInv
  <2>2. rows'[v] = rows[v] /\ flags'[v] = flags[v] /\ tasks'[v] = tasks[v]
    BY <1>3, <1>4
  <2>3. Task(v)' = Task(v) /\ Current(v)' = Current(v)
    BY <2>2 DEF Task, Current
  <2>. QED
    BY <2>1, <2>2, <2>3 DEF NewsOf
<1>6. ASSUME pc'[s] = "flag" PROVE NewsOf(s)'
  <2>1. ReadHistory(s)
    BY <1>6 DEF TaskTyping, LocalsTyped, Step, Goto, Leave, Show, StoreFlags, Record,
         UpdateStats, ReadStats, ReadUnlocked, Unlock, UnlockConflicts, AccessRaises
  <2>. DEFINE found == Findings(Compared, Current(s).result)
  <2>2. /\ pc[s] = "detect" /\ rows' = [rows EXCEPT ![s] = Compared]
        /\ flags' = [flags EXCEPT ![s] = found]
        /\ UNCHANGED tasks
    <3>. HIDE DEF found
    <3>1. /\ pc[s] = "detect" /\ rows' = [rows EXCEPT ![s] = Compared]
          /\ flags' = [flags EXCEPT ![s] = found]
          /\ IF found = {} THEN Goto(s, "record") ELSE UNCHANGED tasks
      BY <2>1 DEF ReadHistory, found
    <3>2. ~Goto(s, "record")
      BY <1>6 DEF Goto, TaskTyping, LocalsTyped
    <3>. QED
      BY <3>1, <3>2
  <2>3. rows'[s] = Compared /\ flags'[s] = found
    <3>. HIDE DEF found
    <3>. QED
      BY <1>1, <2>2 DEF TaskTyping, LocalsTyped
  <2>4. Task(s)' = Task(s) /\ Current(s)' = Current(s)
    BY <2>2 DEF Task, Current
  <2>5. /\ Compared \in Seq(HistoryRow)
        /\ \A i \in DOMAIN Compared : \E j \in DOMAIN history : Compared[i] = history[j]
    BY <1>1, ComparedRows
  <2>6. \A j \in DOMAIN history : history[j].task # Task(s) /\ ResultRate(history[j])
    <3>1. Newest(Task(s)) /\ Task(s)[1] = s
      BY DEF Newest, Task
    <3>. QED
      BY <2>2, <3>1 DEF HistoryInv, NewsInv
  <2>7. \A i \in DOMAIN Compared : Compared[i].task # Task(s) /\ ResultRate(Compared[i])
    BY <2>5, <2>6
  <2>. HIDE DEF found
  <2>8. NewsOf(s)' <=> /\ rows'[s] \in Seq(HistoryRow)
                       /\ \A i \in DOMAIN rows'[s] :
                            rows'[s][i].task # Task(s)' /\ ResultRate(rows'[s][i])
                       /\ flags'[s] = Findings(rows'[s], Current(s).result)
    BY <2>4 DEF NewsOf
  <2>. QED
    BY <2>3, <2>4, <2>5, <2>7, <2>8 DEF found
<1>7. \A v \in Sessions : pc'[v] = "flag" => NewsOf(v)'
  BY <1>5, <1>6
<1>8. \A row : ResultRate(row)' <=> ResultRate(row)
  BY DEF ResultRate
<1>. QED
  BY <1>2, <1>3, <1>7 DEF NewsInv

\* What is flagged is news (anomaly_detector.py:83-100): no task is compared with
\* itself; with at most ten rows a flagged time is outside the range of all of
\* them; and with at most six a flagged drop is the first.  The last rests on the
\* planner's three steps: of three receipts, two thirds at most are verified when
\* not all are.
THEOREM FlaggedIsNews ==
  ASSUME \A r \in Results : r.receipts <= 3
  PROVE  Spec => []FlagsAreNews
<1>. DEFINE Inv == RecordInv /\ NewsInv
<1>1. Init => Inv
  <2>1. Init => NewsInv
    BY DEF Init, NewsInv
  <2>. QED
    BY <2>1, InitialRecords
<1>2. Inv /\ [Next]_vars => Inv'
  <2>. SUFFICES ASSUME Inv, [Next]_vars PROVE NewsInv'
    BY RecordsAreInductive
  <2>1. CASE UNCHANGED vars
    BY <2>1 DEF vars, NewsInv, NewsOf, ResultRate, Task, Current
  <2>2. CASE Quiescent
    BY <2>1, <2>2 DEF Quiescent
  <2>3. ASSUME NEW s \in Sessions, Step(s) PROVE NewsInv'
    BY <2>3, NewsIsInductive DEF RecordInv
  <2>. QED
    BY <2>1, <2>2, <2>3 DEF Next, Step
<1>3. Inv => FlagsAreNews
  <2>1. SUFFICES ASSUME Inv, NEW s \in Sessions, pc[s] = "flag"
                 PROVE  LET rs == {rows[s][i] : i \in DOMAIN rows[s]}
                            t == Current(s).result.time
                            Flagged(kind) == \E f \in flags[s] : f.kind = kind
                        IN /\ \A e \in rs : e.task # Task(s)
                           /\ Flagged("UNUSUAL_EXECUTION_TIME") /\ Len(rows[s]) <= 10 =>
                                (\A e \in rs : e.time < t) \/ (\A e \in rs : e.time > t)
                           /\ Flagged("VERIFICATION_RATE_DROP") /\ Len(rows[s]) <= 6 =>
                                \A e \in rs : e.rate >= 900
    BY DEF FlagsAreNews
  <2>. DEFINE q == rows[s]
              r == Current(s).result
  <2>2. r \in Results
    BY <2>1, CurrentTyped DEF RecordInv
  <2>3. NewsOf(s)
    BY <2>1 DEF NewsInv
  <2>4. /\ q \in Seq(HistoryRow) /\ flags[s] = Findings(q, r)
        /\ \A i \in DOMAIN q : q[i].task # Task(s)
        /\ \A i \in DOMAIN q : \E h \in Results : h.receipts <= 3 /\ q[i].rate = Rate(h)
    BY <2>3 DEF NewsOf, ResultRate
  <2>. HIDE DEF q, r
  <2>5. ASSUME NEW f \in flags[s]
        PROVE  /\ f.kind = "UNUSUAL_EXECUTION_TIME" /\ Len(q) <= 10 =>
                    \/ \A i \in DOMAIN q : q[i].time < r.time
                    \/ \A i \in DOMAIN q : q[i].time > r.time
               /\ f.kind = "VERIFICATION_RATE_DROP" /\ Len(q) <= 6 =>
                    \A i \in DOMAIN q : q[i].rate >= 900
    BY <2>2, <2>4, FindingsAreNews
  <2>. QED
    BY <2>4, <2>5 DEF q, r
<1>. QED
  BY <1>1, <1>2, <1>3, PTL DEF Spec
=============================================================================
