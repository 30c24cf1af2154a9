---------------------------- MODULE TaskRecords ----------------------------
(***************************************************************************)
(* What the dashboard's _run_task does with a task once the pipeline has   *)
(* returned: show it, compare it with the history of earlier executions,   *)
(* add it to that history, count it for its user and hand out badges.      *)
(* Every browser session uses the same two SQLite files, a user may have   *)
(* several sessions, and each access is a transaction of its own, so that  *)
(* any other session may move between two of them.                         *)
(***************************************************************************)
EXTENDS Integers, Sequences, FiniteSets

CONSTANTS
  Sessions, Users,
  UserOf,        \* the user a session is signed in as
  Results,       \* what the pipeline and the connectivity probe may return
  EvidenceGoal,  \* receipts for EVIDENCE_MASTER: 100 in the code
  Window,        \* rows of history that are compared: 100 in the code
  MaxTasks,      \* bound: tasks of a session
  MaxMishaps,    \* bound: accesses that raise
  NotYet         \* a field of the result that is not there yet

Badges == {"FIRST_TASK", "PERFECT_VERIFICATION", "OFFLINE_SURVIVOR", "EVIDENCE_MASTER"}
Flags == [kind : {"UNUSUAL_EXECUTION_TIME"}, severity : {"HIGH", "MEDIUM"}]
         \cup [kind : {"VERIFICATION_RATE_DROP"}, severity : {"CRITICAL", "HIGH"}]

TaskResults == [time : Nat, receipts : Nat, verified : Nat,
                complete : BOOLEAN, offline : BOOLEAN]
NoUserStats == [tasks |-> 0, evidence |-> 0, perfect |-> 0, offline |-> 0]

ASSUME UserAssumption == UserOf \in [Sessions -> Users]
ASSUME ResultAssumption ==
  Results \subseteq {r \in TaskResults : r.verified <= r.receipts}
ASSUME NotYetAssumption ==
  \A set \in (SUBSET Flags) \cup (SUBSET Badges) : set # NotYet
ASSUME BoundAssumption ==
  /\ {EvidenceGoal, Window} \subseteq Nat \ {0}
  /\ {MaxTasks, MaxMishaps} \subseteq Nat

VARIABLES
  stats, unlocked,      \* achievements.db, per user
  history, anomalies,   \* analytics.db
  tasks,                \* st.session_state.tasks of a session, newest first
  pc, rows, flags, seen, newIds,   \* locals of a session's _run_task
  counted,              \* history: the tasks in a user's statistics, in order
  mishaps

vars == <<stats, unlocked, history, anomalies, tasks, pc, rows, flags, seen,
          newIds, counted, mishaps>>

PCs == {"idle", "detect", "flag", "record", "count", "stats", "unlocked", "unlock"}

One(b) == IF b THEN 1 ELSE 0

\* The sum of a sequence of numbers.
Total(numbers) ==
  LET upTo[n \in 0..Len(numbers)] == IF n = 0 THEN 0 ELSE upTo[n - 1] + numbers[n]
  IN  upTo[Len(numbers)]

Task(s) == <<s, Len(tasks[s])>>
Current(s) == Head(tasks[s])

\* Verified receipts in tenths of a percent; no receipt at all is 0.
Rate(r) == IF r.receipts = 0 THEN 0
           ELSE (2000 * r.verified + r.receipts) \div (2 * r.receipts)

Init ==
  /\ stats = [u \in Users |-> NoUserStats]
  /\ unlocked = [u \in Users |-> {}]
  /\ history = <<>>
  /\ anomalies = {}
  /\ tasks = [s \in Sessions |-> <<>>]
  /\ pc = [s \in Sessions |-> "idle"]
  /\ rows = [s \in Sessions |-> <<>>]
  /\ flags = [s \in Sessions |-> {}]
  /\ seen = [s \in Sessions |-> NoUserStats]
  /\ newIds = [s \in Sessions |-> {}]
  /\ counted = [u \in Users |-> <<>>]
  /\ mishaps = 0

Goto(s, p) == pc' = [pc EXCEPT ![s] = p]

\* _run_task returns or raises, and its locals are gone.
Leave(s) ==
  /\ Goto(s, "idle")
  /\ rows' = [rows EXCEPT ![s] = <<>>]
  /\ flags' = [flags EXCEPT ![s] = {}]
  /\ seen' = [seen EXCEPT ![s] = NoUserStats]
  /\ newIds' = [newIds EXCEPT ![s] = {}]

(***************************************************************************)
(* The comparison.  With n rows, sum S and sum of squares Q, the mean is   *)
(* S/n and the variance (nQ - S^2)/n^2; both sides of a comparison are     *)
(* multiplied by n^2, so that no root and no fraction is needed.  The      *)
(* metrics of the dashboard have no retry_count, so that both sides of the *)
(* third rule, for excessive retries, are the same and it never fires.     *)
(***************************************************************************)
Times(rs) == [i \in 1..Len(rs) |-> rs[i].time]
Square(n) == n * n
Squares(numbers) == [i \in 1..Len(numbers) |-> Square(numbers[i])]

Spread(rs) == Len(rs) * Total(Squares(Times(rs))) - Square(Total(Times(rs)))

Deviation(rs, t) == Square(Len(rs) * t - Total(Times(rs)))

\* Bug: the threshold is one standard deviation.
UnusualTimeOneSigma(rs, t) ==
  /\ Len(rs) >= 3
  /\ Spread(rs) > 0
  /\ Deviation(rs, t) > Spread(rs)

UnusualTime(rs, t) ==
  /\ Len(rs) >= 3
  /\ Spread(rs) > 0
  /\ Deviation(rs, t) > 9 * Spread(rs)

RateDrop(rs, rate) ==
  /\ rate < 900
  /\ Total([i \in 1..Len(rs) |-> rs[i].rate]) > 950 * Len(rs)

Findings(rs, r) ==
  {f \in Flags :
     \/ /\ f.kind = "UNUSUAL_EXECUTION_TIME"
        /\ UnusualTime(rs, r.time)
        /\ (f.severity = "HIGH") = (Deviation(rs, r.time) > 25 * Spread(rs))
     \/ /\ f.kind = "VERIFICATION_RATE_DROP"
        /\ rs # <<>>
        /\ RateDrop(rs, Rate(r))
        /\ (f.severity = "CRITICAL") = (Rate(r) < 500)}

\* Bug: perfect_tasks is read from the column of total_tasks.
EligibleWrongColumn(st) ==
  {b \in Badges :
     \/ b = "FIRST_TASK" /\ st.tasks >= 1
     \/ b = "PERFECT_VERIFICATION" /\ st.tasks >= 1
     \/ b = "OFFLINE_SURVIVOR" /\ st.offline >= 1
     \/ b = "EVIDENCE_MASTER" /\ st.evidence >= EvidenceGoal}

\* Bug: the hundredth receipt does not count.
EligibleOffByOne(st) ==
  {b \in Badges :
     \/ b = "FIRST_TASK" /\ st.tasks >= 1
     \/ b = "PERFECT_VERIFICATION" /\ st.perfect >= 1
     \/ b = "OFFLINE_SURVIVOR" /\ st.offline >= 1
     \/ b = "EVIDENCE_MASTER" /\ st.evidence > EvidenceGoal}

Eligible(st) ==
  {b \in Badges :
     \/ b = "FIRST_TASK" /\ st.tasks >= 1
     \/ b = "PERFECT_VERIFICATION" /\ st.perfect >= 1
     \/ b = "OFFLINE_SURVIVOR" /\ st.offline >= 1
     \/ b = "EVIDENCE_MASTER" /\ st.evidence >= EvidenceGoal}

(***************************************************************************)
(* The steps of _run_task behind the pipeline.                             *)
(***************************************************************************)
\* The result is in the session's list before anything of it is stored.
Show(s) ==
  /\ pc[s] = "idle"
  /\ Len(tasks[s]) < MaxTasks
  /\ \E r \in Results :
       tasks' = [tasks EXCEPT ![s] =
                   <<[result |-> r, anomalies |-> NotYet, badges |-> NotYet]>> \o @]
  /\ Goto(s, "detect")
  /\ UNCHANGED <<stats, unlocked, history, anomalies, rows, flags, seen, newIds,
                 counted, mishaps>>

\* The last Window rows of the history.
Compared ==
  LET n == Len(history)
  IN  SubSeq(history, IF n > Window THEN n - Window + 1 ELSE 1, n)

\* Bug: the anomalies of a normal task are never put into its result.
ReadHistoryForgets(s) ==
  /\ pc[s] = "detect"
  /\ rows' = [rows EXCEPT ![s] = Compared]
  /\ flags' = [flags EXCEPT ![s] = Findings(Compared, Current(s).result)]
  /\ Goto(s, IF flags'[s] = {} THEN "record" ELSE "flag")
  /\ UNCHANGED <<stats, unlocked, history, anomalies, tasks, seen, newIds, counted, mishaps>>

ReadHistory(s) ==
  /\ pc[s] = "detect"
  /\ rows' = [rows EXCEPT ![s] = Compared]
  /\ LET found == Findings(Compared, Current(s).result)
     IN /\ flags' = [flags EXCEPT ![s] = found]
        /\ IF found = {}
           THEN /\ tasks' = [tasks EXCEPT ![s][1].anomalies = {}]
                /\ Goto(s, "record")
           ELSE /\ Goto(s, "flag")
                /\ UNCHANGED tasks
  /\ UNCHANGED <<stats, unlocked, history, anomalies, seen, newIds, counted, mishaps>>

StoreFlags(s) ==
  /\ pc[s] = "flag"
  /\ anomalies' = anomalies \cup {[task |-> Task(s), flag |-> f] : f \in flags[s]}
  /\ tasks' = [tasks EXCEPT ![s][1].anomalies = flags[s]]
  /\ Goto(s, "record")
  /\ UNCHANGED <<stats, unlocked, history, rows, flags, seen, newIds, counted, mishaps>>

\* Bug: only normal executions become history.
RecordIfNormal(s) ==
  /\ pc[s] = "record"
  /\ LET r == Current(s).result
     IN history' = IF flags[s] = {}
                   THEN Append(history,
                          [task |-> Task(s), time |-> r.time, rate |-> Rate(r)])
                   ELSE history
  /\ Goto(s, "count")
  /\ UNCHANGED <<stats, unlocked, anomalies, tasks, rows, flags, seen, newIds,
                 counted, mishaps>>

Record(s) ==
  /\ pc[s] = "record"
  /\ LET r == Current(s).result
     IN history' = Append(history,
                     [task |-> Task(s), time |-> r.time, rate |-> Rate(r)])
  /\ Goto(s, "count")
  /\ UNCHANGED <<stats, unlocked, anomalies, tasks, rows, flags, seen, newIds,
                 counted, mishaps>>

\* A user's row st with the result r added to it.
Added(st, r) ==
  [tasks |-> st.tasks + 1, evidence |-> st.evidence + r.receipts,
   perfect |-> st.perfect + One(r.complete), offline |-> st.offline + One(r.offline)]

\* Bug: the update writes values computed from the last read.
UpdateFromSeen(s) ==
  LET u == UserOf[s] IN
  /\ pc[s] = "count"
  /\ stats' = [stats EXCEPT ![u] = Added(seen[s], Current(s).result)]
  /\ counted' = [counted EXCEPT ![u] =
                   Append(@, [task |-> Task(s), result |-> Current(s).result])]
  /\ Goto(s, "stats")
  /\ UNCHANGED <<unlocked, history, anomalies, tasks, rows, flags, seen, newIds, mishaps>>

UpdateStats(s) ==
  LET u == UserOf[s] IN
  /\ pc[s] = "count"
  /\ stats' = [stats EXCEPT ![u] = Added(@, Current(s).result)]
  /\ counted' = [counted EXCEPT ![u] =
                   Append(@, [task |-> Task(s), result |-> Current(s).result])]
  /\ Goto(s, "stats")
  /\ UNCHANGED <<unlocked, history, anomalies, tasks, rows, flags, seen, newIds, mishaps>>

\* check_achievements reads the two tables one after the other, and writes
\* in a third access what it found missing in the second.
ReadStats(s) ==
  /\ pc[s] = "stats"
  /\ seen' = [seen EXCEPT ![s] = stats[UserOf[s]]]
  /\ Goto(s, "unlocked")
  /\ UNCHANGED <<stats, unlocked, history, anomalies, tasks, rows, flags, newIds,
                 counted, mishaps>>

ReadUnlocked(s) ==
  /\ pc[s] = "unlocked"
  /\ newIds' = [newIds EXCEPT ![s] = Eligible(seen[s]) \ unlocked[UserOf[s]]]
  /\ Goto(s, "unlock")
  /\ UNCHANGED <<stats, unlocked, history, anomalies, tasks, rows, flags, seen,
                 counted, mishaps>>

\* Bug: INSERT OR IGNORE: the second session announces the badge as well.
UnlockOrIgnore(s) ==
  LET u == UserOf[s] IN
  /\ pc[s] = "unlock"
  /\ unlocked' = [unlocked EXCEPT ![u] = @ \cup newIds[s]]
  /\ tasks' = [tasks EXCEPT ![s][1].badges = newIds[s]]
  /\ Leave(s)
  /\ UNCHANGED <<stats, history, anomalies, counted, mishaps>>

Unlock(s) ==
  LET u == UserOf[s] IN
  /\ pc[s] = "unlock"
  /\ newIds[s] \cap unlocked[u] = {}
  /\ unlocked' = [unlocked EXCEPT ![u] = @ \cup newIds[s]]
  /\ tasks' = [tasks EXCEPT ![s][1].badges = newIds[s]]
  /\ Leave(s)
  /\ UNCHANGED <<stats, history, anomalies, counted, mishaps>>

\* The primary key refuses a badge that another session stored meanwhile:
\* the transaction rolls back, with the rows it had, and the task raises.
UnlockConflicts(s) ==
  /\ pc[s] = "unlock"
  /\ newIds[s] \cap unlocked[UserOf[s]] # {}
  /\ Leave(s)
  /\ UNCHANGED <<stats, unlocked, history, anomalies, tasks, counted, mishaps>>

\* The access that is next raises (a database is locked): what is stored
\* stays, the rest of _run_task is not done.
AccessRaises(s) ==
  /\ pc[s] # "idle"
  /\ mishaps < MaxMishaps
  /\ mishaps' = mishaps + 1
  /\ Leave(s)
  /\ UNCHANGED <<stats, unlocked, history, anomalies, tasks, counted>>

Quiescent ==
  /\ \A s \in Sessions : pc[s] = "idle" /\ Len(tasks[s]) = MaxTasks
  /\ UNCHANGED vars

Next ==
  \/ \E s \in Sessions :
       \/ Show(s) \/ ReadHistory(s) \/ StoreFlags(s) \/ Record(s)
       \/ UpdateStats(s) \/ ReadStats(s) \/ ReadUnlocked(s)
       \/ Unlock(s) \/ UnlockConflicts(s) \/ AccessRaises(s)
  \/ Quiescent

Spec == Init /\ [][Next]_vars

(***************************************************************************)
(* Properties.                                                             *)
(***************************************************************************)
\* Variables have their types; a session past the comparison has shown what
\* it found, and one that asks for badges has a row in the statistics.
TypeOK ==
  /\ stats \in [Users -> [tasks : Nat, evidence : Nat, perfect : Nat, offline : Nat]]
  /\ unlocked \in [Users -> SUBSET Badges]
  /\ \A i \in DOMAIN history : history[i].rate \in 0..1000
  /\ pc \in [Sessions -> PCs]
  /\ flags \in [Sessions -> SUBSET Flags]
  /\ newIds \in [Sessions -> SUBSET Badges]
  /\ \A s \in Sessions :
       /\ pc[s] # "idle" => tasks[s] # <<>>
       /\ pc[s] \in PCs \ {"idle", "detect", "flag"} => Current(s).anomalies = flags[s]
       /\ pc[s] \in {"unlocked", "unlock"} => seen[s].tasks > 0

ReceiptsOf(cs) == [i \in 1..Len(cs) |-> cs[i].result.receipts]

\* No update of a user's statistics is lost (achievements.py:41-53): however
\* the user's sessions interleave, they are the sums over the tasks counted.
StatsAreSums ==
  \A u \in Users :
    stats[u] = [tasks    |-> Len(counted[u]),
                evidence |-> Total(ReceiptsOf(counted[u])),
                perfect  |-> Total([i \in 1..Len(counted[u]) |-> One(counted[u][i].result.complete)]),
                offline  |-> Total([i \in 1..Len(counted[u]) |-> One(counted[u][i].result.offline)])]

\* What the tasks of cs earn together.  PERFECT_VERIFICATION and EVIDENCE_MASTER
\* are as their descriptions say (achievements.py:14, 16).  The other two are as
\* the code gives them: FIRST_TASK is described as for a verified task (13) and
\* OFFLINE_SURVIVOR as for one completed while offline (15), but any task and any
\* offline task will do (64, 68), one the pipeline refused included.
Earned(cs) ==
  LET rs == {cs[i].result : i \in DOMAIN cs}
  IN  {b \in Badges :
         \/ b = "FIRST_TASK" /\ rs # {}
         \/ b = "PERFECT_VERIFICATION"
            /\ \E r \in rs : r.complete /\ r.verified = r.receipts
         \/ b = "OFFLINE_SURVIVOR" /\ \E r \in rs : r.offline
         \/ b = "EVIDENCE_MASTER"
            /\ Total(ReceiptsOf(cs)) >= EvidenceGoal}

\* Nobody has a badge that no task of that user stands for, in the sense of
\* Earned (achievements.py:56-78), although it is stored on an older read of
\* the statistics.
UnlockedIsEarned == \A u \in Users : unlocked[u] \subseteq Earned(counted[u])

\* A task that returned its badges left none behind that its user had earned
\* up to and with it, in whichever session (achievements.py:54-79): a session
\* that reads an older table of badges fails rather than skip one.
ReturnedTaskLeavesNone ==
  \A s \in Sessions : \A i \in DOMAIN tasks[s] :
    tasks[s][i].badges # NotYet =>
      LET u == UserOf[s]
          id == <<s, Len(tasks[s]) - i + 1>>
          n == CHOOSE k \in DOMAIN counted[u] : counted[u][k].task = id
      IN Earned(SubSeq(counted[u], 1, n)) \subseteq unlocked[u]

\* A badge is announced by exactly one task of its user (tests/test_features.py:19
\* for one session; here for any): a race ends with one winner and no silent unlock.
AnnouncedOnce ==
  \A u \in Users : \A b \in Badges :
    LET announces(s, i) == /\ UserOf[s] = u /\ i \in DOMAIN tasks[s]
                           /\ tasks[s][i].badges # NotYet /\ b \in tasks[s][i].badges
        by == {t \in Sessions \X (1..MaxTasks) : announces(t[1], t[2])}
    IN Cardinality(by) = One(b \in unlocked[u])

\* A task that counts for its user was shown, is in the history exactly once
\* and its anomalies, if any, are stored (streamlit_app.py:122-135), whatever
\* raised in other tasks.
CountedIsRecorded ==
  \A u \in Users : \A k \in DOMAIN counted[u] :
    LET id == counted[u][k].task
        shown == tasks[id[1]][Len(tasks[id[1]]) - id[2] + 1]
    IN /\ shown.result = counted[u][k].result
       /\ Cardinality({j \in DOMAIN history : history[j].task = id}) = 1
       /\ {a.flag : a \in {e \in anomalies : e.task = id}} = shown.anomalies

\* What is flagged is news (anomaly_detector.py:83-100).  No execution is
\* compared with itself.  Among at most ten rows, a time that is flagged is
\* "outside the historical range", as the finding says; three standard
\* deviations exceed that range then.  Among at most six, a drop of the rate
\* is flagged only if none of them is a drop.
FlagsAreNews ==
  \A s \in Sessions :
    pc[s] = "flag" =>
      LET rs == {rows[s][i] : i \in DOMAIN rows[s]}
          t == Current(s).result.time
          Flagged(kind) == \E f \in flags[s] : f.kind = kind
      IN /\ \A e \in rs : e.task # Task(s)
         /\ Flagged("UNUSUAL_EXECUTION_TIME") /\ Len(rows[s]) <= 10 =>
              (\A e \in rs : e.time < t) \/ (\A e \in rs : e.time > t)
         /\ Flagged("VERIFICATION_RATE_DROP") /\ Len(rows[s]) <= 6 =>
              \A e \in rs : e.rate >= 900
=============================================================================
