------------------------ MODULE ConnectivityMonitor ------------------------
(***************************************************************************)
(* The connectivity monitor: one controller starts and stops it, a thread  *)
(* of its own polls the heartbeat, writes the status, calls the callbacks  *)
(* and sleeps.  stop joins that thread with a timeout; when the join gives *)
(* up, the loop lives on, and a later start makes it run again beside the  *)
(* new one.  Time passes in ticks of a second, and only when every thread  *)
(* waits: what a loop does between its waits takes no time.                *)
(***************************************************************************)
EXTENDS Integers

CONSTANTS
  MaxStarts,    \* bound: calls of start that make a loop
  Interval,     \* check_interval_seconds
  CheckBound,   \* the longest a heartbeat request takes
  CheckRaises   \* whether a request may raise what the check does not catch

ASSUME TimeAssumption == Interval \in Nat \ {0} /\ CheckBound \in Nat /\ MaxStarts \in Nat

VARIABLES
  network,               \* external: what a request would say now
  running, status, thread,   \* the monitor's fields
  pc, timer, heard, old, \* of a loop: its wait's end, poll_once's locals
  joining, deadline,     \* the controller inside stop: whom it joins, how long
  told,                  \* of the callbacks: the last status they were called with
  caught, overlapped     \* history: loops stop found in a request; two loops at once

vars == <<network, running, status, thread, pc, timer, heard, old, joining, deadline,
          told, caught, overlapped>>

Statuses == {"ONLINE", "OFFLINE", "DEGRADED"}
Loops == 1..MaxStarts
NoLoop == 0
PCs == {"new", "test", "check", "read", "write", "notify", "sleep", "ended", "died"}
Live == {l \in Loops : pc[l] \notin {"new", "ended", "died"}}

Init ==
  /\ network \in Statuses
  /\ running = FALSE /\ thread = NoLoop
  /\ status \in {"ONLINE", "OFFLINE"} /\ told = status
  /\ pc = [l \in Loops |-> "new"]
  /\ timer = [l \in Loops |-> 0]
  /\ heard = [l \in Loops |-> "OFFLINE"] /\ old = heard
  /\ joining = NoLoop /\ deadline = 0
  /\ caught = {} /\ overlapped = FALSE

-----------------------------------------------------------------------------
(* The controller.                                                         *)

\* A monitor that is running is left alone.
Start(l) ==
  /\ joining = NoLoop /\ ~running
  /\ pc[l] = "new" /\ \A k \in 1..(l - 1) : pc[k] # "new"
  /\ running' = TRUE /\ thread' = l
  /\ pc' = [pc EXCEPT ![l] = "test"]
  /\ overlapped' = (overlapped \/ Live # {})
  /\ UNCHANGED <<network, status, timer, heard, old, joining, deadline, told, caught>>

\* Mutant of JoinTimeout: the sleep is not outlasted.
JoinInterval == Interval

JoinTimeout == IF Interval + 1 > 1 THEN Interval + 1 ELSE 1

Stop ==
  /\ joining = NoLoop
  /\ running' = FALSE
  /\ joining' = thread
  /\ deadline' = IF thread = NoLoop THEN 0 ELSE JoinTimeout
  /\ caught' = caught \cup {l \in {thread} \cap Loops : pc[l] = "check"}
  /\ UNCHANGED <<network, status, thread, pc, timer, heard, old, told, overlapped>>

\* join returns when its thread is done or its time is up; it does not say
\* which, and the thread is forgotten.
StopReturns ==
  /\ joining # NoLoop
  /\ joining \notin Live \/ deadline = 0
  /\ joining' = NoLoop /\ thread' = NoLoop /\ deadline' = 0
  /\ UNCHANGED <<network, running, status, pc, timer, heard, old, told, caught,
                 overlapped>>

-----------------------------------------------------------------------------
(* _monitor_loop and poll_once.                                            *)

Goto(l, label) == pc' = [pc EXCEPT ![l] = label]
Wait(l, label, ticks) == Goto(l, label) /\ timer' = [timer EXCEPT ![l] = ticks]

\* poll_once returns, its locals are gone, and the loop sleeps.
PollReturns(l) ==
  /\ heard' = [heard EXCEPT ![l] = "OFFLINE"] /\ old' = [old EXCEPT ![l] = "OFFLINE"]
  /\ Wait(l, "sleep", Interval)

Test(l) ==
  /\ pc[l] = "test"
  /\ IF running THEN Wait(l, "check", CheckBound) ELSE Goto(l, "ended") /\ UNCHANGED timer
  /\ UNCHANGED <<network, running, status, thread, heard, old, joining, deadline, told,
                 caught, overlapped>>

\* The request answers, fails or times out, at any time up to CheckBound.
CheckReturns(l) ==
  /\ pc[l] = "check"
  /\ heard' = [heard EXCEPT ![l] = network]
  /\ Wait(l, "read", 0)
  /\ UNCHANGED <<network, running, status, thread, old, joining, deadline, told,
                 caught, overlapped>>

\* An exception that is neither an OSError nor a URLError ends the thread.
LoopDies(l) ==
  /\ pc[l] = "check" /\ CheckRaises
  /\ Wait(l, "died", 0)
  /\ UNCHANGED <<network, running, status, thread, heard, old, joining, deadline, told,
                 caught, overlapped>>

ReadStatus(l) ==
  /\ pc[l] = "read"
  /\ old' = [old EXCEPT ![l] = status]
  /\ Goto(l, "write")
  /\ UNCHANGED <<network, running, status, thread, timer, heard, joining, deadline, told,
                 caught, overlapped>>

\* Mutant of WriteStatus: only an outage's end is announced.
WriteFromOffline(l) ==
  /\ pc[l] = "write"
  /\ status' = heard[l]
  /\ IF heard[l] # old[l] /\ "OFFLINE" \in {heard[l], old[l]}
       THEN Goto(l, "notify") /\ UNCHANGED <<timer, heard, old>>
       ELSE PollReturns(l)
  /\ UNCHANGED <<network, running, thread, joining, deadline, told, caught, overlapped>>

WriteStatus(l) ==
  /\ pc[l] = "write"
  /\ status' = heard[l]
  /\ IF heard[l] = old[l] THEN PollReturns(l)
                          ELSE Goto(l, "notify") /\ UNCHANGED <<timer, heard, old>>
  /\ UNCHANGED <<network, running, thread, joining, deadline, told, caught, overlapped>>

Notify(l) ==
  /\ pc[l] = "notify"
  /\ told' = heard[l]
  /\ PollReturns(l)
  /\ UNCHANGED <<network, running, status, thread, joining, deadline, caught, overlapped>>

\* Mutant of Wake: _running is tested once, before the first poll.
WakeToCheck(l) ==
  /\ pc[l] = "sleep" /\ timer[l] = 0
  /\ Wait(l, "check", CheckBound)
  /\ UNCHANGED <<network, running, status, thread, heard, old, joining, deadline, told,
                 caught, overlapped>>

Wake(l) ==
  /\ pc[l] = "sleep" /\ timer[l] = 0
  /\ Goto(l, "test")
  /\ UNCHANGED <<network, running, status, thread, timer, heard, old, joining, deadline,
                 told, caught, overlapped>>

LoopStep(l) ==
  \/ Test(l) \/ CheckReturns(l) \/ LoopDies(l) \/ ReadStatus(l) \/ WriteStatus(l)
  \/ Notify(l) \/ Wake(l)

-----------------------------------------------------------------------------

NetworkChanges ==
  /\ network' \in Statuses \ {network}
  /\ UNCHANGED <<running, status, thread, pc, timer, heard, old, joining, deadline, told,
                 caught, overlapped>>

\* A second passes: every loop is in a wait that has not ended, and so is join.
Tick ==
  /\ Live # {}
  /\ \A l \in Live : pc[l] \in {"check", "sleep"} /\ timer[l] > 0
  /\ joining # NoLoop => joining \in Live /\ deadline > 0
  /\ timer' = [l \in Loops |-> IF l \in Live THEN timer[l] - 1 ELSE timer[l]]
  /\ deadline' = IF joining = NoLoop THEN deadline ELSE deadline - 1
  /\ UNCHANGED <<network, running, status, thread, pc, heard, old, joining, told,
                 caught, overlapped>>

Next ==
  \/ \E l \in Loops : Start(l) \/ LoopStep(l)
  \/ Stop \/ StopReturns \/ NetworkChanges \/ Tick

Spec == Init /\ [][Next]_vars

\* Threads run, requests and join return, and time passes.
FairSpec ==
  Spec /\ WF_vars(Tick) /\ WF_vars(StopReturns) /\ \A l \in Loops : WF_vars(LoopStep(l))

-----------------------------------------------------------------------------
(* Properties.                                                             *)

\* One controller: it joins only the monitor's own thread, and a loop that
\* waits never waits longer than it was told to (connectivity.py:63-79).
TypeOK ==
  /\ network \in Statuses /\ running \in BOOLEAN /\ status \in Statuses
  /\ thread \in Loops \cup {NoLoop} /\ joining \in {thread, NoLoop}
  /\ pc \in [Loops -> PCs] /\ deadline \in 0..JoinTimeout
  /\ timer \in [Loops -> Nat]
  /\ \A l \in Loops : timer[l] <= (IF pc[l] = "sleep" THEN Interval ELSE CheckBound)
  /\ heard \in [Loops -> Statuses] /\ old \in [Loops -> Statuses]
  /\ told \in Statuses /\ caught \subseteq Loops /\ overlapped \in BOOLEAN

\* stop outlasts the sleep: a loop the monitor has lost sight of was inside a
\* request when stop came, never asleep, between two polls or at the callbacks,
\* and no loop is lost sight of without a stop (connectivity.py:68-79).
LostLoopsWereChecking ==
  \A l \in Live : l \in caught \cup {thread}

\* The callbacks know the status: after the callbacks of a change have run, the
\* last status they were called with is the monitor's, unless two loops have
\* polled side by side (connectivity.py:54-61).
CallbacksKnowStatus ==
  ~overlapped /\ (\A l \in Loops : pc[l] # "notify") => told = status

\* A lasting return of the network is noticed by a monitor that keeps running
\* and whose thread no exception has ended; without overlapping loops it also
\* reaches the callbacks (connectivity.py:54-66).
ReconnectIsNoticed ==
  LET lasting == running /\ network = "ONLINE" /\ \A l \in Loops : pc[l] # "died"
  IN  /\ <>[]lasting => <>[](status = "ONLINE")
      /\ <>[](lasting /\ ~overlapped) => <>[](told = "ONLINE")

\* A monitor that stays stopped polls no more: also the loops whose join gave
\* up come to their end (connectivity.py:63-66, 75-79).
StoppedLoopsEnd == <>[]~running => <>[](Live = {})
=============================================================================
