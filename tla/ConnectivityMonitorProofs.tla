--------------------- MODULE ConnectivityMonitorProofs ---------------------
(* Theorems about ConnectivityMonitor, for any interval, any bound on a     *)
(* request, any number of starts, and with or without requests that raise.  *)
EXTENDS ConnectivityMonitor, TLAPS

\* TypeOK alone is inductive but for the thread of a monitor that is not
\* running: it is known only while stop joins it.
StoppedHasNoThread == ~running /\ joining = NoLoop => thread = NoLoop

MonitorTyping == TypeOK /\ StoppedHasNoThread

LEMMA Timeout == JoinTimeout \in Nat /\ JoinTimeout = Interval + 1
BY TimeAssumption DEF JoinTimeout

LEMMA LoopIds == NoLoop \notin Loops /\ Loops \subseteq Nat
BY TimeAssumption DEF NoLoop, Loops

\* The code of a loop leaves the controller's fields alone.
LEMMA LoopLeaves ==
  ASSUME NEW l \in Loops, LoopStep(l)
  PROVE  UNCHANGED <<network, running, thread, joining, deadline, caught, overlapped>>
BY DEF LoopStep, Test, CheckReturns, LoopDies, ReadStatus, WriteStatus, Notify, Wake,
       PollReturns, Wait, Goto

\* What one loop does leaves the others where they are.
LEMMA OtherLoops ==
  ASSUME TypeOK, NEW l \in Loops, LoopStep(l), NEW k \in Loops, k # l
  PROVE  pc'[k] = pc[k] /\ timer'[k] = timer[k]
BY DEF TypeOK, LoopStep, Test, CheckReturns, LoopDies, ReadStatus, WriteStatus, Notify, Wake,
       PollReturns, Wait, Goto

\* The typing of a loop's step is that of the loop itself.
LEMMA LoopTyping ==
  ASSUME TypeOK, NEW l \in Loops, LoopStep(l)
  PROVE  TypeOK'
<1>1. UNCHANGED <<network, running, thread, joining, deadline, caught, overlapped>>
  BY LoopLeaves
<1>2. CASE Test(l)
  BY <1>1, <1>2, TimeAssumption DEF TypeOK, Test, Wait, Goto, PCs
<1>3. CASE CheckReturns(l)
  BY <1>1, <1>3, TimeAssumption DEF TypeOK, CheckReturns, Wait, Goto, PCs
<1>4. CASE LoopDies(l)
  BY <1>1, <1>4, TimeAssumption DEF TypeOK, LoopDies, Wait, Goto, PCs
<1>5. CASE ReadStatus(l)
  BY <1>1, <1>5, TimeAssumption DEF TypeOK, ReadStatus, Goto, PCs
<1>6. CASE WriteStatus(l)
  BY <1>1, <1>6, TimeAssumption DEF TypeOK, WriteStatus, PollReturns, Wait, Goto, PCs, Statuses
<1>7. CASE Notify(l)
  BY <1>1, <1>7, TimeAssumption DEF TypeOK, Notify, PollReturns, Wait, Goto, PCs, Statuses
<1>8. CASE Wake(l)
  BY <1>1, <1>8, TimeAssumption DEF TypeOK, Wake, Goto, PCs
<1>. QED
  BY <1>2, <1>3, <1>4, <1>5, <1>6, <1>7, <1>8 DEF LoopStep

LEMMA ControllerTyping ==
  ASSUME MonitorTyping,
         (\E l \in Loops : Start(l)) \/ Stop \/ StopReturns \/ NetworkChanges \/ Tick
  PROVE  TypeOK'
<1>1. CASE \E l \in Loops : Start(l)
  <2>1. PICK l \in Loops : Start(l)
    BY <1>1
  <2>2. pc' = [pc EXCEPT ![l] = "test"] /\ pc[l] = "new" /\ joining' = NoLoop
    BY <2>1 DEF Start
  <2>3. /\ pc' \in [Loops -> PCs]
        /\ \A k \in Loops : pc'[k] = "sleep" => pc[k] = "sleep"
        /\ \A k \in Loops : pc'[k] # "sleep" => pc[k] # "sleep"
    BY <2>2 DEF MonitorTyping, TypeOK, PCs
  <2>4. \A k \in Loops : timer'[k] <= (IF pc'[k] = "sleep" THEN Interval ELSE CheckBound)
    BY <2>1, <2>3 DEF MonitorTyping, TypeOK, Start
  <2>5. /\ thread' \in Loops \cup {NoLoop} /\ running' \in BOOLEAN
        /\ overlapped' \in BOOLEAN /\ joining' \in {thread', NoLoop}
    BY <2>1 DEF MonitorTyping, TypeOK, Start
  <2>6. UNCHANGED <<network, status, timer, heard, old, joining, deadline, told, caught>>
    BY <2>1 DEF Start
  <2>. QED
    BY <2>3, <2>4, <2>5, <2>6 DEF MonitorTyping, TypeOK
<1>2. CASE Stop
  <2>1. deadline' \in 0..JoinTimeout
    BY <1>2, Timeout DEF Stop
  <2>2. caught' \subseteq Loops
    BY <1>2 DEF MonitorTyping, TypeOK, Stop
  <2>3. running' \in BOOLEAN /\ joining' \in {thread', NoLoop}
    BY <1>2 DEF Stop
  <2>4. UNCHANGED <<network, status, thread, pc, timer, heard, old, told, overlapped>>
    BY <1>2 DEF Stop
  <2>. QED
    BY <2>1, <2>2, <2>3, <2>4 DEF MonitorTyping, TypeOK
<1>3. CASE StopReturns
  BY <1>3, Timeout DEF MonitorTyping, TypeOK, StopReturns
<1>4. CASE NetworkChanges
  BY <1>4 DEF MonitorTyping, TypeOK, NetworkChanges
<1>5. CASE Tick
  <2>1. /\ timer' \in [Loops -> Nat]
        /\ \A l \in Loops : timer'[l] <= timer[l]
    BY <1>5 DEF MonitorTyping, TypeOK, Tick, Live
  <2>2. deadline' \in 0..JoinTimeout
    BY <1>5, Timeout DEF MonitorTyping, TypeOK, Tick
  <2>3. UNCHANGED <<network, running, status, thread, pc, heard, old, joining, told,
                    caught, overlapped>>
    BY <1>5 DEF Tick
  <2>. QED
    BY <2>1, <2>2, <2>3, TimeAssumption DEF MonitorTyping, TypeOK
<1>. QED
  BY <1>1, <1>2, <1>3, <1>4, <1>5

LEMMA TypingStep == MonitorTyping /\ [Next]_vars => MonitorTyping'
<1>. SUFFICES ASSUME MonitorTyping, [Next]_vars PROVE MonitorTyping'
  OBVIOUS
<1>1. ASSUME NEW l \in Loops, LoopStep(l)
      PROVE  MonitorTyping'
  BY <1>1, LoopTyping, LoopLeaves DEF MonitorTyping, StoppedHasNoThread
<1>2. CASE (\E l \in Loops : Start(l)) \/ Stop \/ StopReturns \/ NetworkChanges \/ Tick
  <2>1. StoppedHasNoThread'
    BY <1>2
    DEF MonitorTyping, StoppedHasNoThread, Start, Stop, StopReturns, NetworkChanges, Tick
  <2>. QED
    BY <1>2, <2>1, ControllerTyping DEF MonitorTyping
<1>3. CASE UNCHANGED vars
  BY <1>3 DEF MonitorTyping, TypeOK, StoppedHasNoThread, vars
<1>. QED
  BY <1>1, <1>2, <1>3 DEF Next

LEMMA TypingInit == Init => MonitorTyping
<1>. SUFFICES ASSUME Init PROVE MonitorTyping
  OBVIOUS
<1>1. /\ pc \in [Loops -> PCs] /\ timer \in [Loops -> Nat]
      /\ heard \in [Loops -> Statuses] /\ old \in [Loops -> Statuses]
  BY DEF Init, PCs, Statuses
<1>2. \A l \in Loops : timer[l] <= (IF pc[l] = "sleep" THEN Interval ELSE CheckBound)
  BY TimeAssumption DEF Init
<1>3. deadline \in 0..JoinTimeout
  BY Timeout DEF Init
<1>. QED
  BY <1>1, <1>2, <1>3 DEF Init, MonitorTyping, TypeOK, StoppedHasNoThread, Statuses

\* One controller: what stop joins is the thread the monitor still names, and
\* no wait is longer than it was told to be.
THEOREM TypeCorrect == Spec => []TypeOK
<1>1. MonitorTyping => TypeOK
  BY DEF MonitorTyping
<1>. QED
  BY <1>1, TypingInit, TypingStep, PTL DEF Spec

-----------------------------------------------------------------------------

\* What stop joins stops in time: it has been told to, and its sleep ends
\* before the join gives up.  Only a request can last longer, and a loop that
\* was in one is in caught.
JoinedLoopEndsInTime ==
  joining # NoLoop =>
    /\ ~running
    /\ joining \in Live \ caught =>
         /\ deadline > 0
         /\ pc[joining] # "check"
         /\ pc[joining] \in {"read", "write", "notify"} => deadline > Interval
         /\ pc[joining] = "sleep" => deadline > timer[joining]

MonitorInv == MonitorTyping /\ JoinedLoopEndsInTime /\ LostLoopsWereChecking

LEMMA StartLoses ==
  ASSUME MonitorInv, NEW l \in Loops, Start(l)
  PROVE  JoinedLoopEndsInTime' /\ LostLoopsWereChecking'
<1>1. /\ pc' = [pc EXCEPT ![l] = "test"] /\ thread' = l /\ thread = NoLoop
      /\ joining' = NoLoop /\ caught' = caught
  BY DEF Start, MonitorInv, MonitorTyping, StoppedHasNoThread
<1>2. Live' \subseteq Live \cup {l}
  BY <1>1 DEF Live, MonitorInv, MonitorTyping, TypeOK
<1>3. Live \subseteq caught
  BY <1>1, LoopIds DEF MonitorInv, LostLoopsWereChecking, Live
<1>. QED
  BY <1>1, <1>2, <1>3 DEF JoinedLoopEndsInTime, LostLoopsWereChecking

LEMMA StopLoses ==
  ASSUME MonitorInv, Stop
  PROVE  JoinedLoopEndsInTime' /\ LostLoopsWereChecking'
<1>1. /\ running' = FALSE /\ joining' = thread /\ UNCHANGED <<thread, pc, timer>>
      /\ caught' = caught \cup {l \in {thread} \cap Loops : pc[l] = "check"}
      /\ thread # NoLoop => deadline' = JoinTimeout
  BY DEF Stop
<1>2. Live' = Live
  BY <1>1 DEF Live
<1>3. LostLoopsWereChecking'
  BY <1>1, <1>2 DEF MonitorInv, LostLoopsWereChecking
<1>4. JoinedLoopEndsInTime'
  <2>1. SUFFICES ASSUME thread # NoLoop, thread \in Live \ caught'
                 PROVE  /\ deadline' > 0 /\ pc[thread] # "check" /\ deadline' > Interval
                        /\ pc[thread] = "sleep" => deadline' > timer[thread]
    BY <1>1, <1>2 DEF JoinedLoopEndsInTime
  <2>2. thread \in Loops /\ pc[thread] # "check"
    BY <1>1, <2>1 DEF Live
  <2>3. deadline' = Interval + 1
    BY <1>1, <2>1, Timeout
  <2>4. pc[thread] = "sleep" => timer[thread] <= Interval
    BY <2>2 DEF MonitorInv, MonitorTyping, TypeOK
  <2>5. timer[thread] \in Nat
    BY <2>2 DEF MonitorInv, MonitorTyping, TypeOK
  <2>. QED
    BY <2>2, <2>3, <2>4, <2>5, TimeAssumption
<1>. QED
  BY <1>3, <1>4

\* A join that returns on a live loop has waited for one that was in a request.
LEMMA ReturnLoses ==
  ASSUME MonitorInv, StopReturns
  PROVE  JoinedLoopEndsInTime' /\ LostLoopsWereChecking'
<1>1. /\ joining # NoLoop /\ joining' = NoLoop /\ UNCHANGED <<pc, caught>>
      /\ joining \notin Live \/ deadline = 0
  BY DEF StopReturns
<1>2. joining = thread
  BY <1>1 DEF MonitorInv, MonitorTyping, TypeOK
<1>3. thread \in Live => thread \in caught
  BY <1>1, <1>2 DEF MonitorInv, JoinedLoopEndsInTime
<1>4. Live' = Live
  BY <1>1 DEF Live
<1>. QED
  BY <1>1, <1>3, <1>4 DEF MonitorInv, JoinedLoopEndsInTime, LostLoopsWereChecking

LEMMA TickLoses ==
  ASSUME MonitorInv, Tick
  PROVE  JoinedLoopEndsInTime' /\ LostLoopsWereChecking'
<1>1. UNCHANGED <<running, thread, pc, joining, caught>>
  BY DEF Tick
<1>2. Live' = Live
  BY <1>1 DEF Live
<1>3. LostLoopsWereChecking'
  BY <1>1, <1>2 DEF MonitorInv, LostLoopsWereChecking
<1>4. JoinedLoopEndsInTime'
  <2>1. SUFFICES ASSUME joining # NoLoop, joining \in Live \ caught
                 PROVE  /\ deadline' > 0 /\ pc[joining] = "sleep"
                        /\ deadline' > timer'[joining]
    BY <1>1, <1>2 DEF MonitorInv, JoinedLoopEndsInTime
  <2>2. pc[joining] = "sleep" /\ timer[joining] > 0 /\ deadline > timer[joining]
    BY <2>1 DEF MonitorInv, JoinedLoopEndsInTime, Tick
  <2>3. timer'[joining] = timer[joining] - 1 /\ deadline' = deadline - 1
    BY <2>1 DEF Tick, Live
  <2>4. timer[joining] \in Nat /\ deadline \in Int
    BY <2>1, Timeout DEF MonitorInv, MonitorTyping, TypeOK, Live
  <2>. QED
    BY <2>2, <2>3, <2>4
<1>. QED
  BY <1>3, <1>4

LEMMA LoopLoses ==
  ASSUME MonitorInv, NEW l \in Loops, LoopStep(l)
  PROVE  JoinedLoopEndsInTime' /\ LostLoopsWereChecking'
<1>1. UNCHANGED <<running, thread, joining, deadline, caught>>
  BY LoopLeaves
<1>2. Live' \subseteq Live
  <2>1. pc[l] \notin {"new", "ended", "died"}
    BY DEF LoopStep, Test, CheckReturns, LoopDies, ReadStatus, WriteStatus, Notify, Wake
  <2>2. \A k \in Loops : k # l => pc'[k] = pc[k]
    BY OtherLoops DEF MonitorInv, MonitorTyping
  <2>. QED
    BY <2>1, <2>2 DEF Live
<1>3. LostLoopsWereChecking'
  BY <1>1, <1>2 DEF MonitorInv, LostLoopsWereChecking
<1>4. JoinedLoopEndsInTime'
  <2>1. SUFFICES ASSUME joining # NoLoop, joining \in Live' \ caught
                 PROVE  /\ deadline > 0
                        /\ pc'[joining] # "check"
                        /\ pc'[joining] \in {"read", "write", "notify"} => deadline > Interval
                        /\ pc'[joining] = "sleep" => deadline > timer'[joining]
    BY <1>1 DEF MonitorInv, JoinedLoopEndsInTime
  <2>2. /\ joining \in Live \ caught /\ joining \in Loops /\ ~running
        /\ deadline > 0
        /\ pc[joining] # "check"
        /\ pc[joining] \in {"read", "write", "notify"} => deadline > Interval
        /\ pc[joining] = "sleep" => deadline > timer[joining]
    BY <2>1, <1>2 DEF MonitorInv, JoinedLoopEndsInTime, Live
  <2>3. CASE l # joining
    <3>1. pc'[joining] = pc[joining] /\ timer'[joining] = timer[joining]
      BY <2>2, <2>3, OtherLoops DEF MonitorInv, MonitorTyping
    <3>. QED
      BY <2>2, <3>1
  <2>4. CASE l = joining
    <3>1. CASE Test(l)
      BY <2>2, <2>4, <3>1 DEF Test, Goto, MonitorInv, MonitorTyping, TypeOK
    <3>2. CASE CheckReturns(l) \/ LoopDies(l)
      BY <2>2, <2>4, <3>2 DEF CheckReturns, LoopDies
    <3>3. CASE ReadStatus(l)
      BY <2>2, <2>4, <3>3 DEF ReadStatus, Goto, MonitorInv, MonitorTyping, TypeOK
    <3>4. CASE WriteStatus(l)
      BY <2>2, <2>4, <3>4
      DEF WriteStatus, PollReturns, Wait, Goto, MonitorInv, MonitorTyping, TypeOK
    <3>5. CASE Notify(l)
      BY <2>2, <2>4, <3>5
      DEF Notify, PollReturns, Wait, Goto, MonitorInv, MonitorTyping, TypeOK
    <3>6. CASE Wake(l)
      BY <2>2, <2>4, <3>6 DEF Wake, Goto, MonitorInv, MonitorTyping, TypeOK
    <3>. QED
      BY <3>1, <3>2, <3>3, <3>4, <3>5, <3>6 DEF LoopStep
  <2>. QED
    BY <2>3, <2>4
<1>. QED
  BY <1>3, <1>4

\* A loop the monitor has lost sight of was inside a request when stop came,
\* whatever the interval and however long a request may take.
THEOREM OnlyRequestsOutliveStop == Spec => []LostLoopsWereChecking
<1>1. Init => MonitorInv
  BY TypingInit
  DEF Init, MonitorInv, JoinedLoopEndsInTime, LostLoopsWereChecking, Live
<1>2. MonitorInv /\ [Next]_vars => MonitorInv'
  <2>. SUFFICES ASSUME MonitorInv, [Next]_vars PROVE MonitorInv'
    OBVIOUS
  <2>1. MonitorTyping'
    BY TypingStep DEF MonitorInv
  <2>2. CASE \E l \in Loops : Start(l) \/ LoopStep(l)
    BY <2>1, <2>2, StartLoses, LoopLoses DEF MonitorInv
  <2>3. CASE Stop
    BY <2>1, <2>3, StopLoses DEF MonitorInv
  <2>4. CASE StopReturns
    BY <2>1, <2>4, ReturnLoses DEF MonitorInv
  <2>5. CASE Tick
    BY <2>1, <2>5, TickLoses DEF MonitorInv
  <2>6. CASE NetworkChanges
    BY <2>1, <2>6
    DEF NetworkChanges, MonitorInv, JoinedLoopEndsInTime, LostLoopsWereChecking, Live
  <2>7. CASE UNCHANGED vars
    BY <2>1, <2>7 DEF vars, MonitorInv, JoinedLoopEndsInTime, LostLoopsWereChecking, Live
  <2>. QED
    BY <2>2, <2>3, <2>4, <2>5, <2>6, <2>7 DEF Next
<1>3. MonitorInv => LostLoopsWereChecking
  BY DEF MonitorInv
<1>. QED
  BY <1>1, <1>2, <1>3, PTL DEF Spec

-----------------------------------------------------------------------------

OneLoop == \A k, l \in Live : k = l

\* What a loop carries from the read of the status to its callbacks.
PollKnows ==
  \A l \in Loops : /\ pc[l] = "write" => old[l] = status
                   /\ pc[l] = "notify" => heard[l] = status

AloneInv == ~overlapped => OneLoop /\ PollKnows /\ CallbacksKnowStatus

CallbackInv == MonitorTyping /\ AloneInv

\* A step that writes no status and calls no callback.
LEMMA QuietCallbacks ==
  ASSUME CallbackInv, ~overlapped', UNCHANGED <<status, told, overlapped>>,
         Live' \subseteq Live,
         \A l \in Loops :
           /\ pc'[l] \in {"write", "notify"} => pc'[l] = pc[l] /\ heard'[l] = heard[l]
                                                 /\ old'[l] = old[l]
           /\ pc[l] = "notify" => pc'[l] = "notify"
  PROVE  AloneInv'
BY DEF CallbackInv, AloneInv, OneLoop, PollKnows, CallbacksKnowStatus

LEMMA LoopCallbacks ==
  ASSUME CallbackInv, NEW l \in Loops, LoopStep(l)
  PROVE  AloneInv'
<1>1. SUFFICES ASSUME ~overlapped' PROVE OneLoop' /\ PollKnows' /\ CallbacksKnowStatus'
  BY DEF AloneInv
<1>2. OneLoop /\ PollKnows /\ CallbacksKnowStatus /\ ~overlapped
  BY <1>1, LoopLeaves DEF CallbackInv, AloneInv
<1>3. l \in Live /\ \A k \in Loops : pc[k] \in {"write", "notify"} => k = l
  BY <1>2
  DEF LoopStep, Test, CheckReturns, LoopDies, ReadStatus, WriteStatus, Notify, Wake, Live,
      OneLoop
<1>4. /\ pc \in [Loops -> PCs] /\ heard \in [Loops -> Statuses] /\ old \in [Loops -> Statuses]
      /\ \A k \in Loops \ {l} : pc'[k] = pc[k] /\ pc'[k] \notin {"write", "notify"}
  BY <1>3, OtherLoops DEF CallbackInv, MonitorTyping, TypeOK
<1>5. OneLoop'
  BY <1>2, <1>3, <1>4 DEF OneLoop, Live
<1>6. CASE Test(l) \/ CheckReturns(l) \/ LoopDies(l) \/ Wake(l)
  <2>1. pc'[l] \notin {"write", "notify"} /\ pc[l] # "notify" /\ UNCHANGED <<status, told>>
    BY <1>4, <1>6 DEF Test, CheckReturns, LoopDies, Wake, Wait, Goto
  <2>. QED
    BY <1>2, <1>3, <1>4, <1>5, <2>1 DEF PollKnows, CallbacksKnowStatus
<1>7. CASE ReadStatus(l)
  <2>1. /\ pc'[l] = "write" /\ pc[l] = "read" /\ old'[l] = status
        /\ UNCHANGED <<status, told>>
    BY <1>4, <1>7 DEF ReadStatus, Goto
  <2>. QED
    BY <1>2, <1>3, <1>4, <1>5, <2>1 DEF PollKnows, CallbacksKnowStatus
<1>8. CASE WriteStatus(l)
  <2>1. pc[l] = "write" /\ status' = heard[l] /\ told' = told /\ told = status
    BY <1>2, <1>3, <1>8 DEF WriteStatus, CallbacksKnowStatus
  <2>2. CASE heard[l] = old[l]
    <3>1. pc'[l] = "sleep" /\ status' = status
      BY <1>2, <1>4, <1>8, <2>1, <2>2 DEF WriteStatus, PollReturns, Wait, Goto, PollKnows
    <3>. QED
      BY <1>4, <1>5, <2>1, <3>1 DEF PollKnows, CallbacksKnowStatus
  <2>3. CASE heard[l] # old[l]
    <3>1. pc'[l] = "notify" /\ heard' = heard
      BY <1>4, <1>8, <2>3 DEF WriteStatus, Goto
    <3>. QED
      BY <1>4, <1>5, <2>1, <3>1 DEF PollKnows, CallbacksKnowStatus
  <2>. QED
    BY <2>2, <2>3
<1>9. CASE Notify(l)
  <2>1. told' = heard[l] /\ heard[l] = status /\ status' = status /\ pc'[l] = "sleep"
    BY <1>2, <1>4, <1>9 DEF Notify, PollReturns, Wait, Goto, PollKnows
  <2>. QED
    BY <1>4, <1>5, <2>1 DEF PollKnows, CallbacksKnowStatus
<1>. QED
  BY <1>6, <1>7, <1>8, <1>9 DEF LoopStep

LEMMA StartCallbacks ==
  ASSUME CallbackInv, NEW l \in Loops, Start(l)
  PROVE  AloneInv'
<1>1. SUFFICES ASSUME ~overlapped' PROVE OneLoop' /\ PollKnows' /\ CallbacksKnowStatus'
  BY DEF AloneInv
<1>2. /\ ~overlapped /\ Live = {} /\ pc' = [pc EXCEPT ![l] = "test"]
      /\ UNCHANGED <<status, heard, old, told>>
  BY <1>1 DEF Start
<1>3. OneLoop /\ PollKnows /\ CallbacksKnowStatus
  BY <1>2 DEF CallbackInv, AloneInv
<1>4. pc \in [Loops -> PCs] /\ \A k \in Loops : pc[k] # "notify"
  BY <1>2 DEF CallbackInv, MonitorTyping, TypeOK, Live
<1>5. OneLoop'
  BY <1>2, <1>4 DEF OneLoop, Live
<1>. QED
  BY <1>2, <1>3, <1>4, <1>5 DEF PollKnows, CallbacksKnowStatus

LEMMA CallbackStep == CallbackInv /\ [Next]_vars => CallbackInv'
<1>. SUFFICES ASSUME CallbackInv, [Next]_vars PROVE CallbackInv'
  OBVIOUS
<1>1. MonitorTyping'
  BY TypingStep DEF CallbackInv
<1>2. CASE \E l \in Loops : Start(l) \/ LoopStep(l)
  BY <1>1, <1>2, StartCallbacks, LoopCallbacks DEF CallbackInv
<1>3. CASE Stop \/ StopReturns \/ NetworkChanges \/ Tick \/ UNCHANGED vars
  <2>1. UNCHANGED <<status, told, overlapped, pc, heard, old>>
    BY <1>3 DEF Stop, StopReturns, NetworkChanges, Tick, vars
  <2>2. Live' = Live
    BY <2>1 DEF Live
  <2>. QED
    BY <1>1, <2>1, <2>2, QuietCallbacks DEF CallbackInv, AloneInv
<1>. QED
  BY <1>2, <1>3 DEF Next

\* The last status the callbacks were called with is the monitor's, however
\* often it is stopped and started, as long as no two loops have polled side by
\* side (connectivity.py:54-61).
THEOREM CallbacksAreCurrent == Spec => []CallbacksKnowStatus
<1>1. Init => CallbackInv
  BY TypingInit DEF Init, CallbackInv, AloneInv, OneLoop, PollKnows, CallbacksKnowStatus, Live
<1>2. CallbackInv => CallbacksKnowStatus
  BY DEF CallbackInv, AloneInv, CallbacksKnowStatus
<1>. QED
  BY <1>1, <1>2, CallbackStep, PTL DEF Spec
=============================================================================
