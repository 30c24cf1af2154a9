---------------------------- MODULE EvidenceGate ----------------------------
(***************************************************************************)
(* What the pipeline promises, without plans, runners or receipts: a       *)
(* session reports COMPLETE only when all it set out to make true is true  *)
(* of the system of record, and what was once true there stays true.       *)
(***************************************************************************)
CONSTANTS Sessions, Facts

VARIABLES
  facts,   \* what is true of the system of record
  goal,    \* what a session's run is to make true
  status   \* what it reported

vars == <<facts, goal, status>>

Init ==
  /\ facts = {}
  /\ goal = [s \in Sessions |-> {}]
  /\ status = [s \in Sessions |-> "open"]

\* Some tool call of some session adds to what is true.
Learn ==
  /\ facts \subseteq facts' /\ facts' \subseteq Facts
  /\ UNCHANGED <<goal, status>>

\* A run sets out with a goal, or a process ends and has none.
Begin(s) ==
  /\ goal'[s] \subseteq Facts
  /\ goal' = [goal EXCEPT ![s] = goal'[s]]
  /\ status' = [status EXCEPT ![s] = "open"]
  /\ UNCHANGED facts

\* The gate: completion needs every postcondition of the plan.
Complete(s) ==
  /\ status[s] = "open" /\ goal[s] \subseteq facts
  /\ status' = [status EXCEPT ![s] = "COMPLETE"]
  /\ UNCHANGED <<facts, goal>>

GiveUp(s) ==
  /\ status[s] = "open"
  /\ \E r \in {"PARTIAL", "FAILED", "ESCALATED"} :
       status' = [status EXCEPT ![s] = r]
  /\ UNCHANGED <<facts, goal>>

Next ==
  \/ Learn
  \/ \E s \in Sessions : Begin(s) \/ Complete(s) \/ GiveUp(s)

Spec == Init /\ [][Next]_vars
=============================================================================
