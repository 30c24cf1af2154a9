------------------------ MODULE MCEvidencePipeline ------------------------
(* Small instances of EvidencePipeline: the plans callers make.            *)
EXTENDS EvidencePipeline, TLC

\* Tabs of the dashboard have no queue and differ in nothing.
Tabs == Permutations(Sessions)

Ctx(q, c, o, a) == [request |-> q, customer |-> c, order |-> o, amount |-> a]

\* One request of the planner, asked again with amounts one and two cents off,
\* and another request for the same order.  A cent is the tolerance: the checker
\* takes 0.05 for 0.06, and neither of them for 0.07.
PlannerPlans ==
  {RefundPlan(Ctx("q1", "c1", "o1", 10)),
   RefundPlan(Ctx("q1", "c1", "o1", 12)),
   RefundPlan(Ctx("q1", "c1", "o1", 14)),
   RefundPlan(Ctx("q2", "c1", "o1", 10))}

\* Those of the one request.
RacingPlans == {p \in PlannerPlans : p.context.request = "q1"}

\* One request.
OnePlan == {RefundPlan(Ctx("q1", "c1", "o1", 10))}

EmptyPlan == [context |-> Ctx("q1", "c1", "o1", 10), steps |-> <<>>]

LlmStep(id, type, checker, key) ==
  [id |-> id, type |-> type, checker |-> checker, key |-> key, rev |-> "reversible"]

\* Plans a language model or a YAML file may contain: no step at all, a step
\* id and a key used twice, a type without a tool, a step without a checker,
\* an email check on the result of another tool.
ForeignPlans ==
  {EmptyPlan,
   [EmptyPlan EXCEPT !.steps =
      <<LlmStep("S1", "check_eligibility", "eligibility", <<"eligibility", "q1">>),
        LlmStep("S1", "create_refund", "refund_exists", <<"refund", "o1">>)>>],
   [EmptyPlan EXCEPT !.steps =
      <<LlmStep("S1", "create_refund", "refund_exists", <<"refund", "o1">>),
        LlmStep("S2", "send_email", "email_outbox", <<"refund", "o1">>)>>],
   [EmptyPlan EXCEPT !.steps =
      <<LlmStep("S1", "create_refund", "email_outbox", <<"other", "q1">>)>>],
   [EmptyPlan EXCEPT !.steps =
      <<LlmStep("S1", "send_email", "other", <<"email", "q1">>),
        LlmStep("S2", "other", "eligibility", <<"other", "q1">>)>>],
   [EmptyPlan EXCEPT !.steps =
      <<LlmStep("S1", "check_eligibility", "eligibility", <<"other", "q1">>),
        LlmStep("S2", "other", "eligibility", <<"eligibility", "q1">>)>>]}

\* Planned and foreign plans together.
MixedPlans == OnePlan \cup ForeignPlans
=============================================================================
