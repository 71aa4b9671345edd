---------------------------------- MODULE Routing ----------------------------------
(***********************************************************************************)
(* The routing tables every other module shares: the statuses of a workflow_runs   *)
(* row, the Policy route, the parent-graph node a route leads to, the agent a       *)
(* human decision hands over to and the terminal state a runtime status denotes.   *)
(* These are pure functions in the code and constant operators here.               *)
(***********************************************************************************)

\* What Policy can decide.  "approve" also stands for "partial_refund": the two take
\* the same route everywhere and differ only in the amount.
PolicyDecisions == {"approve", "deny", "request_info", "manual_review"}

\* What a reviewer can decide.
ReviewDecisions == {"approve", "partial_refund", "deny"}

Stages == {"triage", "policy", "response"}

WorkflowStatuses == {"running", "waiting_user", "pending_human", "completed", "failed"}

WorkflowAgents == {"triage_agent", "policy_agent", "refund_agent", "response_agent",
                   "human_approval", "completed", "failed"}

\* Statuses under which a replay repairs the terminal marker instead of running stages.
TerminalStatuses == {"completed", "waiting_user", "pending_human"}

route_policy(decision, blocked) ==
  IF blocked THEN "human_review"
  ELSE [approve |-> "refund", deny |-> "response", request_info |-> "response",
        manual_review |-> "human_review"][decision]

parent_agent_for_route(route) ==
  [refund |-> "refund_agent", response |-> "response_agent",
   human_review |-> "human_approval"][route]

PolicyNextAgent(decision, blocked) ==
  parent_agent_for_route(route_policy(decision, blocked))

PolicyRoutes == {"refund_agent", "response_agent", "human_approval"}

\* Seeded fault: a Response review is routed by the Policy decision too.
ApprovedNextAgent_NoRelease(stage, decision) ==
  IF stage = "triage" THEN "policy_agent"
  ELSE IF decision \in {"approve", "manual_review"} THEN "refund_agent" ELSE "response_agent"

\* The agent an approved review hands over to: fixed for Triage and Response reviews,
\* read off the Policy decision for Policy reviews.
ApprovedNextAgent(stage, decision) ==
  CASE stage = "triage"   -> "policy_agent"
    [] stage = "response" -> "end"
    [] stage = "policy"   -> IF decision \in {"approve", "manual_review"}
                               THEN "refund_agent" ELSE "response_agent"

RejectedNextAgent == "response_agent"

ReviewNextAgents == {"policy_agent", "refund_agent", "response_agent", "end"}

ResolutionStatus(decision) ==
  IF decision \in {"approve", "partial_refund"} THEN "approved" ELSE "rejected"

\* workflow_runs after Policy persisted a route.
PolicyWorkflowState(route) ==
  IF route = "human_approval"
    THEN [status |-> "pending_human", agent |-> "human_approval"]
    ELSE [status |-> "running", agent |-> route]

\* Seeded fault: the status is written where an agent belongs.
TerminalWorkflowState_StatusAsAgent(status) == [status |-> status, agent |-> status]

\* The (workflow_status, current_agent) pair written with a terminal marker.
TerminalWorkflowState(status) ==
  [status |-> status,
   agent  |-> CASE status = "pending_human" -> "human_approval"
                [] status = "waiting_user"  -> "triage_agent"
                [] status = "completed"     -> "completed"]

\* Seeded fault: a clean answer releases the pause of an earlier stage.
InitialResponseStatus_Released(r) ==
  IF r.blocked THEN "pending_human"
  ELSE IF r.decision \in {"none", "request_info"} THEN "waiting_user" ELSE "completed"

\* The status a run of the parent graph persists with its answer: r holds the Policy
\* decision ("none" when Triage skipped Policy), the verdict on the draft and the pause.
InitialResponseStatus(r) ==
  IF r.blocked \/ r.paused THEN "pending_human"
  ELSE IF r.decision \in {"none", "request_info"} THEN "waiting_user" ELSE "completed"
====================================================================================
