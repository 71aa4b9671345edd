---------------------------------- MODULE RefundCase ----------------------------------
(***********************************************************************************)
(* A refund case from its first message: the parent graph runs Triage, Policy, Refund,*)
(* Response and the human-approval node once, and the approval service works on the    *)
(* same trace beside it.  The run holds no claim, so nothing fences its writes, and a   *)
(* review it has opened can be decided while it is still drafting its answer.           *)
(***********************************************************************************)
EXTENDS HumanApproval

VARIABLES
  run,            \* the parent graph's state: next node, route evidence and decision
  allowed         \* Response governance events that allow, by the marker they carry

caseVars == <<vars, run, allowed>>

RunNodes == {"triage_governance", "triage", "policy", "refund", "human_approval",
             "response_governance", "response", "verify", "failing", "end"}

\* decision: of Policy, once it ran; stage: review_trigger_stage; blocked: the verdict of
\* the governance node that ran last; paused: human_review_required.
CaseTypeOK ==
  /\ TypeOK
  /\ run \in [node : RunNodes, decision : PolicyDecisions \cup {"none"}, stage : Stages,
              blocked : BOOLEAN, paused : BOOLEAN]
  /\ allowed \subseteq Claims

Running(node) == run.node = node

Proceed(node) == run' = [run EXCEPT !.node = node]

------------------------------------------------------------------------------------
(* The nodes of the parent graph, one transaction each.                             *)

TriageGovernance(blocked) ==
  /\ Running("triage_governance")
  /\ blocks' = IF blocked THEN blocks \cup {[stage |-> "triage", claim |-> NoClaim]} ELSE blocks
  /\ run' = [run EXCEPT !.node = "triage", !.blocked = blocked]
  /\ UNCHANGED <<wf, fresh, nAppr, appr, claim, revoked, done, policyRows, responseRows,
                 refunds, req, allowed>>

\* A message without an order asks the customer for one; that answer is Response's.
PersistTriage(next) ==
  /\ Running("triage")
  /\ next \in IF run.blocked THEN {"human_approval"} ELSE {"policy_agent", "response_agent"}
  /\ wf' = PolicyWorkflowState(next)
  /\ fresh' = TRUE
  /\ Proceed([policy_agent |-> "policy", response_agent |-> "response_governance",
              human_approval |-> "human_approval"][next])
  /\ UNCHANGED <<nAppr, appr, claim, revoked, done, policyRows, responseRows, blocks, refunds,
                 req, allowed>>

RunPolicy(decision, blocked) ==
  LET route == PolicyNextAgent(decision, blocked)
  IN /\ Running("policy")
     /\ PolicyHistoryMutable
     /\ policyRows' = {[claim |-> NoClaim, decision |-> decision, route |-> route]}
     /\ blocks' = IF blocked THEN blocks \cup {[stage |-> "policy", claim |-> NoClaim]}
                  ELSE blocks
     /\ PersistPolicyApproval(decision, route, NoClaim)
     /\ wf' = PolicyWorkflowState(route)
     /\ fresh' = TRUE
     /\ run' = [run EXCEPT !.decision = decision, !.blocked = blocked, !.stage = "policy",
                  !.node = [refund_agent |-> "refund", response_agent |-> "response_governance",
                            human_approval |-> "human_approval"][route]]
     /\ UNCHANGED <<claim, revoked, done, responseRows, refunds, req, allowed>>

RunRefund ==
  /\ Running("refund")
  /\ refunds' = refunds \cup {0}
  /\ wf' = [status |-> "running", agent |-> "response_agent"]
  /\ fresh' = TRUE
  /\ Proceed("response_governance")
  /\ UNCHANGED <<nAppr, appr, claim, revoked, done, policyRows, responseRows, blocks, req,
                 allowed>>

\* After a blocked draft the graph ends here; a Triage or Policy review goes on to tell
\* the customer about the pause.
AfterHumanApproval == IF run.stage = "response" THEN "verify" ELSE "response_governance"

\* ensure_human_approval without a claim: it hands back the pending review, or opens one
\* for the newest blocking event of its stage, else for the Policy review event.
HumanApprovalNode ==
  /\ Running("human_approval")
  /\ Cardinality(Pending) <= 1
  /\ run' = [run EXCEPT !.node = AfterHumanApproval, !.paused = TRUE]
  /\ \/ /\ Pending # {}
        /\ UNCHANGED <<wf, fresh, nAppr, appr>>
     \/ LET markers == {b.claim : b \in {e \in blocks : e.stage = run.stage}}
        IN /\ Pending = {}
           /\ run.stage = "policy" \/ markers # {}
           /\ \E m \in IF markers = {} THEN {NoClaim} ELSE markers :
                InsertReview(PendingRow(run.stage, FALSE, run.decision, m))
           /\ wf' = TerminalWorkflowState("pending_human")
           /\ fresh' = TRUE
  /\ UNCHANGED <<claim, revoked, done, policyRows, responseRows, blocks, refunds, req, allowed>>

\* Without a claim the one Response event of the trace is replaced, whoever wrote it;
\* several are an error.
RunResponseGovernance(blocked) ==
  LET drafted == {b.claim : b \in {e \in blocks : e.stage = "response"}} \cup allowed
  IN /\ Running("response_governance")
     /\ Cardinality(drafted) <= 1
     /\ blocks' = {b \in blocks : b.stage # "response"} \cup
                    (IF blocked THEN {[stage |-> "response", claim |-> NoClaim]} ELSE {})
     /\ allowed' = IF blocked THEN {} ELSE {NoClaim}
     /\ run' = [run EXCEPT !.node = "response", !.blocked = blocked,
                           !.stage = IF blocked THEN "response" ELSE @]
     /\ UNCHANGED <<wf, fresh, nAppr, appr, claim, revoked, done, policyRows, responseRows,
                    refunds, req>>

\* The one Response handoff of the trace is replaced likewise.
RunPersistResponse ==
  /\ Running("response")
  /\ Cardinality(responseRows) <= 1
  /\ responseRows' = {[claim |-> NoClaim, blocked |-> run.blocked]}
  /\ wf' = TerminalWorkflowState(InitialResponseStatus(run))
  /\ fresh' = TRUE
  /\ Proceed(IF run.blocked THEN "human_approval" ELSE "verify")
  /\ UNCHANGED <<nAppr, appr, claim, revoked, done, policyRows, blocks, refunds, req, allowed>>

\* The runner reads back what the graph persisted; a mismatch is reported, not raised.
VerifyPersisted == Running("verify") /\ Proceed("end") /\ UNCHANGED <<vars, allowed>>

\* Azure, the database or a refused write raises.
RunRaises ==
  run.node \notin {"failing", "end"} /\ Proceed("failing") /\ UNCHANGED <<vars, allowed>>

\* record_workflow_failure asks nobody whether a continuation is under way.
RecordWorkflowFailure ==
  /\ Running("failing")
  /\ wf' = [status |-> "failed", agent |-> "failed"]
  /\ fresh' = TRUE
  /\ Proceed("end")
  /\ UNCHANGED <<nAppr, appr, claim, revoked, done, policyRows, responseRows, blocks, refunds,
                 req, allowed>>

RunDies == run.node # "end" /\ Proceed("end") /\ UNCHANGED <<vars, allowed>>

InitialRun ==
  \/ \E b \in BOOLEAN : TriageGovernance(b)
  \/ \E n \in {"policy_agent", "response_agent", "human_approval"} : PersistTriage(n)
  \/ \E d \in PolicyDecisions, b \in BOOLEAN : RunPolicy(d, b)
  \/ RunRefund
  \/ HumanApprovalNode
  \/ \E b \in BOOLEAN : RunResponseGovernance(b)
  \/ RunPersistResponse
  \/ VerifyPersisted
  \/ RunRaises
  \/ RecordWorkflowFailure
  \/ RunDies

------------------------------------------------------------------------------------
(* The approval service, unchanged, beside the run.                                 *)

\* A continuation that drafts an answer saves its verdict as an event of its own.
DraftAllowed(w) ==
  req[w].pc = "response" /\ req'[w].pc = "persist_response" /\ req'[w].status # "pending_human"

Continuation(w) ==
  /\ Resolve(w) \/ RunStage(w) \/ Fail(w)
  /\ allowed' = IF DraftAllowed(w) THEN allowed \cup {claim} ELSE allowed

CaseInit ==
  /\ wf = [status |-> "running", agent |-> "triage_agent"]
  /\ fresh = TRUE
  /\ nAppr = 0
  /\ appr = [a \in Approvals |-> AbsentRow]
  /\ claim = NoClaim
  /\ revoked = {} /\ refunds = {}
  /\ done = [a \in Approvals |-> NoRecord]
  /\ policyRows = {} /\ responseRows = {} /\ blocks = {} /\ allowed = {}
  /\ req = [w \in Workers |-> Idle]
  /\ run = [node |-> "triage_governance", decision |-> "none", stage |-> "triage",
            blocked |-> FALSE, paused |-> FALSE]

CaseNext ==
  \/ InitialRun
  \/ LeaseExpires /\ UNCHANGED <<run, allowed>>
  \/ \E w \in Workers : Continuation(w) /\ UNCHANGED run

CaseSpec == CaseInit /\ [][CaseNext]_caseVars
------------------------------------------------------------------------------------
(* Properties.                                                                      *)

\* A run that has ended leaves a trace HumanApproval starts from: one undecided review, of
\* a case that waits or has failed, and a refund only before a Response review.  What is
\* proved of HumanApproval therefore holds of every case no reviewer touched too early.
HandsOver ==
  (Running("end") /\ claim = NoClaim /\ Pending # {}) =>
    /\ wf \in {TerminalWorkflowState("pending_human"), [status |-> "failed", agent |-> "failed"]}
    /\ nAppr = 1
    /\ appr[1] \in InitialReviews
    /\ refunds = {} \/ (refunds = {0} /\ appr[1].stage = "response")

\* The refund the initial run issued is the case's last, whatever reviews follow it.
InitialRefundIsLast == 0 \in refunds => refunds = {0}

\* "upserts one human approval when routed to human_approval" (agents/policy/README.md):
\* the one Policy decision of the run asks a reviewer once.
OneReviewPerRoute ==
  \A a, b \in Approvals :
    (appr[a].stage = "policy" /\ appr[b].stage = "policy"
       /\ appr[a].trigger = NoClaim /\ appr[b].trigger = NoClaim) => a = b

\* "pending_human terminal state requires its exact pending approval" (the check in
\* mark_human_approval_continuation): a case that is at rest after a recorded end and says
\* it waits for a reviewer has a review to decide.
PauseHasReview ==
  (/\ Running("end") /\ \A w \in Workers : req[w].pc = "idle"
   /\ claim.appr \in Finished /\ wf.status = "pending_human") => Pending # {}
====================================================================================
