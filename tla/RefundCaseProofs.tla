------------------------------ MODULE RefundCaseProofs ------------------------------
(***********************************************************************************)
(* Proofs about RefundCase, for any number of requests, reviews and claims.  The run   *)
(* holds no claim and nothing fences it, so its safety rests on what has not happened    *)
(* yet: until its refund nobody was asked anything, and until a reviewer decides, every   *)
(* row of the trace is its own.                                                            *)
(***********************************************************************************)
EXTENDS RefundCase, HumanApprovalProofs

------------------------------------------------------------------------------------
(* The inductive invariants.                                                        *)

CaseTypes ==
  /\ TypeInv
  /\ run \in [node : RunNodes, decision : PolicyDecisions \cup {"none"}, stage : Stages,
              blocked : BOOLEAN, paused : BOOLEAN]
  /\ allowed \subseteq Claims

\* Until the run has paid, or has had no reason to, there is nothing a reviewer could see.
Untouched ==
  /\ nAppr = 0 /\ claim = NoClaim /\ refunds = {}
  /\ \A a \in Approvals : appr[a] = AbsentRow
  /\ \A w \in Workers : req[w] = Idle

Opening ==
  /\ run.node \in {"triage_governance", "triage", "policy", "refund"} => Untouched
  /\ run.node \in {"triage_governance", "triage"} => run.stage = "triage"
  /\ (run.node = "response" /\ run.blocked) => run.stage = "response"

\* Where a request can be that releases or rejects an answer.
ReleasePcs == {"idle", "enter_response", "response", "persist_response", "response_review",
               "enter_recover_review", "recover_review", "mark", "recover_mark", "failing"}

\* Once the run has paid, only its answer is ever reviewed.
RunPaid ==
  0 \in refunds =>
    /\ refunds = {0}
    /\ run.node \in RunNodes \ {"triage_governance", "triage", "policy", "refund"}
    /\ run.node = "human_approval" => run.stage = "response"
    /\ \A a \in Approvals : appr[a].status # "absent" => appr[a].approved_next = "end"
    /\ \A w \in Workers : req[w].pc \in ReleasePcs

\* Before the first decision every row is the run's: it has asked at most one question, of
\* a case that waits for the answer or has failed.
Undecided ==
  claim = NoClaim =>
    /\ \A w \in Workers : req[w] = Idle
    /\ \A a \in Approvals : done[a] = NoRecord
    /\ \A r \in policyRows \cup responseRows \cup blocks : r.claim = NoClaim
    /\ \A r, s \in policyRows : r = s
    /\ refunds \subseteq {0}
    /\ \A a \in Approvals : a > nAppr => appr[a] = AbsentRow
    /\ nAppr # 0 =>
         /\ nAppr = 1 /\ appr[1] \in InitialReviews
         /\ \/ wf = TerminalWorkflowState("pending_human")
            \/ run.node = "end" /\ wf = [status |-> "failed", agent |-> "failed"]
         /\ run.node \in {"response_governance", "response"} => run.paused
    /\ (run.node = "human_approval" /\ run.stage = "policy") => nAppr = 1

CaseInv == CaseTypes /\ Opening /\ RunPaid /\ Undecided

------------------------------------------------------------------------------------
(* Types of the run's steps.                                                        *)

LEMMA NoClaimType == NoClaim \in Claims /\ 0 \notin Approvals /\ NoClaim.appr = 0 /\ NoClaim.seq = 0
BY BoundsAssumption DEF NoClaim, Claims, Approvals

\* Rows without a marker are in order whatever the claims are.
LEMMA UnmarkedOrdered ==
  ASSUME TypeInv, NEW rows, \A r \in rows : r.claim = NoClaim
  PROVE  RowsOrdered(rows)
<1>1. claim.seq \in Nat
  BY DEF TypeInv, TypeOK, Claims
<1>2. \A a \in Approvals : OwnRows(rows, a) = {}
  BY NoClaimType DEF OwnRows
<1> QED BY <1>1, <1>2, NoClaimType DEF RowsOrdered

\* The steps that write no review, no claim and no stage row of a continuation.
LEMMA RunWriteTypes ==
  ASSUME TypeInv, UNCHANGED <<nAppr, appr, claim, revoked, done, policyRows, responseRows, req>>,
         refunds' \subseteq 0..MaxApprovals, blocks' \subseteq [stage : Stages, claim : Claims],
         wf' \in [status : WorkflowStatuses, agent : WorkflowAgents], fresh' \in BOOLEAN
  PROVE  TypeInv'
BY MarkersUnchanged DEF TypeInv, TypeOK

LEMMA InitCase == CaseInit => CaseInv
<1> SUFFICES ASSUME CaseInit PROVE CaseInv
  OBVIOUS
<1>0. /\ NoClaim \in Claims /\ AbsentRow \in ApprovalRows /\ Idle \in Requests
      /\ NoRecord \in Records /\ 0 \in 0..MaxApprovals
  BY BoundsAssumption
  DEF NoClaim, Claims, AbsentRow, ApprovalRows, Stages, ReviewNextAgents, Idle, Requests, Pcs,
      TerminalStatuses, NoRecord, Records
<1>1. TypeOK
  BY <1>0 DEF CaseInit, TypeOK, WorkflowStatuses, WorkflowAgents
<1>2. ClaimOK /\ RowsOrdered(policyRows) /\ RowsOrdered(responseRows)
  BY DEF CaseInit, ClaimOK, RowsOrdered, OwnRows
<1>3. CaseTypes
  BY <1>1, <1>2 DEF CaseInit, CaseTypes, TypeInv, RunNodes, Stages
<1>4. Opening
  BY DEF CaseInit, Opening, Untouched
<1>5. RunPaid /\ Undecided
  BY DEF CaseInit, RunPaid, Undecided
<1> QED BY <1>3, <1>4, <1>5 DEF CaseInv

------------------------------------------------------------------------------------
(* The steps of the run.                                                            *)

LEMMA TriageGovernanceKeeps ==
  ASSUME CaseInv, NEW b \in BOOLEAN, TriageGovernance(b)
  PROVE  CaseInv'
<1>1. /\ run.node = "triage_governance" /\ Untouched
      /\ run' = [run EXCEPT !.node = "triage", !.blocked = b]
      /\ UNCHANGED <<wf, fresh, nAppr, appr, claim, revoked, done, policyRows, responseRows,
                     refunds, req, allowed>>
      /\ \A e \in blocks' : e \in blocks \/ e = [stage |-> "triage", claim |-> NoClaim]
  BY DEF TriageGovernance, Running, CaseInv, Opening
<1>2. run'.node = "triage" /\ run'.stage = "triage"
  BY <1>1 DEF CaseInv, CaseTypes, Opening
<1>3. TypeInv'
  <2>1. blocks' \subseteq [stage : Stages, claim : Claims]
    BY <1>1, NoClaimType DEF CaseInv, CaseTypes, TypeInv, TypeOK, Stages
  <2> QED BY <1>1, <2>1, RunWriteTypes DEF CaseInv, CaseTypes, TypeInv, TypeOK
<1>4. CaseTypes'
  BY <1>1, <1>3 DEF CaseInv, CaseTypes, RunNodes
<1>5. Opening'
  BY <1>1, <1>2 DEF Opening, Untouched
<1>6. RunPaid'
  BY <1>1 DEF RunPaid, Untouched
<1>7. Undecided'
  BY <1>1, <1>2 DEF CaseInv, Undecided, Untouched
<1> QED BY <1>4, <1>5, <1>6, <1>7 DEF CaseInv

LEMMA PersistTriageKeeps ==
  ASSUME CaseInv, NEW n \in {"policy_agent", "response_agent", "human_approval"}, PersistTriage(n)
  PROVE  CaseInv'
<1>1. /\ run.node = "triage" /\ Untouched /\ wf' = PolicyWorkflowState(n) /\ fresh' = TRUE
      /\ UNCHANGED <<nAppr, appr, claim, revoked, done, policyRows, responseRows, blocks, refunds,
                     req, allowed>>
      /\ \E node \in {"policy", "response_governance", "human_approval"} :
           run' = [run EXCEPT !.node = node]
  BY DEF PersistTriage, Running, Proceed, CaseInv, Opening
<1>2. /\ run'.node \in {"policy", "response_governance", "human_approval"}
      /\ run'.stage = "triage"
  BY <1>1 DEF CaseInv, CaseTypes, Opening
<1>3. TypeInv'
  <2>1. wf' \in [status : WorkflowStatuses, agent : WorkflowAgents]
    BY <1>1 DEF PolicyWorkflowState, WorkflowStatuses, WorkflowAgents
  <2> QED BY <1>1, <2>1, RunWriteTypes DEF CaseInv, CaseTypes, TypeInv, TypeOK
<1>4. CaseTypes'
  BY <1>1, <1>3 DEF CaseInv, CaseTypes, RunNodes
<1>5. Opening'
  BY <1>1, <1>2 DEF Opening, Untouched
<1>6. RunPaid'
  BY <1>1 DEF RunPaid, Untouched
<1>7. Undecided'
  BY <1>1, <1>2 DEF CaseInv, Undecided, Untouched
<1> QED BY <1>4, <1>5, <1>6, <1>7 DEF CaseInv

\* Policy asks before anybody was asked, so its question is the first.
LEMMA RunPolicyKeeps ==
  ASSUME CaseInv, NEW d \in PolicyDecisions, NEW b \in BOOLEAN, RunPolicy(d, b)
  PROVE  CaseInv'
<1> DEFINE route == PolicyNextAgent(d, b)
           row == [claim |-> NoClaim, decision |-> d, route |-> route]
           review == PendingRow("policy", TRUE, d, NoClaim)
<1>0. TypeInv /\ appr \in [Approvals -> ApprovalRows] /\ 1 \in Approvals
  BY BoundsAssumption DEF CaseInv, CaseTypes, TypeInv, TypeOK, Approvals
<1>1. /\ run.node = "policy" /\ Untouched /\ policyRows' = {row}
      /\ wf' = PolicyWorkflowState(route) /\ fresh' = TRUE
      /\ PersistPolicyApproval(d, route, NoClaim)
      /\ \A e \in blocks' : e \in blocks \/ e = [stage |-> "policy", claim |-> NoClaim]
      /\ UNCHANGED <<claim, revoked, done, responseRows, refunds, req, allowed>>
  BY DEF RunPolicy, Running, CaseInv, Opening
<1>2. route \in PolicyRoutes
  BY RoutingTypes
<1> DEFINE node == [refund_agent |-> "refund", response_agent |-> "response_governance",
                    human_approval |-> "human_approval"][route]
<1>3. /\ run' = [run EXCEPT !.decision = d, !.blocked = b, !.stage = "policy", !.node = node]
      /\ node \in {"refund", "response_governance", "human_approval"}
      /\ node = "human_approval" <=> route = "human_approval"
  BY <1>2 DEF RunPolicy, PolicyRoutes
<1> HIDE DEF node
<1>4. /\ run'.node = node /\ run'.stage = "policy"
      /\ run' \in [node : RunNodes, decision : PolicyDecisions \cup {"none"}, stage : Stages,
                   blocked : BOOLEAN, paused : BOOLEAN]
  BY <1>3 DEF CaseInv, CaseTypes, RunNodes, Stages
<1>5. PendingPolicyApprovals = {}
  BY <1>1 DEF Untouched, PendingPolicyApprovals, Pending, AbsentRow
<1>6. /\ route # "human_approval" => nAppr' = 0 /\ \A a \in Approvals : appr'[a] = AbsentRow
      /\ route = "human_approval" =>
           /\ nAppr' = 1 /\ appr'[1] = review
           /\ \A a \in Approvals : a # 1 => appr'[a] = AbsentRow
  <2>1. nAppr = 0 /\ \A a \in Approvals : appr[a] = AbsentRow
    BY <1>1 DEF Untouched
  <2>2. CASE route # "human_approval"
    <3>1. nAppr' = nAppr /\ appr' = [a \in Approvals |-> appr[a]]
      BY <1>1, <1>5, <2>2 DEF PersistPolicyApproval
    <3> QED BY <2>1, <2>2, <3>1
  <2>3. CASE route = "human_approval"
    <3>1. InsertReview(review)
      BY <1>1, <1>5, <2>3 DEF PersistPolicyApproval
    <3>2. nAppr' = 1 /\ appr' = [appr EXCEPT ![1] = review]
      BY <2>1, <3>1 DEF InsertReview
    <3> HIDE DEF review
    <3>3. \A a \in Approvals : appr'[a] = IF a = 1 THEN review ELSE appr[a]
      BY <1>0, <3>2
    <3> QED BY <1>0, <2>1, <2>3, <3>2, <3>3
  <2> QED BY <2>2, <2>3
<1>7. review \in InitialReviews
  BY DEF InitialReviews
<1> HIDE DEF route, review
<1>8. TypeInv'
  <2>1. appr' \in [Approvals -> ApprovalRows] /\ nAppr' \in 0..MaxApprovals
    BY <1>0, <1>1, <1>2, NoClaimType, PolicyApprovalType
  <2>2. /\ blocks' \subseteq [stage : Stages, claim : Claims]
        /\ policyRows' \subseteq [claim : Claims, decision : PolicyDecisions, route : PolicyRoutes]
    BY <1>0, <1>1, <1>2, NoClaimType DEF TypeInv, TypeOK, Stages
  <2>3. wf' \in [status : WorkflowStatuses, agent : WorkflowAgents]
    BY <1>1, <1>2, RoutingTypes
  <2>4. ClaimOK' /\ RowsOrdered(responseRows)'
    BY <1>0, <1>1 DEF TypeInv, ClaimOK, RowsOrdered, OwnRows
  <2>5. RowsOrdered(policyRows)'
    <3>1. RowsOrdered(policyRows')
      BY <1>0, <1>1, UnmarkedOrdered
    <3> QED BY <1>1, <3>1 DEF RowsOrdered, OwnRows
  <2> QED BY <1>0, <1>1, <2>1, <2>2, <2>3, <2>4, <2>5 DEF TypeInv, TypeOK
<1>9. CaseTypes'
  BY <1>1, <1>4, <1>8 DEF CaseInv, CaseTypes
<1>10. Opening'
  BY <1>1, <1>3, <1>4, <1>6 DEF Opening, Untouched
<1>11. RunPaid'
  BY <1>1 DEF RunPaid, Untouched
<1>12. Undecided'
  <2>1. /\ \A w \in Workers : req'[w] = Idle
        /\ \A a \in Approvals : done'[a] = NoRecord
        /\ refunds' \subseteq {0}
    BY <1>1 DEF CaseInv, Undecided, Untouched
  <2>2. /\ \A r \in policyRows' \cup responseRows' \cup blocks' : r.claim = NoClaim
        /\ \A r, s \in policyRows' : r = s
    BY <1>1 DEF CaseInv, Undecided, Untouched
  <2>3. \A a \in Approvals : a > nAppr' => appr'[a] = AbsentRow
    BY <1>2, <1>6 DEF Approvals
  <2>4. nAppr' # 0 => /\ nAppr' = 1 /\ appr'[1] \in InitialReviews
                      /\ wf' = TerminalWorkflowState("pending_human")
                      /\ run'.node \notin {"response_governance", "response"}
    BY <1>1, <1>3, <1>4, <1>6, <1>7 DEF PolicyWorkflowState, TerminalWorkflowState
  <2>5. run'.node = "human_approval" => nAppr' = 1
    BY <1>3, <1>4, <1>6
  <2> QED BY <2>1, <2>2, <2>3, <2>4, <2>5 DEF Undecided
<1> QED BY <1>9, <1>10, <1>11, <1>12 DEF CaseInv

LEMMA RunRefundKeeps ==
  ASSUME CaseInv, RunRefund
  PROVE  CaseInv'
<1>1. /\ run.node = "refund" /\ Untouched /\ refunds' = {0} /\ fresh' = TRUE
      /\ wf' = [status |-> "running", agent |-> "response_agent"]
      /\ run' = [run EXCEPT !.node = "response_governance"]
      /\ UNCHANGED <<nAppr, appr, claim, revoked, done, policyRows, responseRows, blocks, req,
                     allowed>>
  BY DEF RunRefund, Running, Proceed, CaseInv, Opening, Untouched
<1>2. run'.node = "response_governance"
  BY <1>1 DEF CaseInv, CaseTypes
<1>3. TypeInv'
  BY <1>1, RunWriteTypes, BoundsAssumption
  DEF CaseInv, CaseTypes, TypeInv, TypeOK, WorkflowStatuses, WorkflowAgents
<1>4. CaseTypes'
  BY <1>1, <1>3 DEF CaseInv, CaseTypes, RunNodes
<1>5. Opening'
  BY <1>2 DEF Opening
<1>6. RunPaid'
  BY <1>1, <1>2 DEF RunPaid, Untouched, RunNodes, AbsentRow, Idle, ReleasePcs
<1>7. Undecided'
  BY <1>1, <1>2 DEF CaseInv, Undecided, Untouched
<1> QED BY <1>4, <1>5, <1>6, <1>7 DEF CaseInv

\* The node opens a review only where nobody was asked before the first decision.
LEMMA HumanApprovalNodeKeeps ==
  ASSUME CaseInv, HumanApprovalNode
  PROVE  CaseInv'
<1> DEFINE markers == {b.claim : b \in {e \in blocks : e.stage = run.stage}}
           review(m) == PendingRow(run.stage, FALSE, run.decision, m)
<1>0. /\ TypeInv /\ appr \in [Approvals -> ApprovalRows] /\ 1 \in Approvals
      /\ nAppr \in 0..MaxApprovals /\ MaxApprovals \in Nat
      /\ run \in [node : RunNodes, decision : PolicyDecisions \cup {"none"}, stage : Stages,
                  blocked : BOOLEAN, paused : BOOLEAN]
  BY BoundsAssumption DEF CaseInv, CaseTypes, TypeInv, TypeOK, Approvals
<1>1. /\ run.node = "human_approval"
      /\ run' = [run EXCEPT !.node = AfterHumanApproval, !.paused = TRUE]
      /\ UNCHANGED <<claim, revoked, done, policyRows, responseRows, blocks, refunds, req, allowed>>
  BY DEF HumanApprovalNode, Running
<1>2. AfterHumanApproval \in {"verify", "response_governance"}
  BY DEF AfterHumanApproval
<1>3. /\ run'.node \in {"verify", "response_governance"} /\ run'.paused = TRUE
      /\ run' \in [node : RunNodes, decision : PolicyDecisions \cup {"none"}, stage : Stages,
                   blocked : BOOLEAN, paused : BOOLEAN]
  BY <1>0, <1>1, <1>2 DEF RunNodes
<1>4. Opening'
  BY <1>3 DEF Opening
<1>5. CASE UNCHANGED <<wf, fresh, nAppr, appr>> /\ Pending # {}
  <2>1. TypeInv'
    BY <1>0, <1>1, <1>5, RunWriteTypes DEF TypeInv, TypeOK
  <2>2. CaseTypes'
    BY <1>1, <1>3, <2>1 DEF CaseInv, CaseTypes
  <2>3. RunPaid'
    BY <1>1, <1>3, <1>5 DEF CaseInv, RunPaid, RunNodes
  <2>4. Undecided'
    BY <1>1, <1>3, <1>5 DEF CaseInv, Undecided
  <2> QED BY <1>4, <2>2, <2>3, <2>4 DEF CaseInv
<1>6. ASSUME Pending = {}, run.stage = "policy" \/ markers # {},
             NEW m \in IF markers = {} THEN {NoClaim} ELSE markers, InsertReview(review(m)),
             wf' = TerminalWorkflowState("pending_human"), fresh' = TRUE
      PROVE  CaseInv'
  <2>1. m \in Claims
    BY <1>0, NoClaimType DEF TypeInv, TypeOK
  <2>2. review(m) \in ApprovalRows /\ review(m).status = "pending"
    BY <1>0, <2>1, RoutingTypes DEF PendingRow, ApprovalRows
  <2>3. review(m).stage = run.stage /\ review(m).approved_next = ApprovedNextAgent(run.stage, run.decision)
    BY DEF PendingRow
  <2>4. nAppr < MaxApprovals /\ nAppr' = nAppr + 1 /\ appr' = [appr EXCEPT ![nAppr + 1] = review(m)]
    BY <1>6 DEF InsertReview
  <2>5. appr' \in [Approvals -> ApprovalRows] /\ nAppr' \in 0..MaxApprovals
    <3> HIDE DEF review
    <3> QED BY <1>0, <2>2, <2>4, InsertReviewType
  <2>6. nAppr + 1 \in Approvals
        /\ \A a \in Approvals : appr'[a] = IF a = nAppr + 1 THEN review(m) ELSE appr[a]
    <3> HIDE DEF review
    <3> QED BY <1>0, <2>4 DEF Approvals
  <2>7. CaseTypes'
    <3>1. wf' \in [status : WorkflowStatuses, agent : WorkflowAgents]
      BY <1>6, RoutingTypes DEF TerminalStatuses
    <3>2. TypeInv'
      BY <1>0, <1>1, <1>6, <2>5, <3>1, MarkersUnchanged DEF TypeInv, TypeOK
    <3> QED BY <1>1, <1>3, <3>2 DEF CaseInv, CaseTypes
  <2>8. RunPaid'
    <3> SUFFICES ASSUME 0 \in refunds
                 PROVE  /\ refunds' = {0}
                        /\ run'.node \in RunNodes \ {"triage_governance", "triage", "policy", "refund"}
                        /\ run'.node # "human_approval"
                        /\ \A a \in Approvals : appr'[a].status # "absent" => appr'[a].approved_next = "end"
                        /\ \A w \in Workers : req'[w].pc \in ReleasePcs
      BY <1>1 DEF RunPaid
    <3>1. run.stage = "response"
      BY <1>1 DEF CaseInv, RunPaid
    <3>2. review(m).approved_next = "end"
      BY <2>3, <3>1 DEF ApprovedNextAgent
    <3> HIDE DEF review
    <3> QED BY <1>1, <1>3, <2>6, <3>2 DEF CaseInv, RunPaid, RunNodes
  <2>9. Undecided'
    <3> SUFFICES ASSUME claim = NoClaim PROVE Undecided'
      BY <1>1 DEF Undecided
    <3>1. nAppr = 0
      <4>1. nAppr # 0 => nAppr = 1 /\ appr[1].status = "pending"
        BY DEF CaseInv, Undecided, InitialReviews, PendingRow
      <4> QED BY <1>0, <1>6, <4>1 DEF Pending
    <3>2. run.stage # "policy"
      BY <1>1, <3>1 DEF CaseInv, Undecided
    <3>3. m = NoClaim
      BY <1>6, <3>2 DEF CaseInv, Undecided
    <3>4. review(m) \in InitialReviews
      <4>1. run.stage = "triage" \/ run.stage = "response"
        BY <1>0, <3>2 DEF Stages
      <4>2. CASE run.stage = "triage"
        <5>1. review(m) = PendingRow("triage", FALSE, "none", NoClaim)
          BY <3>3, <4>2 DEF PendingRow, ApprovedNextAgent
        <5> QED BY <5>1 DEF InitialReviews
      <4>3. CASE run.stage = "response"
        <5>1. review(m) = PendingRow("response", FALSE, "none", NoClaim)
          BY <3>3, <4>3 DEF PendingRow, ApprovedNextAgent
        <5> QED BY <5>1 DEF InitialReviews
      <4> QED BY <4>1, <4>2, <4>3
    <3>5. nAppr' = 1 /\ appr'[1] \in InitialReviews
          /\ \A a \in Approvals : a > nAppr' => appr'[a] = appr[a]
      <4> HIDE DEF review
      <4> QED BY <1>0, <2>4, <2>6, <3>1, <3>4 DEF Approvals
    <3>6. \A a \in Approvals : a > nAppr' => appr'[a] = AbsentRow
      BY <3>1, <3>5 DEF CaseInv, Undecided, Approvals
    <3> QED BY <1>1, <1>3, <1>6, <3>5, <3>6 DEF CaseInv, Undecided
  <2> QED BY <1>4, <2>7, <2>8, <2>9 DEF CaseInv
<1> QED BY <1>5, <1>6 DEF HumanApprovalNode

LEMMA RunResponseGovernanceKeeps ==
  ASSUME CaseInv, NEW b \in BOOLEAN, RunResponseGovernance(b)
  PROVE  CaseInv'
<1>1. /\ run.node = "response_governance"
      /\ run' = [run EXCEPT !.node = "response", !.blocked = b,
                            !.stage = IF b THEN "response" ELSE @]
      /\ allowed' = IF b THEN {} ELSE {NoClaim}
      /\ \A e \in blocks' : e \in blocks \/ e = [stage |-> "response", claim |-> NoClaim]
      /\ UNCHANGED <<wf, fresh, nAppr, appr, claim, revoked, done, policyRows, responseRows,
                     refunds, req>>
  BY DEF RunResponseGovernance, Running
<1>2. /\ run'.node = "response" /\ run'.paused = run.paused
      /\ run'.blocked => run'.stage = "response"
      /\ run' \in [node : RunNodes, decision : PolicyDecisions \cup {"none"}, stage : Stages,
                   blocked : BOOLEAN, paused : BOOLEAN]
  BY <1>1 DEF CaseInv, CaseTypes, RunNodes, Stages
<1>3. CaseTypes'
  <2>1. blocks' \subseteq [stage : Stages, claim : Claims]
    BY <1>1, NoClaimType DEF CaseInv, CaseTypes, TypeInv, TypeOK, Stages
  <2>2. TypeInv'
    BY <1>1, <2>1, RunWriteTypes DEF CaseInv, CaseTypes, TypeInv, TypeOK
  <2>3. allowed' \subseteq Claims
    BY <1>1, NoClaimType
  <2> QED BY <1>2, <2>2, <2>3 DEF CaseTypes
<1>4. Opening'
  BY <1>2 DEF Opening
<1>5. RunPaid'
  BY <1>1, <1>2 DEF CaseInv, RunPaid, RunNodes
<1>6. Undecided'
  BY <1>1, <1>2 DEF CaseInv, Undecided
<1> QED BY <1>3, <1>4, <1>5, <1>6 DEF CaseInv

LEMMA RunPersistResponseKeeps ==
  ASSUME CaseInv, RunPersistResponse
  PROVE  CaseInv'
<1> DEFINE row == [claim |-> NoClaim, blocked |-> run.blocked]
           status == InitialResponseStatus(run)
<1>1. /\ run.node = "response" /\ responseRows' = {row}
      /\ wf' = TerminalWorkflowState(status) /\ fresh' = TRUE
      /\ run' = [run EXCEPT !.node = IF run.blocked THEN "human_approval" ELSE "verify"]
      /\ UNCHANGED <<nAppr, appr, claim, revoked, done, policyRows, blocks, refunds, req, allowed>>
  BY DEF RunPersistResponse, Running, Proceed
<1>2. /\ TypeInv
      /\ run \in [node : RunNodes, decision : PolicyDecisions \cup {"none"}, stage : Stages,
                  blocked : BOOLEAN, paused : BOOLEAN]
  BY DEF CaseInv, CaseTypes
<1>3. /\ run'.node \in {"human_approval", "verify"} /\ run'.stage = run.stage
      /\ run'.node = "human_approval" => run'.stage = "response"
      /\ run' \in [node : RunNodes, decision : PolicyDecisions \cup {"none"}, stage : Stages,
                   blocked : BOOLEAN, paused : BOOLEAN]
  BY <1>1, <1>2 DEF CaseInv, Opening, RunNodes
<1>4. status \in TerminalStatuses /\ (run.paused => status = "pending_human")
  BY DEF InitialResponseStatus, TerminalStatuses
<1> HIDE DEF status
<1>5. CaseTypes'
  <2>1. wf' \in [status : WorkflowStatuses, agent : WorkflowAgents]
    BY <1>1, <1>4, RoutingTypes
  <2>2. RowsOrdered(responseRows') /\ responseRows' \subseteq [claim : Claims, blocked : BOOLEAN]
    BY <1>1, <1>2, NoClaimType, UnmarkedOrdered
  <2>3. RowsOrdered(responseRows)'
    BY <1>1, <2>2 DEF RowsOrdered, OwnRows
  <2>4. ClaimOK' /\ RowsOrdered(policyRows)'
    BY <1>1, <1>2 DEF TypeInv, ClaimOK, RowsOrdered, OwnRows
  <2>5. TypeInv'
    BY <1>1, <1>2, <2>1, <2>2, <2>3, <2>4 DEF TypeInv, TypeOK
  <2> QED BY <1>1, <1>3, <2>5 DEF CaseInv, CaseTypes
<1>6. Opening'
  BY <1>3 DEF Opening
<1>7. RunPaid'
  BY <1>1, <1>3 DEF CaseInv, RunPaid, RunNodes
<1>8. Undecided'
  BY <1>1, <1>3, <1>4 DEF CaseInv, Undecided
<1> QED BY <1>5, <1>6, <1>7, <1>8 DEF CaseInv

\* A run that verifies, raises or dies writes nothing; a failed one marks the workflow.
LEMMA RunStopsKeeps ==
  ASSUME CaseInv, VerifyPersisted \/ RunRaises \/ RecordWorkflowFailure \/ RunDies
  PROVE  CaseInv'
<1>1. /\ \E node \in {"failing", "end"} : run' = [run EXCEPT !.node = node]
      /\ UNCHANGED <<nAppr, appr, claim, revoked, done, policyRows, responseRows, blocks, refunds,
                     req, allowed>>
      /\ run.node # "end"
      /\ \/ UNCHANGED <<wf, fresh>>
         \/ /\ wf' = [status |-> "failed", agent |-> "failed"] /\ fresh' = TRUE
            /\ run' = [run EXCEPT !.node = "end"]
  BY DEF VerifyPersisted, RunRaises, RecordWorkflowFailure, RunDies, Running, Proceed, vars, dbVars
<1>2. /\ run'.node \in {"failing", "end"}
      /\ run' \in [node : RunNodes, decision : PolicyDecisions \cup {"none"}, stage : Stages,
                   blocked : BOOLEAN, paused : BOOLEAN]
      /\ run' = [run EXCEPT !.node = "end"] => run'.node = "end"
  BY <1>1 DEF CaseInv, CaseTypes, RunNodes
<1>3. CaseTypes'
  <2>0. [status |-> "failed", agent |-> "failed"]
           \in [status : WorkflowStatuses, agent : WorkflowAgents]
    BY DEF WorkflowStatuses, WorkflowAgents
  <2>1. wf' \in [status : WorkflowStatuses, agent : WorkflowAgents] /\ fresh' \in BOOLEAN
    <3>1. CASE UNCHANGED <<wf, fresh>>
      BY <3>1 DEF CaseInv, CaseTypes, TypeInv, TypeOK
    <3>2. CASE wf' = [status |-> "failed", agent |-> "failed"] /\ fresh' = TRUE
      BY <2>0, <3>2
    <3> QED BY <1>1, <3>1, <3>2
  <2>2. TypeInv'
    BY <1>1, <2>1, RunWriteTypes DEF CaseInv, CaseTypes, TypeInv, TypeOK
  <2> QED BY <1>1, <1>2, <2>2 DEF CaseInv, CaseTypes
<1>4. Opening'
  BY <1>2 DEF Opening
<1>5. RunPaid'
  BY <1>1, <1>2 DEF CaseInv, RunPaid, RunNodes
<1>6. Undecided'
  BY <1>1, <1>2 DEF CaseInv, Undecided
<1> QED BY <1>3, <1>4, <1>5, <1>6 DEF CaseInv

LEMMA InitialRunKeeps ==
  ASSUME CaseInv, InitialRun
  PROVE  CaseInv'
<1>1. CASE \E b \in BOOLEAN : TriageGovernance(b)
  BY <1>1, TriageGovernanceKeeps
<1>2. CASE \E n \in {"policy_agent", "response_agent", "human_approval"} : PersistTriage(n)
  BY <1>2, PersistTriageKeeps
<1>3. CASE \E d \in PolicyDecisions, b \in BOOLEAN : RunPolicy(d, b)
  BY <1>3, RunPolicyKeeps
<1>4. CASE RunRefund
  BY <1>4, RunRefundKeeps
<1>5. CASE HumanApprovalNode
  BY <1>5, HumanApprovalNodeKeeps
<1>6. CASE \E b \in BOOLEAN : RunResponseGovernance(b)
  BY <1>6, RunResponseGovernanceKeeps
<1>7. CASE RunPersistResponse
  BY <1>7, RunPersistResponseKeeps
<1>8. CASE VerifyPersisted \/ RunRaises \/ RecordWorkflowFailure \/ RunDies
  BY <1>8, RunStopsKeeps
<1> QED BY <1>1, <1>2, <1>3, <1>4, <1>5, <1>6, <1>7, <1>8 DEF InitialRun

------------------------------------------------------------------------------------
(* The steps of the approval service, whatever the run is doing.                    *)

\* Without a request in flight only a reviewer or the clock can move the service.
LEMMA IdleStep ==
  ASSUME [Next]_vars, \A w \in Workers : req[w] = Idle
  PROVE  \/ UNCHANGED <<wf, nAppr, appr, claim, revoked, done, policyRows, responseRows, blocks,
                        refunds, req>>
         \/ \E w \in Workers : Resolve(w)
<1>1. CASE LeaseExpires \/ UNCHANGED vars
  BY <1>1 DEF LeaseExpires, vars, dbVars
<1>2. ASSUME NEW w \in Workers, RunStage(w) \/ Fail(w) PROVE FALSE
  <2>1. req[w].pc = "idle"
    BY DEF Idle
  <2> QED BY <1>2, <2>1
    DEF RunStage, Fail, EnterStep, Heartbeat, PersistPolicy, EnsurePolicyReview, PersistRefund,
        SaveResponseGovernance, PersistResponse, EnsureResponseReview, EnsureRecoveredReview,
        MarkContinuation, StepFails, RecordFailure, RequestEnds, AtStage, EnterPcs, StagePcs, RunPcs
<1> QED BY <1>1, <1>2 DEF Next

\* A reviewer decides, or decides again, under a claim of its own.
LEMMA ResolveFacts ==
  ASSUME TypeInv, NEW w \in Workers, Resolve(w)
  PROVE  claim' # NoClaim /\ Pending \cup Resolved # {} /\ claim' # claim
<1>1. PICK a \in Approvals :
        /\ AppendClaim(w, a) /\ UNCHANGED <<policyRows, responseRows>> /\ a \in Pending \cup Resolved
  BY DEF Resolve, DecideReview, RetryContinuation
<1>2. claim' # NoClaim /\ claim'.seq = claim.seq + 1
  BY <1>1, NewClaim
<1> QED BY <1>1, <1>2 DEF TypeInv, TypeOK, Claims

\* Where a decision on a released or rejected answer goes on.
LEMMA ReleaseEntry ==
  ASSUME TypeInv, NEW row, row.approved_next = "end", NEW c, c.appr \in Approvals
  PROVE  Continue(row, c).pc \in ReleasePcs
<1>1. NextAgent(row) \in {"end", "response_agent"}
  BY DEF NextAgent, RejectedNextAgent
<1>2. Continue(row, c).pc = EntryOf(NextAgent(row), c.appr \in refunds)
  BY <1>1, ContinuePlace
<1> QED BY <1>1, <1>2 DEF EntryOf, ReleasePcs

LEMMA PaidResolve ==
  ASSUME CaseInv, 0 \in refunds, NEW w \in Workers, Resolve(w)
  PROVE  /\ refunds' = refunds
         /\ \A a \in Approvals : appr'[a].status # "absent" => appr'[a].approved_next = "end"
         /\ \A v \in Workers : req'[v].pc \in ReleasePcs
<1>0. /\ TypeInv /\ req \in [Workers -> Requests] /\ appr \in [Approvals -> ApprovalRows]
      /\ \A a \in Approvals : appr[a].status # "absent" => appr[a].approved_next = "end"
      /\ \A v \in Workers : req[v].pc \in ReleasePcs
  BY DEF CaseInv, CaseTypes, RunPaid, TypeInv, TypeOK
<1>1. ASSUME NEW a \in Approvals, NEW d \in ReviewDecisions, DecideReview(w, a, d)
      PROVE  /\ refunds' = refunds
             /\ \A b \in Approvals : appr'[b].status # "absent" => appr'[b].approved_next = "end"
             /\ \A v \in Workers : req'[v].pc \in ReleasePcs
  <2> DEFINE new == [appr[a] EXCEPT !.status = ResolutionStatus(d), !.decision = d]
  <2>1. /\ AppendClaim(w, a) /\ appr[a].status = "pending"
        /\ appr' = [appr EXCEPT ![a] = new]
        /\ req' = [req EXCEPT ![w] = Continue(new, claim')]
        /\ UNCHANGED <<refunds, policyRows, responseRows>>
    BY <1>1 DEF DecideReview, Pending
  <2>2. claim'.appr = a
    BY <1>0, <2>1, NewClaim
  <2>3. new.approved_next = "end"
    BY <1>0, <2>1 DEF ApprovalRows
  <2> HIDE DEF new
  <2>4. Continue(new, claim').pc \in ReleasePcs
    BY <1>0, <2>2, <2>3, ReleaseEntry
  <2>5. \A b \in Approvals : appr'[b] = IF b = a THEN new ELSE appr[b]
    BY <1>0, <2>1
  <2>6. \A v \in Workers : req'[v] = IF v = w THEN Continue(new, claim') ELSE req[v]
    BY <1>0, <2>1
  <2> QED BY <1>0, <2>1, <2>3, <2>4, <2>5, <2>6
<1>2. ASSUME NEW a \in Approvals, RetryContinuation(w, a)
      PROVE  /\ refunds' = refunds /\ appr' = appr
             /\ \A v \in Workers : req'[v].pc \in ReleasePcs
  <2> DEFINE new == IF wf.status \in TerminalStatuses THEN Recovery(claim')
                    ELSE Continue(appr[a], claim')
  <2>1. /\ AppendClaim(w, a) /\ a \in Resolved
        /\ req' = [req EXCEPT ![w] = new]
        /\ UNCHANGED <<appr, refunds, policyRows, responseRows>>
    BY <1>2 DEF RetryContinuation
  <2>2. claim'.appr = a
    BY <1>0, <2>1, NewClaim
  <2>3. appr[a].approved_next = "end"
    BY <1>0, <2>1 DEF Resolved
  <2>4. Continue(appr[a], claim').pc \in ReleasePcs
    BY <1>0, <2>2, <2>3, ReleaseEntry
  <2>5. Recovery(claim').pc \in ReleasePcs
    BY DEF Recovery, ReleasePcs
  <2>6. new.pc \in ReleasePcs
    BY <2>4, <2>5
  <2> HIDE DEF new
  <2>7. \A v \in Workers : req'[v] = IF v = w THEN new ELSE req[v]
    BY <1>0, <2>1
  <2> QED BY <1>0, <2>1, <2>6, <2>7
<1> QED BY <1>0, <1>1, <1>2 DEF Resolve

LEMMA PaidStage ==
  ASSUME CaseInv, 0 \in refunds, NEW w \in Workers, RunStage(w) \/ Fail(w)
  PROVE  /\ refunds' = refunds
         /\ \A a \in Approvals : appr'[a].status # "absent" => appr'[a].approved_next = "end"
         /\ \A v \in Workers : req'[v].pc \in ReleasePcs
<1>0. /\ req \in [Workers -> Requests] /\ appr \in [Approvals -> ApprovalRows]
      /\ \A a \in Approvals : appr[a].status # "absent" => appr[a].approved_next = "end"
      /\ \A v \in Workers : req[v].pc \in ReleasePcs
      /\ nAppr \in 0..MaxApprovals /\ MaxApprovals \in Nat
  BY BoundsAssumption DEF CaseInv, CaseTypes, RunPaid, TypeInv, TypeOK
<1>1. ASSUME UNCHANGED req
             \/ \E pc \in ReleasePcs : \/ req' = [req EXCEPT ![w].pc = pc]
                                       \/ \E x : req' = [req EXCEPT ![w].pc = pc, ![w].status = x]
                                       \/ \E x : req' = [req EXCEPT ![w].pc = pc, ![w].child = x]
             \/ req' = [req EXCEPT ![w] = Idle]
      PROVE  \A v \in Workers : req'[v].pc \in ReleasePcs
  <2>1. \A v \in Workers : v # w => req'[v] = req[v]
    BY <1>0, <1>1
  <2>2. req'[w].pc \in ReleasePcs
    BY <1>0, <1>1 DEF Requests, Idle, ReleasePcs
  <2> QED BY <1>0, <2>1, <2>2
<1>2. ASSUME NEW marker \in Claims, NEW pc \in ReleasePcs, EnsureHumanApproval(w, "response", marker, pc)
      PROVE  /\ refunds' = refunds
             /\ \A a \in Approvals : appr'[a].status # "absent" => appr'[a].approved_next = "end"
             /\ \A v \in Workers : req'[v].pc \in ReleasePcs
  <2> DEFINE row == PendingRow("response", FALSE, "none", marker)
  <2>1. row.approved_next = "end"
    BY DEF PendingRow, ApprovedNextAgent
  <2>2. \E x : req' = [req EXCEPT ![w].pc = pc, ![w].child = x]
    BY <1>2 DEF EnsureHumanApproval
  <2>3. UNCHANGED appr \/ appr' = [appr EXCEPT ![nAppr + 1] = row]
    BY <1>2 DEF EnsureHumanApproval, InsertReview
  <2> HIDE DEF row
  <2>4. \A a \in Approvals : appr'[a] = appr[a] \/ appr'[a] = row
    BY <1>0, <2>3
  <2>5. refunds' = refunds
    BY <1>2 DEF EnsureHumanApproval
  <2> QED BY <1>0, <1>1, <2>1, <2>2, <2>4, <2>5
<1>3. CASE \/ EnterStep(w) \/ Heartbeat(w) \/ PersistResponse(w) \/ MarkContinuation(w)
           \/ \E b \in BOOLEAN : SaveResponseGovernance(w, b)
           \/ Fail(w)
  <2>1. UNCHANGED <<appr, refunds>>
    BY <1>3 DEF EnterStep, Heartbeat, PersistResponse, MarkContinuation, SaveResponseGovernance,
                Fail, StepFails, RecordFailure, RequestEnds, dbVars
  <2>2. CASE EnterStep(w)
    <3>1. req[w].pc \in {"enter_response", "enter_recover_review"}
      BY <1>0, <2>2 DEF EnterStep, EnterPcs, ReleasePcs
    <3>2. Goto(w, "response") \/ Goto(w, "recover_review")
      BY <2>2, <3>1 DEF EnterStep
    <3> QED BY <1>0, <1>1, <2>1, <3>2 DEF Goto, ReleasePcs
  <2>3. CASE Heartbeat(w)
    BY <1>0, <2>1, <2>3 DEF Heartbeat
  <2>4. CASE PersistResponse(w)
    <3>1. Goto(w, "response_review") \/ Goto(w, "mark")
      BY <2>4 DEF PersistResponse
    <3> QED BY <1>0, <1>1, <2>1, <3>1 DEF Goto, ReleasePcs
  <2>5. CASE MarkContinuation(w) \/ RecordFailure(w) \/ RequestEnds(w)
    <3>1. req' = [req EXCEPT ![w] = Idle]
      BY <2>5 DEF MarkContinuation, RecordFailure, RequestEnds
    <3> QED BY <1>0, <1>1, <2>1, <3>1
  <2>6. ASSUME NEW b \in BOOLEAN, SaveResponseGovernance(w, b)
        PROVE  \A v \in Workers : req'[v].pc \in ReleasePcs
    <3>1. \E x : req' = [req EXCEPT ![w].pc = "persist_response", ![w].status = x]
      <4>1. CASE b = TRUE
        BY <2>6, <4>1 DEF SaveResponseGovernance
      <4>2. CASE b = FALSE
        <5>1. req' = [req EXCEPT ![w].pc = "persist_response", ![w].status = req[w].status]
          BY <1>0, <2>6, <4>2 DEF SaveResponseGovernance
        <5> QED BY <5>1
      <4> QED BY <4>1, <4>2
    <3> QED BY <1>1, <3>1 DEF ReleasePcs
  <2>7. CASE StepFails(w)
    BY <1>0, <1>1, <2>1, <2>7 DEF StepFails, Goto, ReleasePcs
  <2> QED BY <1>0, <1>3, <2>1, <2>2, <2>3, <2>4, <2>5, <2>6, <2>7 DEF Fail
<1>4. CASE PersistRefund(w) \/ EnsurePolicyReview(w)
           \/ \E d \in PolicyDecisions, b \in BOOLEAN : PersistPolicy(w, d, b)
  <2>1. req[w].pc \in {"refund", "policy_review", "policy"}
    BY <1>4 DEF PersistRefund, EnsurePolicyReview, PersistPolicy, AtStage
  <2> QED BY <1>0, <2>1 DEF ReleasePcs
<1>5. CASE EnsureResponseReview(w) \/ EnsureRecoveredReview(w)
  <2>1. claim \in Claims /\ req[w].marker \in Claims /\ "mark" \in ReleasePcs /\ "recover_mark" \in ReleasePcs
    BY DEF CaseInv, CaseTypes, TypeInv, TypeOK, Requests, ReleasePcs
  <2> QED BY <1>2, <1>5, <2>1 DEF EnsureResponseReview, EnsureRecoveredReview
<1> QED BY <1>3, <1>4, <1>5 DEF RunStage

\* A request takes no claim while it runs, and only its Refund stage pays.
LEMMA StageKeepsClaim ==
  ASSUME NEW w \in Workers, RunStage(w) \/ Fail(w)
  PROVE  claim' = claim /\ (refunds' = refunds \/ PersistRefund(w))
<1>1. CASE EnterStep(w) \/ Heartbeat(w) \/ PersistResponse(w) \/ MarkContinuation(w)
  BY <1>1 DEF EnterStep, Heartbeat, PersistResponse, MarkContinuation
<1>2. CASE \/ \E d \in PolicyDecisions, b \in BOOLEAN : PersistPolicy(w, d, b)
           \/ \E b \in BOOLEAN : SaveResponseGovernance(w, b)
  BY <1>2 DEF PersistPolicy, SaveResponseGovernance
<1>3. CASE PersistRefund(w)
  BY <1>3 DEF PersistRefund
<1>4. CASE EnsurePolicyReview(w) \/ EnsureResponseReview(w) \/ EnsureRecoveredReview(w)
  <2>1. \E stage, marker, pc : EnsureHumanApproval(w, stage, marker, pc)
    BY <1>4 DEF EnsurePolicyReview, EnsureResponseReview, EnsureRecoveredReview
  <2> QED BY <2>1 DEF EnsureHumanApproval
<1>5. CASE Fail(w)
  BY <1>5 DEF Fail, StepFails, RecordFailure, RequestEnds, dbVars
<1> QED BY <1>1, <1>2, <1>3, <1>4, <1>5 DEF RunStage

\* While no claim is taken the service only lets time pass.
LEMMA QuietStep ==
  ASSUME CaseInv, [Next]_vars, claim' = NoClaim
  PROVE  /\ claim = NoClaim
         /\ UNCHANGED <<wf, nAppr, appr, claim, revoked, done, policyRows, responseRows, blocks,
                        refunds, req>>
<1>1. ~\E w \in Workers : Resolve(w)
  BY ResolveFacts DEF CaseInv, CaseTypes
<1>2. claim' = claim
  <2>1. CASE LeaseExpires \/ UNCHANGED vars
    BY <2>1 DEF LeaseExpires, vars, dbVars
  <2> QED BY <1>1, <2>1, StageKeepsClaim DEF Next
<1>3. \A w \in Workers : req[w] = Idle
  BY <1>2 DEF CaseInv, Undecided
<1> QED BY <1>1, <1>2, <1>3, IdleStep

LEMMA ServiceKeeps ==
  ASSUME CaseInv, [Next]_vars, UNCHANGED run, allowed' \subseteq Claims
  PROVE  CaseInv'
<1>1. CaseTypes'
  BY TypeStep DEF CaseInv, CaseTypes
<1>2. ASSUME \A w \in Workers : req[w] = Idle, ~\E w \in Workers : Resolve(w)
      PROVE  UNCHANGED <<wf, nAppr, appr, claim, revoked, done, policyRows, responseRows, blocks,
                         refunds, req>>
  BY <1>2, IdleStep
<1>3. Opening'
  <2>1. ASSUME Untouched PROVE Untouched'
    <3>1. ~\E w \in Workers : Resolve(w)
      BY <2>1, ResolveFacts DEF CaseInv, CaseTypes, Untouched, Pending, Resolved, AbsentRow
    <3> QED BY <1>2, <2>1, <3>1 DEF Untouched
  <2> QED BY <2>1 DEF CaseInv, Opening
<1>4. RunPaid'
  <2> SUFFICES ASSUME 0 \in refunds' PROVE RunPaid'
    BY DEF RunPaid
  <2>1. 0 \in refunds
    <3>1. refunds' = refunds \/ \E w \in Workers : PersistRefund(w)
      <4>1. CASE \E w \in Workers : Resolve(w)
        BY <4>1 DEF Resolve, DecideReview, RetryContinuation
      <4>2. CASE \E w \in Workers : RunStage(w) \/ Fail(w)
        BY <4>2, StageKeepsClaim
      <4>3. CASE LeaseExpires \/ UNCHANGED vars
        BY <4>3 DEF LeaseExpires, vars, dbVars
      <4> QED BY <4>1, <4>2, <4>3 DEF Next
    <3>2. ASSUME NEW w \in Workers, PersistRefund(w) PROVE 0 \in refunds
      <4>1. claim.appr \in Approvals /\ refunds' = refunds \cup {claim.appr}
        BY <3>2, ActiveFacts DEF PersistRefund, AtStage, CaseInv, CaseTypes
      <4> QED BY <4>1, NoClaimType
    <3> QED BY <3>1, <3>2
  <2>2. CASE \E w \in Workers : Resolve(w) \/ RunStage(w) \/ Fail(w)
    BY <2>1, <2>2, PaidResolve, PaidStage DEF CaseInv, RunPaid
  <2>3. CASE LeaseExpires \/ UNCHANGED vars
    <3>1. UNCHANGED <<appr, refunds, req>>
      BY <2>3 DEF LeaseExpires, vars, dbVars
    <3> QED BY <2>1, <3>1 DEF CaseInv, RunPaid
  <2> QED BY <2>2, <2>3 DEF Next
<1>5. Undecided'
  BY QuietStep DEF CaseInv, Undecided
<1> QED BY <1>1, <1>3, <1>4, <1>5 DEF CaseInv

LEMMA ContinuationKeeps ==
  ASSUME CaseInv, NEW w \in Workers, Continuation(w), UNCHANGED run
  PROVE  CaseInv'
<1>1. [Next]_vars
  BY DEF Continuation, Next
<1>2. allowed' \subseteq Claims
  BY DEF Continuation, CaseInv, CaseTypes, TypeInv, TypeOK
<1> QED BY <1>1, <1>2, ServiceKeeps

LEMMA CaseStep == CaseInv /\ [CaseNext]_caseVars => CaseInv'
<1> SUFFICES ASSUME CaseInv, [CaseNext]_caseVars PROVE CaseInv'
  OBVIOUS
<1>1. CASE InitialRun
  BY <1>1, InitialRunKeeps
<1>2. CASE (LeaseExpires /\ UNCHANGED <<run, allowed>>) \/ UNCHANGED caseVars
  <2>1. [Next]_vars /\ UNCHANGED <<run, allowed>>
    BY <1>2 DEF Next, caseVars
  <2> QED BY <2>1, ServiceKeeps DEF CaseInv, CaseTypes
<1>3. CASE \E w \in Workers : Continuation(w) /\ UNCHANGED run
  BY <1>3, ContinuationKeeps
<1> QED BY <1>1, <1>2, <1>3 DEF CaseNext

LEMMA CaseInvHolds == CaseSpec => []CaseInv
BY InitCase, CaseStep, PTL DEF CaseSpec

------------------------------------------------------------------------------------
(* What a whole case promises.                                                      *)

\* Whatever the run, the reviewers and every late request write, and in whatever order:
\* the rows, the claims and the requests in memory keep the shapes the code reads back.
THEOREM CaseTypeCorrect == CaseSpec => []CaseTypeOK
<1>1. CaseInv => CaseTypeOK
  BY DEF CaseInv, CaseTypes, TypeInv, CaseTypeOK
<1> QED BY <1>1, CaseInvHolds, PTL

LEMMA PaidIsLast == CaseInv => InitialRefundIsLast
BY DEF CaseInv, RunPaid, InitialRefundIsLast

\* A case whose run has paid never pays again: not when its answer is reviewed while the
\* run still drafts, not after any number of reviews, retries and recoveries.
THEOREM RunPaysOnce == CaseSpec => []InitialRefundIsLast
BY PaidIsLast, CaseInvHolds, PTL

LEMMA EndedHandsOver == CaseInv => HandsOver
<1> SUFFICES ASSUME CaseInv, run.node = "end", claim = NoClaim, Pending # {}
             PROVE  /\ wf \in {TerminalWorkflowState("pending_human"),
                               [status |-> "failed", agent |-> "failed"]}
                    /\ nAppr = 1
                    /\ appr[1] \in InitialReviews
                    /\ refunds = {} \/ (refunds = {0} /\ appr[1].stage = "response")
  BY DEF HandsOver, Running
<1>0. nAppr \in 0..MaxApprovals /\ 1 \in Approvals
  BY BoundsAssumption DEF CaseInv, CaseTypes, TypeInv, TypeOK, Approvals
<1>1. nAppr # 0
  BY <1>0 DEF CaseInv, Undecided, Pending, AbsentRow, Approvals
<1>2. /\ wf \in {TerminalWorkflowState("pending_human"), [status |-> "failed", agent |-> "failed"]}
      /\ nAppr = 1 /\ appr[1] \in InitialReviews /\ refunds \subseteq {0}
  BY <1>1 DEF CaseInv, Undecided
<1>3. ASSUME refunds # {} PROVE refunds = {0} /\ appr[1].stage = "response"
  <2>1. refunds = {0} /\ 0 \in refunds
    BY <1>2, <1>3
  <2>2. appr[1].status = "pending"
    BY <1>2 DEF InitialReviews, PendingRow
  <2>3. appr[1].approved_next = "end"
    BY <1>0, <2>1, <2>2 DEF CaseInv, RunPaid
  <2> QED BY <1>2, <2>1, <2>3 DEF InitialReviews, PendingRow, ApprovedNextAgent
<1> QED BY <1>2, <1>3

\* What an ended run leaves to the reviewers is a state the approval service starts from,
\* however it ended: completed, failed or dead between any two of its transactions.
THEOREM RunHandsOver == CaseSpec => []HandsOver
BY EndedHandsOver, CaseInvHolds, PTL
====================================================================================
