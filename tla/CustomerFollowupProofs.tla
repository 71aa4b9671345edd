-------------------------- MODULE CustomerFollowupProofs --------------------------
(***********************************************************************************)
(* Proofs about CustomerFollowup, for any number of requests of customer and reviewer, *)
(* claims, reviews and turns.  The approval service is never looked into further than    *)
(* that it writes nothing of a trace without a review and without a claim; so what keeps   *)
(* an answer safe is that a turn that can be proved complete has never asked a reviewer.    *)
(***********************************************************************************)
EXTENDS CustomerFollowup, HumanApprovalProofs

------------------------------------------------------------------------------------
(* The inductive invariant.                                                         *)

\* A review exists, in whatever state a reviewer can still act on, or one is worked on.
Disturbed == claim # NoClaim \/ \E a \in Approvals : appr[a].status \notin {"absent", "deleted"}

\* The newest turn has called for a person; such a turn is never proved complete.
CalledForReview ==
  \/ \E a \in {"triage_agent", "response_agent"} : GovernanceRow(a, "block", token) \in rows
  \/ Handoff("policy_agent", "human_approval", token) \in rows

\* Tokens count the claims; the answer and the last recorded failure name one of them.
Counted ==
  /\ failed <= token
  /\ completion \in {0, token}
  /\ \A c \in Customers : turn[c].pc # "idle" => turn[c].token \in 1..token
  /\ \A b, c \in Customers :
       (turn[b].pc # "idle" /\ turn[c].pc # "idle" /\ turn[b].token = turn[c].token) => b = c

\* Every row is one of the first turn's or the newest turn's.
Clean ==
  /\ {r \in rows : r.turn # token} \subseteq InitialRows
  /\ {r \in rows : r.turn = 0} = InitialRows

\* The approval service was only ever called in by the newest turn.
Called ==
  /\ GovernanceRow("policy_agent", "block", token) \in rows =>
       Handoff("policy_agent", "human_approval", token) \in rows
  /\ Disturbed => CalledForReview
  /\ refunds # {} => claim # NoClaim

\* A recorded failure has put the first turn back.
Restored == (token # 0 /\ failed = token) => rows = InitialRows /\ wf = Waiting

\* A recorded answer can still be proved.
Proven == completion # 0 => wf = Completed /\ Proved(token) /\ failed # token

FollowupInv ==
  /\ FollowupTypeOK /\ TypeInv
  /\ Counted /\ Clean /\ Called /\ Restored /\ Proven

------------------------------------------------------------------------------------
(* Rows.                                                                            *)

LEMMA InitialRowFacts ==
  /\ InitialRows \subseteq Rows
  /\ \A r \in InitialRows : /\ r.turn = 0 /\ r.kind # "refund"
                            /\ r.says \notin {"block", "human_approval"}
<1>1. 0 \in 0..MaxTurns
  BY TurnsAssumption
<1> QED BY <1>1 DEF InitialRows, Rows, Handoff, GovernanceRow, StageAgents, PolicyRoutes

LEMMA StageRowTypes ==
  ASSUME NEW t \in Turns
  PROVE  /\ \A a \in StageAgents \cup {"refund_agent"}, to \in PolicyRoutes \cup {"policy_agent", "end"} :
              Handoff(a, to, t) \in Rows
         /\ \A a \in StageAgents, v \in {"allow", "block"} : GovernanceRow(a, v, t) \in Rows
         /\ \A m \in {"exact", "other"} : RefundRow(m, t) \in Rows
<1>1. t \in 0..MaxTurns
  BY TurnsAssumption DEF Turns
<1> QED BY <1>1 DEF Rows

LEMMA InitialRowsAreQuiet == rows = InitialRows => ~CalledForReview
BY InitialRowFacts DEF CalledForReview, GovernanceRow, Handoff

\* Nobody reviews a turn that can be proved complete.
LEMMA ProvedIsQuiet ==
  ASSUME Called, Proved(token)
  PROVE  ~Disturbed /\ GovernanceRow("policy_agent", "block", token) \notin rows
<1>1. \A a \in {"triage_agent", "response_agent"} : GovernanceRow(a, "block", token) \notin rows
  BY DEF Proved, GovernanceRow
<1>2. Handoff("policy_agent", "human_approval", token) \notin rows
  <2>1. "policy_agent" \in DOMAIN RequiredRoutes /\ RequiredRoutes["policy_agent"] = "refund_agent"
    BY DEF RequiredRoutes
  <2>2. {r \in rows : r.kind = "handoff" /\ r.agent = "policy_agent" /\ r.turn = token}
          = {Handoff("policy_agent", "refund_agent", token)}
    BY <2>1 DEF Proved
  <2> QED BY <2>2 DEF Handoff
<1> QED BY <1>1, <1>2 DEF Called, CalledForReview

------------------------------------------------------------------------------------
(* The approval service.                                                            *)

\* Whatever it does, it does about a review or under a claim, and it never gives up being
\* the newest claimant of the trace.
LEMMA ServiceStep ==
  ASSUME TypeInv, [Next]_vars
  PROVE  /\ ~Disturbed => UNCHANGED <<wf, ledgerVars>>
         /\ claim # NoClaim => claim' # NoClaim
         /\ \/ UNCHANGED refunds
            \/ claim # NoClaim /\ claim.appr \in Approvals /\ refunds' = refunds \cup {claim.appr}
<1>1. ASSUME NEW w \in Workers, Resolve(w)
      PROVE  Disturbed /\ claim' # NoClaim /\ UNCHANGED refunds
  <2>1. PICK a \in Approvals :
          RetryContinuation(w, a) \/ \E d \in ReviewDecisions : DecideReview(w, a, d)
    BY <1>1 DEF Resolve
  <2>2. /\ AppendClaim(w, a) /\ UNCHANGED <<policyRows, responseRows, refunds>>
        /\ appr[a].status \in {"pending", "approved", "rejected"}
    BY <2>1 DEF RetryContinuation, DecideReview, Pending, Resolved
  <2>3. claim' # NoClaim
    BY <2>2, NewClaim
  <2> QED BY <2>2, <2>3 DEF Disturbed
<1>2. ASSUME NEW w \in Workers, RunStage(w)
      PROVE  /\ claim # NoClaim /\ claim.appr \in Approvals /\ UNCHANGED claim
             /\ UNCHANGED refunds \/ refunds' = refunds \cup {claim.appr}
  <2>1. ActiveApprovalClaim(req[w].claim)
    BY <1>2 DEF RunStage, EnterStep, Heartbeat, PersistPolicy, EnsurePolicyReview, PersistRefund,
                SaveResponseGovernance, PersistResponse, EnsureResponseReview,
                EnsureRecoveredReview, MarkContinuation, AtStage
  <2>2. claim # NoClaim /\ claim.appr \in Approvals
    BY <2>1, ActiveFacts
  <2>3. UNCHANGED claim /\ (UNCHANGED refunds \/ refunds' = refunds \cup {claim.appr})
    BY <1>2 DEF RunStage, EnterStep, Heartbeat, PersistPolicy, EnsurePolicyReview, PersistRefund,
                SaveResponseGovernance, PersistResponse, EnsureResponseReview,
                EnsureRecoveredReview, MarkContinuation, EnsureHumanApproval
  <2> QED BY <2>2, <2>3
<1>3. ASSUME NEW w \in Workers, Fail(w)
      PROVE  /\ UNCHANGED <<claim, refunds>>
             /\ claim # NoClaim \/ UNCHANGED dbVars
  BY <1>3 DEF Fail, StepFails, RecordFailure, RequestEnds, AtStage, ActiveApprovalClaim, dbVars
<1>4. CASE LeaseExpires \/ UNCHANGED vars
  BY <1>4 DEF LeaseExpires, vars, dbVars, ledgerVars
<1> QED BY <1>1, <1>2, <1>3, <1>4 DEF Next, Disturbed, dbVars, ledgerVars

------------------------------------------------------------------------------------
(* Types.                                                                           *)

LEMMA TurnTypes ==
  /\ \A s \in {"pending_human", "waiting_user", "completed"} :
       TerminalWorkflowState(s) \in [status : WorkflowStatuses, agent : WorkflowAgents]
  /\ \A r \in PolicyRoutes \cup {"policy_agent"} :
       PolicyWorkflowState(r) \in [status : WorkflowStatuses, agent : WorkflowAgents]
  /\ \A r : InitialResponseStatus(r) \in {"pending_human", "waiting_user", "completed"}
  /\ NoTurn \in TurnRequests
<1>1. 0 \in 0..MaxTurns
  BY TurnsAssumption
<1>2. NoTurn \in TurnRequests
  BY <1>1 DEF NoTurn, TurnRequests, Stages
<1>3. \A r \in PolicyRoutes \cup {"policy_agent"} :
        PolicyWorkflowState(r) \in [status : WorkflowStatuses, agent : WorkflowAgents]
  BY DEF PolicyRoutes, PolicyWorkflowState, WorkflowStatuses, WorkflowAgents
<1> QED BY <1>2, <1>3, RoutingTypes DEF TerminalStatuses, InitialResponseStatus

\* Steps that leave the approval service's rows alone keep their types.
LEMMA LedgerKept ==
  ASSUME TypeInv, UNCHANGED <<ledgerVars, req>>, fresh' \in BOOLEAN,
         wf' \in [status : WorkflowStatuses, agent : WorkflowAgents]
  PROVE  TypeInv'
<1>1. UNCHANGED <<nAppr, appr, claim, revoked, done, policyRows, responseRows, blocks, refunds>>
  BY DEF ledgerVars
<1> QED BY <1>1, MarkersUnchanged DEF TypeInv, TypeOK

\* So does putting the snapshot back, whatever had happened to them.
LEMMA RestoreKeepsTypes ==
  ASSUME TypeInv, RestoreSnapshot, UNCHANGED req, fresh' \in BOOLEAN,
         wf' \in [status : WorkflowStatuses, agent : WorkflowAgents]
  PROVE  /\ TypeInv' /\ ~Disturbed' /\ refunds' = {}
         /\ rows' = InitialRows
<1>0. NoClaim \in Claims
  BY BoundsAssumption DEF NoClaim, Claims
<1>1. appr' \in [Approvals -> ApprovalRows]
  <2>1. \A a \in Approvals : [appr[a] EXCEPT !.status = "deleted"] \in ApprovalRows
    BY DEF TypeInv, TypeOK, ApprovalRows
  <2> QED BY <2>1 DEF RestoreSnapshot, TypeInv, TypeOK
<1>2. done' \in [Approvals -> Records]
  BY <1>0, BoundsAssumption DEF RestoreSnapshot, NoRecord, Records
<1>3. ClaimOK' /\ RowsOrdered(policyRows)' /\ RowsOrdered(responseRows)'
  BY DEF RestoreSnapshot, ClaimOK, RowsOrdered, OwnRows
<1>4. TypeInv'
  BY <1>0, <1>1, <1>2, <1>3 DEF RestoreSnapshot, TypeInv, TypeOK
<1>5. ~Disturbed'
  <2>1. \A a \in Approvals : appr[a] \in ApprovalRows
    BY DEF TypeInv, TypeOK
  <2>2. \A a \in Approvals : appr'[a].status \in {"absent", "deleted"}
    BY <2>1 DEF RestoreSnapshot, ApprovalRows
  <2> QED BY <2>2 DEF Disturbed, RestoreSnapshot
<1> QED BY <1>4, <1>5 DEF RestoreSnapshot

LEMMA InitFollowup == FollowupInit => FollowupInv
<1> SUFFICES ASSUME FollowupInit PROVE FollowupInv
  OBVIOUS
<1>0. /\ NoClaim \in Claims /\ AbsentRow \in ApprovalRows /\ Idle \in Requests
      /\ NoRecord \in Records /\ 0 \in 0..MaxTurns /\ 0 \in 0..MaxApprovals
  BY BoundsAssumption, TurnsAssumption
  DEF NoClaim, Claims, AbsentRow, ApprovalRows, Stages, ReviewNextAgents, Idle, Requests, Pcs,
      TerminalStatuses, NoRecord, Records
<1>1. TypeInv
  <2>1. TypeOK
    BY <1>0, TurnTypes DEF FollowupInit, TypeOK, Waiting
  <2>2. ClaimOK /\ RowsOrdered(policyRows) /\ RowsOrdered(responseRows)
    BY DEF FollowupInit, ClaimOK, RowsOrdered, OwnRows
  <2> QED BY <2>1, <2>2 DEF TypeInv
<1>2. FollowupTypeOK
  BY <1>0, <1>1, InitialRowFacts, TurnTypes DEF FollowupInit, FollowupTypeOK, TypeInv
<1>3. Counted
  BY DEF FollowupInit, Counted, NoTurn
<1>4. Clean
  BY InitialRowFacts DEF FollowupInit, Clean
<1>5. Called
  <2>1. ~Disturbed
    BY DEF FollowupInit, Disturbed, AbsentRow
  <2>2. GovernanceRow("policy_agent", "block", token) \notin rows
    BY InitialRowFacts DEF FollowupInit, GovernanceRow
  <2> QED BY <2>1, <2>2 DEF FollowupInit, Called
<1> QED BY <1>1, <1>2, <1>3, <1>4, <1>5 DEF FollowupInv, FollowupInit, Restored, Proven

------------------------------------------------------------------------------------
(* A write of the graph: only the newest turn makes one, and before any answer.      *)

LEMMA FencedFacts ==
  ASSUME FollowupInv, NEW c \in Customers, turn[c].pc # "idle", CurrentToken(turn[c].token)
  PROVE  turn[c].token = token /\ token \in Turns /\ failed # token
<1>1. turn[c].token = token /\ token # 0 /\ failed # token
  BY DEF CurrentToken
<1> QED BY <1>1, TurnsAssumption DEF FollowupInv, FollowupTypeOK, Turns

LEMMA FencedStep ==
  ASSUME FollowupInv, NEW c \in Customers, turn[c].pc # "idle", ActiveTurn(turn[c].token),
         UNCHANGED <<token, failed, completion, claim, refunds>>,
         rows \subseteq rows', \A r \in rows' \ rows : r.turn = token,
         GovernanceRow("policy_agent", "block", token) \in rows' \ rows =>
           Handoff("policy_agent", "human_approval", token) \in rows',
         Disturbed' => Disturbed \/ CalledForReview',
         \A b \in Customers \ {c} : turn'[b] = turn[b],
         turn'[c].token = turn[c].token
  PROVE  Counted' /\ Clean' /\ Called' /\ Restored' /\ Proven'
<1>1. /\ turn[c].token = token /\ token \in Turns /\ failed # token /\ completion = 0
  BY FencedFacts DEF ActiveTurn
<1>2. Counted'
  <2>1. \A b \in Customers : turn'[b].pc # "idle" => /\ turn[b].pc # "idle"
                                                     /\ turn'[b].token = turn[b].token
    OBVIOUS
  <2> QED BY <2>1 DEF FollowupInv, Counted
<1>3. Clean'
  BY <1>1 DEF FollowupInv, Clean, Turns
<1>4. CalledForReview => CalledForReview'
  BY DEF CalledForReview
<1>5. Called'
  BY <1>4 DEF FollowupInv, Called
<1> QED BY <1>1, <1>2, <1>3, <1>5 DEF Restored, Proven

\* The same for the steps that write rows of their own and nothing of the service's.
LEMMA GraphStep ==
  ASSUME FollowupInv, NEW c \in Customers, turn[c].pc # "idle", ActiveTurn(turn[c].token),
         UNCHANGED ledgerVars, StageWrites,
         wf' \in [status : WorkflowStatuses, agent : WorkflowAgents],
         rows \subseteq rows', rows' \subseteq Rows, \A r \in rows' \ rows : r.turn = token,
         GovernanceRow("policy_agent", "block", token) \notin rows' \ rows,
         turn' \in [Customers -> TurnRequests],
         \A b \in Customers \ {c} : turn'[b] = turn[b],
         turn'[c].token = turn[c].token
  PROVE  FollowupInv'
<1>1. TypeInv'
  BY LedgerKept DEF StageWrites, FollowupInv
<1>2. FollowupTypeOK'
  BY <1>1 DEF StageWrites, FollowupInv, FollowupTypeOK, TypeInv
<1>3. Disturbed' = Disturbed
  BY DEF ledgerVars, Disturbed
<1>4. Counted' /\ Clean' /\ Called' /\ Restored' /\ Proven'
  BY <1>3, FencedStep DEF StageWrites, ledgerVars
<1> QED BY <1>1, <1>2, <1>4 DEF FollowupInv

\* What every later use asks about the request that took the step.
LEMMA TurnUpdate ==
  ASSUME FollowupTypeOK, NEW c \in Customers, NEW x \in TurnRequests,
         turn' = [turn EXCEPT ![c] = x], x.token = turn[c].token
  PROVE  /\ turn' \in [Customers -> TurnRequests]
         /\ \A b \in Customers \ {c} : turn'[b] = turn[b]
         /\ turn'[c].token = turn[c].token
BY DEF FollowupTypeOK

LEMMA TurnTriageGovernanceKeeps ==
  ASSUME FollowupInv, NEW c \in Customers, NEW b \in BOOLEAN, TurnTriageGovernance(c, b)
  PROVE  FollowupInv'
<1> DEFINE row == GovernanceRow("triage_agent", IF b THEN "block" ELSE "allow", turn[c].token)
           x == [turn[c] EXCEPT !.pc = "triage", !.blocked = b]
<1>1. /\ turn[c].pc # "idle" /\ ActiveTurn(turn[c].token) /\ CurrentToken(turn[c].token)
  BY DEF TurnTriageGovernance, AtNode, ActiveTurn
<1>2. turn[c].token = token /\ token \in Turns
  BY <1>1, FencedFacts
<1>3. row \in Rows /\ row.turn = token /\ row # GovernanceRow("policy_agent", "block", token)
  BY <1>2, StageRowTypes DEF StageAgents, GovernanceRow
<1>4. /\ turn' = [turn EXCEPT ![c] = x] /\ x \in TurnRequests /\ x.token = turn[c].token
  BY DEF TurnTriageGovernance, FollowupInv, FollowupTypeOK, TurnRequests, GraphPcs
<1>5. rows' = rows \cup {row} /\ StageWrites /\ UNCHANGED <<wf, ledgerVars>>
  BY DEF TurnTriageGovernance
<1>6. wf' \in [status : WorkflowStatuses, agent : WorkflowAgents]
  BY <1>5 DEF FollowupInv, TypeInv, TypeOK
<1> HIDE DEF row, x
<1>7. /\ turn' \in [Customers -> TurnRequests]
      /\ \A k \in Customers \ {c} : turn'[k] = turn[k]
      /\ turn'[c].token = turn[c].token
  BY <1>4, TurnUpdate DEF FollowupInv
<1>8. /\ rows \subseteq rows' /\ rows' \subseteq Rows /\ \A r \in rows' \ rows : r.turn = token
      /\ GovernanceRow("policy_agent", "block", token) \notin rows' \ rows
  BY <1>3, <1>5 DEF FollowupInv, FollowupTypeOK
<1> QED BY <1>1, <1>5, <1>6, <1>7, <1>8, GraphStep

LEMMA TurnPersistTriageKeeps ==
  ASSUME FollowupInv, NEW c \in Customers,
         NEW n \in {"policy_agent", "response_agent", "human_approval"}, TurnPersistTriage(c, n)
  PROVE  FollowupInv'
<1> DEFINE row == Handoff("triage_agent", n, turn[c].token)
           x == [turn[c] EXCEPT !.pc = [policy_agent |-> "policy",
                   response_agent |-> "response_governance",
                   human_approval |-> "human_approval"][n]]
<1>1. /\ turn[c].pc # "idle" /\ ActiveTurn(turn[c].token) /\ CurrentToken(turn[c].token)
  BY DEF TurnPersistTriage, AtNode, ActiveTurn
<1>2. turn[c].token = token /\ token \in Turns
  BY <1>1, FencedFacts
<1>3. row \in Rows /\ row.turn = token /\ row # GovernanceRow("policy_agent", "block", token)
  BY <1>2, StageRowTypes DEF StageAgents, PolicyRoutes, Handoff, GovernanceRow
<1>4. turn' = [turn EXCEPT ![c] = x] /\ x \in TurnRequests /\ x.token = turn[c].token
  BY DEF TurnPersistTriage, Step, FollowupInv, FollowupTypeOK, TurnRequests, GraphPcs
<1>5. rows' = rows \cup {row} /\ StageWrites /\ UNCHANGED ledgerVars
  BY DEF TurnPersistTriage
<1>6. wf' \in [status : WorkflowStatuses, agent : WorkflowAgents]
  BY TurnTypes DEF TurnPersistTriage, PolicyRoutes
<1> HIDE DEF row, x
<1>7. /\ turn' \in [Customers -> TurnRequests]
      /\ \A k \in Customers \ {c} : turn'[k] = turn[k]
      /\ turn'[c].token = turn[c].token
  BY <1>4, TurnUpdate DEF FollowupInv
<1>8. /\ rows \subseteq rows' /\ rows' \subseteq Rows /\ \A r \in rows' \ rows : r.turn = token
      /\ GovernanceRow("policy_agent", "block", token) \notin rows' \ rows
  BY <1>3, <1>5 DEF FollowupInv, FollowupTypeOK
<1> QED BY <1>1, <1>5, <1>6, <1>7, <1>8, GraphStep

\* A review opens only beside the handoff that sends the turn to a person.
LEMMA TurnPolicyKeeps ==
  ASSUME FollowupInv, NEW c \in Customers, NEW d \in PolicyDecisions, NEW b \in BOOLEAN,
         TurnPolicy(c, d, b)
  PROVE  FollowupInv'
<1> DEFINE route == PolicyNextAgent(d, b)
           new == {Handoff("policy_agent", route, turn[c].token)}
                    \cup (IF b THEN {GovernanceRow("policy_agent", "block", turn[c].token)} ELSE {})
           x == [turn[c] EXCEPT !.decision = d, !.blocked = b, !.stage = "policy",
                   !.pc = [refund_agent |-> "refund", response_agent |-> "response_governance",
                           human_approval |-> "human_approval"][route]]
<1>1. /\ turn[c].pc # "idle" /\ ActiveTurn(turn[c].token) /\ CurrentToken(turn[c].token)
  BY DEF TurnPolicy, AtNode, ActiveTurn
<1>2. turn[c].token = token /\ token \in Turns
  BY <1>1, FencedFacts
<1>3. route \in PolicyRoutes /\ (b => route = "human_approval")
  BY RoutingTypes DEF PolicyNextAgent, route_policy, parent_agent_for_route
<1>4. /\ rows' = rows \cup new /\ StageWrites /\ wf' = PolicyWorkflowState(route)
      /\ PersistPolicyApproval(d, route, NoClaim) /\ turn' = [turn EXCEPT ![c] = x]
      /\ UNCHANGED <<claim, revoked, done, policyRows, responseRows, blocks, refunds>>
  BY DEF TurnPolicy, FollowupInv, FollowupTypeOK
<1>5. x \in TurnRequests /\ x.token = turn[c].token
  <2>1. turn[c] \in TurnRequests
    BY DEF FollowupInv, FollowupTypeOK
  <2> DEFINE pc == [refund_agent |-> "refund", response_agent |-> "response_governance",
                    human_approval |-> "human_approval"][route]
  <2> HIDE DEF route
  <2>2. pc \in GraphPcs
    BY <1>3 DEF GraphPcs, PolicyRoutes
  <2>3. x = [turn[c] EXCEPT !.decision = d, !.blocked = b, !.stage = "policy", !.pc = pc]
    OBVIOUS
  <2> HIDE DEF pc, x
  <2> QED BY <2>1, <2>2, <2>3 DEF TurnRequests, Stages
<1> HIDE DEF route, x
<1>6. /\ new \subseteq Rows /\ \A r \in new : r.turn = token
      /\ b => Handoff("policy_agent", "human_approval", token) \in new
      /\ GovernanceRow("policy_agent", "block", token) \in new => b
  <2>1. /\ Handoff("policy_agent", route, token) \in Rows
        /\ GovernanceRow("policy_agent", "block", token) \in Rows
    BY <1>2, <1>3, StageRowTypes DEF StageAgents
  <2>2. new \subseteq Rows /\ (b => Handoff("policy_agent", "human_approval", token) \in new)
    BY <1>2, <1>3, <2>1
  <2> QED BY <1>2, <2>2 DEF Handoff, GovernanceRow
<1> HIDE DEF new
<1>7. NoClaim \in Claims
  BY BoundsAssumption DEF NoClaim, Claims
<1>8. appr' \in [Approvals -> ApprovalRows] /\ nAppr' \in 0..MaxApprovals
  BY <1>3, <1>4, <1>7, PolicyApprovalType DEF FollowupInv
<1>9. TypeInv'
  <2>1. wf' \in [status : WorkflowStatuses, agent : WorkflowAgents]
    BY <1>3, <1>4, RoutingTypes
  <2> QED BY <1>4, <1>8, <2>1, MarkersUnchanged DEF StageWrites, FollowupInv, TypeInv, TypeOK
<1>10. FollowupTypeOK'
  BY <1>4, <1>5, <1>6, <1>9 DEF StageWrites, FollowupInv, FollowupTypeOK, TypeInv
<1>11. Disturbed' => Disturbed \/ CalledForReview'
  <2>1. CASE route = "human_approval"
    BY <1>2, <1>4, <2>1 DEF StageWrites, CalledForReview, new
  <2>2. CASE route # "human_approval"
    <3>1. \A a \in Approvals : \/ appr'[a] = appr[a] \/ appr[a].status = "pending"
      BY <1>4, <2>2 DEF PersistPolicyApproval, PendingPolicyApprovals, Pending
    <3> QED BY <1>4, <3>1 DEF Disturbed
  <2> QED BY <2>1, <2>2
<1>12. Counted' /\ Clean' /\ Called' /\ Restored' /\ Proven'
  <2>1. UNCHANGED <<token, failed, completion, claim, refunds>>
    BY <1>4 DEF StageWrites
  <2>2. /\ \A k \in Customers \ {c} : turn'[k] = turn[k]
        /\ turn'[c].token = turn[c].token
    BY <1>4, <1>5, TurnUpdate DEF FollowupInv
  <2>3. /\ rows \subseteq rows' /\ \A r \in rows' \ rows : r.turn = token
        /\ GovernanceRow("policy_agent", "block", token) \in rows' \ rows =>
             Handoff("policy_agent", "human_approval", token) \in rows'
    BY <1>4, <1>6
  <2> QED BY <1>1, <1>11, <2>1, <2>2, <2>3, FencedStep
<1> QED BY <1>9, <1>10, <1>12 DEF FollowupInv

LEMMA TurnRefundKeeps ==
  ASSUME FollowupInv, NEW c \in Customers, NEW m \in {"exact", "other"}, TurnRefund(c, m)
  PROVE  FollowupInv'
<1> DEFINE new == {RefundRow(m, turn[c].token),
                   Handoff("refund_agent", "response_agent", turn[c].token)}
           x == [turn[c] EXCEPT !.pc = "response_governance", !.exact = (m = "exact")]
<1>1. /\ turn[c].pc # "idle" /\ ActiveTurn(turn[c].token) /\ CurrentToken(turn[c].token)
  BY DEF TurnRefund, AtNode, ActiveTurn
<1>2. turn[c].token = token /\ token \in Turns
  BY <1>1, FencedFacts
<1>3. /\ new \subseteq Rows /\ \A r \in new : r.turn = token
      /\ GovernanceRow("policy_agent", "block", token) \notin new
  <2>1. RefundRow(m, token) \in Rows /\ Handoff("refund_agent", "response_agent", token) \in Rows
    BY <1>2, StageRowTypes DEF StageAgents, PolicyRoutes
  <2> QED BY <1>2, <2>1 DEF RefundRow, Handoff, GovernanceRow
<1>4. turn' = [turn EXCEPT ![c] = x] /\ x \in TurnRequests /\ x.token = turn[c].token
  <2>1. turn[c] \in TurnRequests /\ (m = "exact") \in BOOLEAN
    BY DEF FollowupInv, FollowupTypeOK
  <2>2. turn' = [turn EXCEPT ![c] = x]
    BY DEF TurnRefund, FollowupInv, FollowupTypeOK
  <2> DEFINE e == (m = "exact")
  <2>3. x = [turn[c] EXCEPT !.pc = "response_governance", !.exact = e]
    OBVIOUS
  <2>4. e \in BOOLEAN
    BY <2>1
  <2> HIDE DEF e
  <2>5. x \in TurnRequests /\ x.token = turn[c].token
    BY <2>1, <2>3, <2>4 DEF TurnRequests, GraphPcs
  <2> QED BY <2>2, <2>5
<1>5. rows' = rows \cup new /\ StageWrites /\ UNCHANGED ledgerVars
  BY DEF TurnRefund
<1>6. wf' \in [status : WorkflowStatuses, agent : WorkflowAgents]
  BY DEF TurnRefund, WorkflowStatuses, WorkflowAgents
<1> HIDE DEF new, x
<1>7. /\ turn' \in [Customers -> TurnRequests]
      /\ \A k \in Customers \ {c} : turn'[k] = turn[k]
      /\ turn'[c].token = turn[c].token
  BY <1>4, TurnUpdate DEF FollowupInv
<1>8. /\ rows \subseteq rows' /\ rows' \subseteq Rows /\ \A r \in rows' \ rows : r.turn = token
      /\ GovernanceRow("policy_agent", "block", token) \notin rows' \ rows
  BY <1>3, <1>5 DEF FollowupInv, FollowupTypeOK
<1> QED BY <1>1, <1>5, <1>6, <1>7, <1>8, GraphStep

\* The second question needs a row that blocks the turn.
LEMMA TurnHumanApprovalKeeps ==
  ASSUME FollowupInv, NEW c \in Customers, TurnHumanApproval(c)
  PROVE  FollowupInv'
<1> DEFINE x == [turn[c] EXCEPT !.paused = TRUE,
                   !.pc = IF turn[c].stage = "response" THEN "complete" ELSE "response_governance"]
<1>1. /\ turn[c].pc # "idle" /\ ActiveTurn(turn[c].token) /\ CurrentToken(turn[c].token)
  BY DEF TurnHumanApproval, AtNode, ActiveTurn
<1>2. turn[c].token = token /\ token \in Turns
  BY <1>1, FencedFacts
<1>3. turn[c] \in TurnRequests
  BY DEF FollowupInv, FollowupTypeOK
<1>4. turn' = [turn EXCEPT ![c] = x] /\ x \in TurnRequests /\ x.token = turn[c].token
  BY <1>3 DEF TurnHumanApproval, FollowupInv, FollowupTypeOK, TurnRequests, GraphPcs
<1>5. /\ StageWrites
      /\ UNCHANGED <<rows, claim, revoked, done, policyRows, responseRows, blocks, refunds>>
  BY DEF TurnHumanApproval
<1> HIDE DEF x
<1>6. /\ turn' \in [Customers -> TurnRequests]
      /\ \A k \in Customers \ {c} : turn'[k] = turn[k]
      /\ turn'[c].token = turn[c].token
  BY <1>4, TurnUpdate DEF FollowupInv
<1>7. CASE UNCHANGED <<wf, nAppr, appr>>
  <2>1. UNCHANGED ledgerVars /\ wf' \in [status : WorkflowStatuses, agent : WorkflowAgents]
    BY <1>5, <1>7 DEF ledgerVars, FollowupInv, TypeInv, TypeOK
  <2>2. rows' = rows /\ rows' \subseteq Rows
    BY <1>5 DEF FollowupInv, FollowupTypeOK
  <2> QED BY <1>1, <1>5, <1>6, <2>1, <2>2, GraphStep
<1>8. CASE /\ GovernanceRow(StageAgent(turn[c].stage), "block", turn[c].token) \in rows
           /\ InsertReview(PendingRow(turn[c].stage, FALSE, turn[c].decision, NoClaim))
           /\ wf' = TerminalWorkflowState("pending_human")
  <2>1. PendingRow(turn[c].stage, FALSE, turn[c].decision, NoClaim) \in ApprovalRows
    <3>1. NoClaim \in Claims
      BY BoundsAssumption DEF NoClaim, Claims
    <3> QED BY <1>3, <3>1, RoutingTypes DEF PendingRow, ApprovalRows, TurnRequests
  <2>2. appr' \in [Approvals -> ApprovalRows] /\ nAppr' \in 0..MaxApprovals
    BY <1>8, <2>1, InsertReviewType DEF InsertReview, FollowupInv
  <2>3. TypeInv'
    BY <1>5, <1>8, <2>2, TurnTypes, MarkersUnchanged
    DEF StageWrites, FollowupInv, TypeInv, TypeOK
  <2>4. FollowupTypeOK'
    BY <1>4, <1>5, <2>3 DEF StageWrites, FollowupInv, FollowupTypeOK, TypeInv
  <2>5. CalledForReview
    <3>1. StageAgent(turn[c].stage) \in {"triage_agent", "policy_agent", "response_agent"}
      BY <1>3 DEF TurnRequests, Stages, StageAgent
    <3> QED BY <1>2, <1>8, <3>1 DEF FollowupInv, Called, CalledForReview
  <2>6. CalledForReview'
    BY <1>5, <2>5 DEF StageWrites, CalledForReview
  <2>7. Counted' /\ Clean' /\ Called' /\ Restored' /\ Proven'
    <3>1. rows' = rows /\ UNCHANGED <<token, failed, completion, claim, refunds>>
      BY <1>5 DEF StageWrites
    <3> QED BY <1>1, <1>6, <2>6, <3>1, FencedStep
  <2> QED BY <2>3, <2>4, <2>7 DEF FollowupInv
<1> QED BY <1>7, <1>8 DEF TurnHumanApproval

LEMMA TurnResponseGovernanceKeeps ==
  ASSUME FollowupInv, NEW c \in Customers, NEW b \in BOOLEAN, TurnResponseGovernance(c, b)
  PROVE  FollowupInv'
<1> DEFINE row == GovernanceRow("response_agent", IF b THEN "block" ELSE "allow", turn[c].token)
           x == [turn[c] EXCEPT !.pc = "response", !.blocked = b,
                                !.stage = IF b THEN "response" ELSE @]
<1>1. /\ turn[c].pc # "idle" /\ ActiveTurn(turn[c].token) /\ CurrentToken(turn[c].token)
  BY DEF TurnResponseGovernance, AtNode, ActiveTurn
<1>2. turn[c].token = token /\ token \in Turns
  BY <1>1, FencedFacts
<1>3. row \in Rows /\ row.turn = token /\ row # GovernanceRow("policy_agent", "block", token)
  BY <1>2, StageRowTypes DEF StageAgents, GovernanceRow
<1>4. turn' = [turn EXCEPT ![c] = x] /\ x \in TurnRequests /\ x.token = turn[c].token
  BY DEF TurnResponseGovernance, FollowupInv, FollowupTypeOK, TurnRequests, GraphPcs, Stages
<1>5. rows' = rows \cup {row} /\ StageWrites /\ UNCHANGED <<wf, ledgerVars>>
  BY DEF TurnResponseGovernance
<1>6. wf' \in [status : WorkflowStatuses, agent : WorkflowAgents]
  BY <1>5 DEF FollowupInv, TypeInv, TypeOK
<1> HIDE DEF row, x
<1>7. /\ turn' \in [Customers -> TurnRequests]
      /\ \A k \in Customers \ {c} : turn'[k] = turn[k]
      /\ turn'[c].token = turn[c].token
  BY <1>4, TurnUpdate DEF FollowupInv
<1>8. /\ rows \subseteq rows' /\ rows' \subseteq Rows /\ \A r \in rows' \ rows : r.turn = token
      /\ GovernanceRow("policy_agent", "block", token) \notin rows' \ rows
  BY <1>3, <1>5 DEF FollowupInv, FollowupTypeOK
<1> QED BY <1>1, <1>5, <1>6, <1>7, <1>8, GraphStep

LEMMA TurnPersistResponseKeeps ==
  ASSUME FollowupInv, NEW c \in Customers, TurnPersistResponse(c)
  PROVE  FollowupInv'
<1> DEFINE row == Handoff("response_agent",
                          IF turn[c].blocked THEN "human_approval" ELSE "end", turn[c].token)
           x == [turn[c] EXCEPT !.pc = IF turn[c].blocked THEN "human_approval" ELSE "complete"]
<1>1. /\ turn[c].pc # "idle" /\ ActiveTurn(turn[c].token) /\ CurrentToken(turn[c].token)
  BY DEF TurnPersistResponse, AtNode, ActiveTurn
<1>2. turn[c].token = token /\ token \in Turns
  BY <1>1, FencedFacts
<1>3. row \in Rows /\ row.turn = token /\ row # GovernanceRow("policy_agent", "block", token)
  BY <1>2, StageRowTypes DEF StageAgents, PolicyRoutes, Handoff, GovernanceRow
<1>4. turn' = [turn EXCEPT ![c] = x] /\ x \in TurnRequests /\ x.token = turn[c].token
  BY DEF TurnPersistResponse, Step, FollowupInv, FollowupTypeOK, TurnRequests, GraphPcs
<1>5. rows' = rows \cup {row} /\ StageWrites /\ UNCHANGED ledgerVars
  BY DEF TurnPersistResponse
<1>6. wf' \in [status : WorkflowStatuses, agent : WorkflowAgents]
  BY TurnTypes DEF TurnPersistResponse
<1> HIDE DEF row, x
<1>7. /\ turn' \in [Customers -> TurnRequests]
      /\ \A k \in Customers \ {c} : turn'[k] = turn[k]
      /\ turn'[c].token = turn[c].token
  BY <1>4, TurnUpdate DEF FollowupInv
<1>8. /\ rows \subseteq rows' /\ rows' \subseteq Rows /\ \A r \in rows' \ rows : r.turn = token
      /\ GovernanceRow("policy_agent", "block", token) \notin rows' \ rows
  BY <1>3, <1>5 DEF FollowupInv, FollowupTypeOK
<1> QED BY <1>1, <1>5, <1>6, <1>7, <1>8, GraphStep

LEMMA TurnHeartbeatKeeps ==
  ASSUME FollowupInv, NEW c \in Customers, TurnHeartbeat(c)
  PROVE  FollowupInv'
<1>1. UNCHANGED <<wf, ledgerVars, rows, turn, token, failed, completion, req>> /\ fresh' = TRUE
  BY DEF TurnHeartbeat, StageWrites
<1>2. TypeInv'
  BY <1>1, LedgerKept DEF FollowupInv, TypeInv, TypeOK
<1>3. Disturbed' = Disturbed /\ CalledForReview' = CalledForReview /\ UNCHANGED <<claim, refunds>>
  BY <1>1 DEF ledgerVars, Disturbed, CalledForReview
<1>4. Proved(token)' = Proved(token)
  BY <1>1, <1>3 DEF Proved, Refunded
<1> QED BY <1>1, <1>2, <1>3, <1>4
        DEF FollowupInv, FollowupTypeOK, TypeInv, Counted, Clean, Called, Restored, Proven

------------------------------------------------------------------------------------
(* Claims.                                                                          *)

\* A new attempt finds the first turn's rows, and nobody reviewing anything.
LEMMA AppendTurnKeeps ==
  ASSUME FollowupInv, NEW c \in Customers, turn[c].pc = "idle", AppendTurn(c), completion = 0,
         rows' = InitialRows, TypeInv', ~Disturbed', refunds' = {}
  PROVE  FollowupInv'
<1>1. /\ token \in 0..MaxTurns /\ token' = token + 1 /\ token' \in Turns
      /\ failed' = failed /\ completion' = 0
  BY TurnsAssumption DEF AppendTurn, FollowupInv, FollowupTypeOK, Turns
<1> DEFINE x == [NoTurn EXCEPT !.pc = "triage_governance", !.token = token']
<1>2. x \in TurnRequests /\ x.token = token'
  <2>1. NoTurn \in TurnRequests /\ token' \in 0..MaxTurns
    BY <1>1, TurnTypes, TurnsAssumption DEF Turns
  <2> QED BY <2>1 DEF TurnRequests, GraphPcs
<1>3. turn' = [turn EXCEPT ![c] = x]
  BY DEF AppendTurn
<1> HIDE DEF x
<1>4. /\ turn' \in [Customers -> TurnRequests] /\ turn'[c].token = token'
      /\ \A b \in Customers \ {c} : turn'[b] = turn[b]
  BY <1>2, <1>3 DEF FollowupInv, FollowupTypeOK
<1>5. FollowupTypeOK'
  <2>1. rows' \subseteq Rows
    BY InitialRowFacts
  <2>2. token' \in 0..MaxTurns
    BY <1>1, TurnsAssumption DEF Turns
  <2> QED BY <1>1, <1>4, <2>1, <2>2 DEF FollowupInv, FollowupTypeOK, TypeInv
<1>6. Counted'
  <2>1. failed \in Nat /\ failed <= token /\ token \in Nat
    BY <1>1, TurnsAssumption DEF FollowupInv, FollowupTypeOK, Counted
  <2>2. \A b \in Customers \ {c} : turn'[b].pc # "idle" => turn'[b].token \in 1..token
    BY <1>4 DEF FollowupInv, Counted
  <2>3. \A b \in Customers : turn'[b].pc # "idle" => turn'[b].token \in 1..token'
    BY <1>1, <1>4, <2>1, <2>2
  <2>4. \A a, b \in Customers :
          (turn'[a].pc # "idle" /\ turn'[b].pc # "idle" /\ turn'[a].token = turn'[b].token)
            => a = b
    <3>1. \A b \in Customers \ {c} : turn'[b].pc # "idle" => turn'[b].token # token'
      BY <1>1, <2>1, <2>2
    <3>2. \A a, b \in Customers \ {c} :
            (turn'[a].pc # "idle" /\ turn'[b].pc # "idle" /\ turn'[a].token = turn'[b].token)
              => a = b
      BY <1>4 DEF FollowupInv, Counted
    <3> QED BY <1>4, <3>1, <3>2
  <2> QED BY <1>1, <2>1, <2>3, <2>4 DEF Counted
<1>7. Clean'
  BY InitialRowFacts DEF Clean
<1>8. Called'
  BY InitialRowFacts DEF Called, GovernanceRow
<1>9. failed' # token'
  BY <1>1, TurnsAssumption DEF FollowupInv, FollowupTypeOK, Counted
<1> QED BY <1>1, <1>5, <1>6, <1>7, <1>8, <1>9 DEF FollowupInv, Restored, Proven

LEMMA FirstClaimKeeps ==
  ASSUME FollowupInv, NEW c \in Customers, FirstClaim(c)
  PROVE  FollowupInv'
<1>1. token = 0 /\ turn[c].pc = "idle" /\ AppendTurn(c) /\ UNCHANGED <<rows, ledgerVars>>
  BY DEF FirstClaim
<1>2. rows' = InitialRows
  BY <1>1 DEF FollowupInv, Clean
<1>3. ~Disturbed /\ refunds = {}
  BY <1>1, <1>2, InitialRowsAreQuiet DEF FollowupInv, Called, Disturbed
<1>4. ~Disturbed' /\ refunds' = {}
  BY <1>1, <1>3 DEF ledgerVars, Disturbed
<1>5. TypeInv'
  <2>1. /\ UNCHANGED req /\ fresh' \in BOOLEAN
        /\ wf' \in [status : WorkflowStatuses, agent : WorkflowAgents]
    BY <1>1 DEF AppendTurn, WorkflowStatuses, WorkflowAgents
  <2> QED BY <1>1, <2>1, LedgerKept DEF FollowupInv
<1>6. completion = 0
  BY <1>1 DEF FollowupInv, Counted
<1> QED BY <1>1, <1>2, <1>4, <1>5, <1>6, AppendTurnKeeps

LEMMA ReclaimKeeps ==
  ASSUME FollowupInv, NEW c \in Customers, Reclaim(c)
  PROVE  FollowupInv'
<1>1. completion = 0 /\ turn[c].pc = "idle" /\ AppendTurn(c) /\ RestoreSnapshot
  BY DEF Reclaim
<1>2. /\ UNCHANGED req /\ fresh' \in BOOLEAN
      /\ wf' \in [status : WorkflowStatuses, agent : WorkflowAgents]
  BY <1>1 DEF AppendTurn, WorkflowStatuses, WorkflowAgents
<1>3. TypeInv' /\ ~Disturbed' /\ refunds' = {} /\ rows' = InitialRows
  BY <1>1, <1>2, RestoreKeepsTypes DEF FollowupInv
<1> QED BY <1>1, <1>3, AppendTurnKeeps

------------------------------------------------------------------------------------
(* The end of a request.                                                            *)

\* Steps of a request that write nothing but, perhaps, an answer that can be proved.
LEMMA RequestStep ==
  ASSUME FollowupInv, UNCHANGED <<vars, rows, token, failed>>,
         turn' \in [Customers -> TurnRequests],
         \A b \in Customers : turn'[b].pc # "idle" => /\ turn[b].pc # "idle"
                                                      /\ turn'[b].token = turn[b].token,
         \/ UNCHANGED completion
         \/ completion' = token /\ token # 0 /\ wf = Completed /\ Proved(token)
  PROVE  FollowupInv'
<1>1. UNCHANGED <<wf, fresh, ledgerVars, req, rows, token, failed>>
  BY DEF vars, dbVars, ledgerVars
<1>2. TypeInv'
  BY <1>1, LedgerKept DEF FollowupInv, TypeInv, TypeOK
<1>3. /\ Disturbed' = Disturbed /\ CalledForReview' = CalledForReview
      /\ Proved(token)' = Proved(token) /\ UNCHANGED <<claim, refunds>>
  BY <1>1 DEF ledgerVars, Disturbed, CalledForReview, Proved, Refunded
<1>4. FollowupTypeOK'
  <2>1. completion' \in 0..MaxTurns
    BY DEF FollowupInv, FollowupTypeOK
  <2> QED BY <1>1, <1>2, <2>1 DEF FollowupInv, FollowupTypeOK, TypeInv
<1>5. Counted'
  BY <1>1 DEF FollowupInv, Counted
<1>6. Clean' /\ Called' /\ Restored'
  BY <1>1, <1>3 DEF FollowupInv, Clean, Called, Restored
<1>7. Proven'
  <2>1. CASE UNCHANGED completion
    BY <1>1, <1>3, <2>1 DEF FollowupInv, Proven
  <2>2. CASE token # 0 /\ wf = Completed /\ Proved(token)
    <3>1. Waiting # Completed
      BY DEF Waiting, Completed, TerminalWorkflowState
    <3>2. failed # token
      BY <2>2, <3>1 DEF FollowupInv, Restored
    <3> QED BY <1>1, <1>3, <2>2, <3>2 DEF Proven
  <2> QED BY <2>1, <2>2
<1> QED BY <1>2, <1>4, <1>5, <1>6, <1>7 DEF FollowupInv

LEMMA RecoverCompletionKeeps ==
  ASSUME FollowupInv, NEW c \in Customers, RecoverCompletion(c)
  PROVE  FollowupInv'
<1>1. /\ UNCHANGED <<vars, rows, token, failed>> /\ turn' = turn
      /\ completion' = token /\ token # 0 /\ wf = Completed /\ Proved(token)
  BY DEF RecoverCompletion
<1>2. turn' \in [Customers -> TurnRequests]
  BY <1>1 DEF FollowupInv, FollowupTypeOK
<1> QED BY <1>1, <1>2, RequestStep

\* A request forgets what it held.
LEMMA Forgets ==
  ASSUME FollowupTypeOK, NEW c \in Customers, turn' = [turn EXCEPT ![c] = NoTurn]
  PROVE  /\ turn' \in [Customers -> TurnRequests]
         /\ \A b \in Customers : turn'[b].pc # "idle" => turn'[b] = turn[b]
BY TurnTypes DEF FollowupTypeOK, NoTurn

LEMMA EndsKeep ==
  ASSUME FollowupInv, NEW c \in Customers, CompleteTurn(c) \/ TurnRaises(c) \/ TurnEnds(c)
  PROVE  FollowupInv'
<1>1. UNCHANGED <<vars, rows, token, failed>> /\ turn[c].pc # "idle"
  BY DEF CompleteTurn, TurnRaises, TurnEnds, GraphPcs
<1>2. CASE CompleteTurn(c)
  <2>1. /\ turn' = [turn EXCEPT ![c] = NoTurn] /\ CurrentToken(turn[c].token)
        /\ \/ UNCHANGED completion
           \/ completion' = turn[c].token /\ wf = Completed /\ Proved(turn[c].token)
    BY <1>2 DEF CompleteTurn
  <2>2. /\ turn' \in [Customers -> TurnRequests]
        /\ \A b \in Customers : turn'[b].pc # "idle" => turn'[b] = turn[b]
    BY <2>1, Forgets DEF FollowupInv
  <2>3. \A b \in Customers : turn'[b].pc # "idle" => turn[b].pc # "idle"
                                                      /\ turn'[b].token = turn[b].token
    BY <2>2
  <2>4. \/ UNCHANGED completion
        \/ completion' = token /\ token # 0 /\ wf = Completed /\ Proved(token)
    BY <2>1 DEF CurrentToken
  <2> QED BY <1>1, <2>2, <2>3, <2>4, RequestStep
<1>3. CASE TurnRaises(c)
  <2> DEFINE x == [turn[c] EXCEPT !.pc = "failing"]
  <2>1. turn' = [turn EXCEPT ![c] = x] /\ UNCHANGED completion
    BY <1>3 DEF TurnRaises, Step, FollowupInv, FollowupTypeOK
  <2>2. x \in TurnRequests /\ x.token = turn[c].token
    BY DEF FollowupInv, FollowupTypeOK, TurnRequests
  <2> HIDE DEF x
  <2>3. /\ turn' \in [Customers -> TurnRequests] /\ turn'[c].token = turn[c].token
        /\ \A b \in Customers \ {c} : turn'[b] = turn[b]
    BY <2>1, <2>2, TurnUpdate DEF FollowupInv
  <2>4. \A b \in Customers : turn'[b].pc # "idle" => turn[b].pc # "idle"
                                                      /\ turn'[b].token = turn[b].token
    BY <1>1, <2>3
  <2> QED BY <1>1, <2>1, <2>3, <2>4, RequestStep
<1>4. CASE TurnEnds(c)
  <2>1. turn' = [turn EXCEPT ![c] = NoTurn] /\ UNCHANGED completion
    BY <1>4 DEF TurnEnds
  <2>2. /\ turn' \in [Customers -> TurnRequests]
        /\ \A b \in Customers : turn'[b].pc # "idle" => turn'[b] = turn[b]
    BY <2>1, Forgets DEF FollowupInv
  <2>3. \A b \in Customers : turn'[b].pc # "idle" => turn[b].pc # "idle"
                                                      /\ turn'[b].token = turn[b].token
    BY <2>2
  <2> QED BY <1>1, <2>1, <2>2, <2>3, RequestStep
<1> QED BY <1>2, <1>3, <1>4

\* A failure that is recorded leaves the first turn behind, and nothing else.
LEMMA FailTurnKeeps ==
  ASSUME FollowupInv, NEW c \in Customers, FailTurn(c)
  PROVE  FollowupInv'
<1>1. /\ turn[c].pc # "idle" /\ CurrentToken(turn[c].token) /\ completion = 0
      /\ RestoreSnapshot /\ wf' = Waiting /\ fresh' = TRUE /\ failed' = turn[c].token
      /\ turn' = [turn EXCEPT ![c] = NoTurn] /\ UNCHANGED <<token, completion, req>>
  BY DEF FailTurn
<1>2. turn[c].token = token /\ token \in Turns
  BY <1>1, FencedFacts
<1>3. TypeInv' /\ ~Disturbed' /\ refunds' = {} /\ rows' = InitialRows
  <2>1. wf' \in [status : WorkflowStatuses, agent : WorkflowAgents]
    BY <1>1, TurnTypes DEF Waiting
  <2> QED BY <1>1, <2>1, RestoreKeepsTypes DEF FollowupInv
<1>4. /\ turn' \in [Customers -> TurnRequests]
      /\ \A b \in Customers : turn'[b].pc # "idle" => turn'[b] = turn[b]
  BY <1>1, Forgets DEF FollowupInv
<1>5. FollowupTypeOK'
  <2>1. rows' \subseteq Rows
    BY <1>3, InitialRowFacts
  <2>2. failed' \in 0..MaxTurns
    BY <1>1, <1>2, TurnsAssumption DEF Turns
  <2> QED BY <1>1, <1>3, <1>4, <2>1, <2>2 DEF FollowupInv, FollowupTypeOK, TypeInv
<1>6. Counted'
  BY <1>1, <1>2, <1>4, TurnsAssumption DEF FollowupInv, Counted, Turns
<1>7. Clean' /\ Called'
  BY <1>3, InitialRowFacts DEF Clean, Called, GovernanceRow
<1> QED BY <1>1, <1>3, <1>5, <1>6, <1>7 DEF FollowupInv, Restored, Proven

\* The approval service cannot get at a first turn, nor at a turn that can be proved.
LEMMA ReviewServiceKeeps ==
  ASSUME FollowupInv, ReviewService
  PROVE  FollowupInv'
<1>1. [Next]_vars /\ UNCHANGED <<rows, token, failed, completion, turn>>
  BY DEF ReviewService, Next
<1>2. TypeInv'
  BY <1>1, TypeStep DEF FollowupInv
<1>3. /\ ~Disturbed => UNCHANGED <<wf, ledgerVars>>
      /\ claim # NoClaim => claim' # NoClaim
      /\ UNCHANGED refunds \/ claim # NoClaim
  BY <1>1, ServiceStep DEF FollowupInv
<1>4. CalledForReview' = CalledForReview
  BY <1>1 DEF CalledForReview
<1>5. ~Disturbed => ~Disturbed'
  BY <1>3 DEF Disturbed, ledgerVars
<1>6. FollowupTypeOK' /\ Counted' /\ Clean'
  BY <1>1, <1>2 DEF FollowupInv, FollowupTypeOK, TypeInv, Counted, Clean
<1>7. Called'
  BY <1>1, <1>3, <1>4, <1>5 DEF FollowupInv, Called
<1>8. Restored'
  BY <1>1, <1>3, InitialRowsAreQuiet DEF FollowupInv, Restored, Called
<1>9. Proven'
  <2>1. SUFFICES ASSUME completion # 0 PROVE wf' = Completed /\ Proved(token)' /\ failed # token
    BY <1>1 DEF Proven
  <2>2. wf = Completed /\ Proved(token) /\ failed # token
    BY <2>1 DEF FollowupInv, Proven
  <2>3. UNCHANGED <<wf, ledgerVars>>
    BY <1>3, <2>2, ProvedIsQuiet DEF FollowupInv
  <2> QED BY <1>1, <2>2, <2>3 DEF Proved, Refunded, ledgerVars
<1> QED BY <1>2, <1>6, <1>7, <1>8, <1>9 DEF FollowupInv

LEMMA StutterKeeps ==
  ASSUME FollowupInv, UNCHANGED followupVars
  PROVE  FollowupInv'
<1>1. /\ UNCHANGED <<vars, rows, token, failed>> /\ UNCHANGED completion
      /\ turn' \in [Customers -> TurnRequests] /\ UNCHANGED turn
  BY DEF followupVars, FollowupInv, FollowupTypeOK
<1> QED BY <1>1, RequestStep

LEMMA FollowupStep == FollowupInv /\ [FollowupNext]_followupVars => FollowupInv'
<1> SUFFICES ASSUME FollowupInv, [FollowupNext]_followupVars PROVE FollowupInv'
  OBVIOUS
<1>1. CASE \E c \in Customers : FollowupRequest(c)
  BY <1>1, FirstClaimKeeps, ReclaimKeeps, RecoverCompletionKeeps DEF FollowupRequest
<1>2. CASE \E c \in Customers : FollowupGraph(c)
  BY <1>2, TurnTriageGovernanceKeeps, TurnPersistTriageKeeps, TurnPolicyKeeps, TurnRefundKeeps,
     TurnHumanApprovalKeeps, TurnResponseGovernanceKeeps, TurnPersistResponseKeeps,
     TurnHeartbeatKeeps DEF FollowupGraph
<1>3. CASE \E c \in Customers : FollowupEnds(c)
  BY <1>3, EndsKeep, FailTurnKeeps DEF FollowupEnds
<1> QED BY <1>1, <1>2, <1>3, ReviewServiceKeeps, StutterKeeps DEF FollowupNext

LEMMA FollowupInvHolds == FollowupSpec => []FollowupInv
BY InitFollowup, FollowupStep, PTL DEF FollowupSpec

------------------------------------------------------------------------------------
(* The theorems.                                                                    *)

\* Every variable of the follow-up keeps its type, the approval service's rows included.
THEOREM FollowupTypeCorrect == FollowupSpec => []FollowupTypeOK
BY FollowupInvHolds, PTL DEF FollowupInv

\* Of any number of follow-up requests at most one holds a token that still passes the
\* fence of claim, fail and complete.
THEOREM OneTurnHolds == FollowupSpec => []OneTurnOwner
<1>1. FollowupInv => OneTurnOwner
  BY DEF FollowupInv, Counted, OneTurnOwner, CurrentToken
<1> QED BY <1>1, FollowupInvHolds, PTL

\* No attempt inherits a row, and a recorded failure leaves the first turn alone: no row, no
\* refund, no review and no claim of the attempt is left.
THEOREM RetriesStartClean == FollowupSpec => []RetryStartsClean
<1>1. FollowupInv => RetryStartsClean
  <2> SUFFICES ASSUME FollowupInv, token # 0, failed = token
               PROVE  /\ rows = InitialRows /\ wf = Waiting
                      /\ refunds = {} /\ Pending = {} /\ claim = NoClaim
    BY DEF FollowupInv, Clean, RetryStartsClean
  <2>1. rows = InitialRows /\ wf = Waiting
    BY DEF FollowupInv, Restored
  <2>2. ~Disturbed /\ refunds = {}
    BY <2>1, InitialRowsAreQuiet DEF FollowupInv, Called, Disturbed
  <2> QED BY <2>1, <2>2 DEF Disturbed, Pending
<1> QED BY <1>1, FollowupInvHolds, PTL

\* A recorded answer is one that can be proved from the rows, for as long as they exist.
LEMMA AnswerFacts ==
  ASSUME FollowupInv, completion # 0
  PROVE  /\ completion = token /\ token \in Turns
         /\ wf = Completed /\ Proved(token) /\ ~Disturbed /\ failed # token
<1>1. completion = token /\ token \in Turns
  BY TurnsAssumption DEF FollowupInv, FollowupTypeOK, Counted, Turns
<1>2. wf = Completed /\ Proved(token) /\ failed # token
  BY DEF FollowupInv, Proven
<1> QED BY <1>1, <1>2, ProvedIsQuiet DEF FollowupInv

LEMMA OneRefund ==
  ASSUME FollowupInv, Proved(token)
  PROVE  /\ Refunded = {RefundRow("exact", token)}
         /\ refunds = {}
<1>1. \A r \in Refunded : \E m \in {"exact", "other"} : r = RefundRow(m, token)
  <2> SUFFICES ASSUME NEW r \in rows, r.kind = "refund"
               PROVE  \E m \in {"exact", "other"} : r = RefundRow(m, token)
    BY DEF Refunded
  <2>1. r.turn = token
    BY InitialRowFacts DEF FollowupInv, Clean
  <2> QED BY <2>1 DEF FollowupInv, FollowupTypeOK, Rows, RefundRow, Handoff, GovernanceRow
<1>2. IsFiniteSet(Refunded)
  <2> DEFINE exact == RefundRow("exact", token)
             other == RefundRow("other", token)
  <2>1. Refunded \subseteq {exact} \cup {other}
    BY <1>1
  <2> HIDE DEF exact, other
  <2>2. IsFiniteSet({exact} \cup {other})
    BY FS_Singleton, FS_AddElement
  <2> QED BY <2>1, <2>2, FS_Subset
<1>3. PICK r : Refunded = {r}
  BY <1>2, FS_Singleton DEF Proved
<1>4. r = RefundRow("exact", token)
  <2>1. r.says = "exact" /\ \E m \in {"exact", "other"} : r = RefundRow(m, token)
    BY <1>1, <1>3 DEF Proved
  <2> QED BY <2>1 DEF RefundRow
<1> QED BY <1>3, <1>4 DEF Proved

\* Whatever late holders, repeated requests and reviewers do, an answer that was recorded
\* stays true: the case is completed, the first turn is intact, exactly the refund asked for
\* was paid under the answer's token, and nobody reviews it.
THEOREM AnswersStand == FollowupSpec => []AnswerStands
<1>1. FollowupInv => AnswerStands
  <2> SUFFICES ASSUME FollowupInv, completion # 0
               PROVE  /\ wf = Completed
                      /\ InitialRows \subseteq rows
                      /\ Refunded = {RefundRow("exact", completion)} /\ refunds = {}
                      /\ \A r \in rows : r.turn = completion => r.says # "block"
                      /\ Pending = {} /\ claim = NoClaim
    BY DEF AnswerStands
  <2>1. /\ completion = token /\ wf = Completed /\ Proved(token) /\ ~Disturbed
    BY AnswerFacts
  <2>2. Refunded = {RefundRow("exact", token)} /\ refunds = {}
    BY <2>1, OneRefund
  <2>3. ASSUME NEW r \in rows, r.turn = token, r.says = "block" PROVE FALSE
    <3>1. r \in Rows
      BY DEF FollowupInv, FollowupTypeOK
    <3>2. /\ r = GovernanceRow(r.agent, "block", token)
          /\ r.agent \in StageAgents
      BY <2>3, <3>1 DEF Rows, RefundRow, Handoff, GovernanceRow, PolicyRoutes
    <3>3. r.agent \notin {"triage_agent", "response_agent"}
      BY <2>1, <3>2 DEF Proved, GovernanceRow
    <3> QED BY <2>1, <3>2, <3>3, ProvedIsQuiet DEF FollowupInv, StageAgents
  <2> QED BY <2>1, <2>2, <2>3 DEF Proved, Disturbed, Pending
<1> QED BY <1>1, FollowupInvHolds, PTL

\* The answer is given once: after it no step of anybody writes to the trace.
THEOREM AnswersAreFinal == FollowupSpec => AnswerIsFinal
<1>1. ASSUME FollowupInv, [FollowupNext]_followupVars, completion # 0
      PROVE  UNCHANGED <<wf, rows, token, failed, completion, ledgerVars>>
  <2>0. /\ token # 0 /\ wf = Completed /\ ~Disturbed /\ wf.status = "completed"
    BY <1>1, AnswerFacts, TurnsAssumption DEF Turns, Completed, TerminalWorkflowState
  <2>1. ASSUME NEW c \in Customers, FollowupRequest(c) PROVE FALSE
    BY <1>1, <2>0, <2>1 DEF FollowupRequest, FirstClaim, Reclaim, RecoverCompletion
  <2>2. ASSUME NEW c \in Customers, FollowupGraph(c) PROVE FALSE
    BY <1>1, <2>0, <2>2
    DEF FollowupGraph, TurnTriageGovernance, TurnPersistTriage, TurnPolicy, TurnRefund,
        TurnHumanApproval, TurnResponseGovernance, TurnPersistResponse, TurnHeartbeat, AtNode,
        ActiveTurn
  <2>3. ASSUME NEW c \in Customers, FollowupEnds(c)
        PROVE  UNCHANGED <<vars, rows, token, failed, completion>>
    BY <1>1, <2>3 DEF FollowupEnds, CompleteTurn, TurnRaises, FailTurn, TurnEnds
  <2>4. CASE ReviewService
    <3>1. [Next]_vars /\ UNCHANGED <<rows, token, failed, completion>>
      BY <2>4 DEF ReviewService, Next
    <3> QED BY <1>1, <2>0, <3>1, ServiceStep DEF FollowupInv
  <2>5. UNCHANGED <<vars, rows, token, failed, completion>> =>
          UNCHANGED <<wf, rows, token, failed, completion, ledgerVars>>
    BY DEF vars, dbVars, ledgerVars
  <2> QED BY <1>1, <2>1, <2>2, <2>3, <2>4, <2>5 DEF FollowupNext, followupVars
<1>2. FollowupInv /\ [FollowupNext]_followupVars =>
        [completion # 0 => UNCHANGED <<wf, rows, token, failed, completion, ledgerVars>>]_followupVars
  BY <1>1
<1> QED BY <1>2, FollowupInvHolds, PTL DEF FollowupSpec, AnswerIsFinal

\* A request whose lease is fresh keeps its claim until it ends or records a failure.
THEOREM LeasesRespected == FollowupSpec => LeaseRespected
<1>1. ASSUME [FollowupNext]_followupVars,
             NEW c \in Customers, CurrentToken(turn[c].token), fresh
      PROVE  token' = token
  <2>1. token # 0 /\ failed # token
    BY <1>1 DEF CurrentToken
  <2>2. ASSUME NEW b \in Customers, FollowupRequest(b) PROVE UNCHANGED token
    BY <1>1, <2>1, <2>2 DEF FollowupRequest, FirstClaim, Reclaim, Reclaimable, RecoverCompletion
  <2>3. ASSUME NEW b \in Customers, FollowupGraph(b) \/ FollowupEnds(b) PROVE UNCHANGED token
    BY <2>3
    DEF FollowupGraph, TurnTriageGovernance, TurnPersistTriage, TurnPolicy, TurnRefund,
        TurnHumanApproval, TurnResponseGovernance, TurnPersistResponse, TurnHeartbeat,
        StageWrites, FollowupEnds, CompleteTurn, TurnRaises, FailTurn, TurnEnds
  <2> QED BY <1>1, <2>2, <2>3 DEF FollowupNext, ReviewService, followupVars
<1>2. [FollowupNext]_followupVars =>
        [\A c \in Customers : turn[c].pc # "idle" /\ CurrentToken(turn[c].token) /\ fresh
                                => token' = token]_followupVars
  BY <1>1
<1> QED BY <1>2, PTL DEF FollowupSpec, LeaseRespected

------------------------------------------------------------------------------------
(* The follow-up implements FollowupContract.                                       *)

\* Steps that change neither the claims nor the money are hidden from the customer.
LEMMA HiddenStep ==
  UNCHANGED <<token, failed, completion, refunds>> /\ Refunded' = Refunded
    => UNCHANGED <<Phase, PaidRecords>>
BY DEF Phase, PaidRecords

LEMMA NothingPaid ==
  /\ rows = InitialRows /\ refunds = {} => PaidRecords = {}
  /\ rows' = InitialRows /\ refunds' = {} => PaidRecords' = {}
BY InitialRowFacts DEF PaidRecords, Refunded

\* Beginning, once more or for the first time.
LEMMA ClaimMaps ==
  ASSUME FollowupInv, FollowupInv', NEW c \in Customers, FirstClaim(c) \/ Reclaim(c)
  PROVE  Promise!Next
<1>1. completion = 0 /\ completion' = 0 /\ token' = token + 1 /\ failed' = failed
  BY DEF FirstClaim, Reclaim, AppendTurn, FollowupInv, Counted
<1>2. token' # failed'
  BY <1>1, TurnsAssumption DEF FollowupInv, FollowupTypeOK, Counted
<1>3. rows' = InitialRows /\ refunds' = {}
  <2>1. CASE FirstClaim(c)
    <3>1. token = 0 /\ UNCHANGED <<rows, ledgerVars>>
      BY <2>1 DEF FirstClaim
    <3>2. rows = InitialRows
      BY <3>1 DEF FollowupInv, Clean
    <3> QED BY <3>1, <3>2, InitialRowsAreQuiet
            DEF FollowupInv, Called, Disturbed, ledgerVars
  <2>2. CASE Reclaim(c)
    BY <2>2 DEF Reclaim, RestoreSnapshot
  <2> QED BY <2>1, <2>2
<1>4. Phase \in {"waiting", "working"} /\ Phase' = "working" /\ PaidRecords' = {}
  BY <1>1, <1>2, <1>3, NothingPaid DEF Phase
<1> QED BY <1>4 DEF Promise!Next, Promise!Take, Promise!TakeOver

\* Only a turn that can be proved answers, and it has paid once.
LEMMA AnswerMaps ==
  ASSUME FollowupInv, completion = 0, completion' = token, token # 0, failed # token,
         UNCHANGED <<vars, rows, token, failed>>, Proved(token)
  PROVE  Promise!Next
<1>1. Phase = "working" /\ Phase' = "answered" /\ PaidRecords' = PaidRecords
  BY DEF Phase, PaidRecords, Refunded, vars, dbVars
<1>2. PaidRecords = {[kind |-> "turn", id |-> token]}
  <2> DEFINE r == RefundRow("exact", token)
  <2>1. Refunded = {r} /\ refunds = {}
    BY OneRefund
  <2>2. r.turn = token
    BY DEF RefundRow
  <2> HIDE DEF r
  <2> QED BY <2>1, <2>2 DEF PaidRecords
<1>3. \E p \in [kind : {"turn"}, id : Turns] : PaidRecords = {p}
  <2>1. token \in Turns
    BY TurnsAssumption DEF FollowupInv, FollowupTypeOK, Turns
  <2> QED BY <1>2, <2>1
<1> QED BY <1>1, <1>3 DEF Promise!Next, Promise!Answer

\* Rows that are no refund.
LEMMA NoRefundAdded ==
  ASSUME rows \subseteq rows', \A r \in rows' \ rows : r.kind # "refund"
  PROVE  Refunded' = Refunded
BY DEF Refunded

LEMMA GraphMaps ==
  ASSUME FollowupInv, NEW c \in Customers, FollowupGraph(c)
  PROVE  Promise!Next \/ UNCHANGED <<Phase, PaidRecords>>
<1>1. CASE \E m \in {"exact", "other"} : TurnRefund(c, m)
  <2>1. PICK m \in {"exact", "other"} : TurnRefund(c, m)
    BY <1>1
  <2>2. /\ completion = 0 /\ CurrentToken(turn[c].token) /\ turn[c].pc # "idle"
        /\ UNCHANGED <<token, failed, completion, ledgerVars>>
        /\ rows' = rows \cup {RefundRow(m, turn[c].token),
                              Handoff("refund_agent", "response_agent", turn[c].token)}
    BY <2>1 DEF TurnRefund, AtNode, ActiveTurn, StageWrites
  <2>3. turn[c].token = token /\ token \in Turns /\ failed # token
    BY <2>2, FencedFacts
  <2> DEFINE p == [kind |-> "turn", id |-> token]
             r == RefundRow(m, token)
  <2>4. Refunded' = Refunded \cup {r} /\ r.turn = token
    BY <2>2, <2>3 DEF Refunded, RefundRow, Handoff
  <2>5. PaidRecords' = PaidRecords \cup {p}
    <3> HIDE DEF r
    <3> QED BY <2>2, <2>4 DEF PaidRecords, ledgerVars
  <2>6. Phase = "working" /\ Phase' = Phase
    BY <2>2, <2>3 DEF Phase
  <2>7. p \in [kind : {"turn"}, id : Turns]
    BY <2>3
  <2> HIDE DEF p
  <2> QED BY <2>5, <2>6, <2>7 DEF Promise!Next, Promise!Pay
<1>2. CASE ~\E m \in {"exact", "other"} : TurnRefund(c, m)
  <2>1. UNCHANGED <<token, failed, completion, refunds>>
    BY <1>2 DEF FollowupGraph, TurnTriageGovernance, TurnPersistTriage, TurnPolicy,
                TurnHumanApproval, TurnResponseGovernance, TurnPersistResponse, TurnHeartbeat,
                StageWrites, ledgerVars
  <2>2. Refunded' = Refunded
    <3>1. ASSUME NEW b \in BOOLEAN, TurnTriageGovernance(c, b) PROVE Refunded' = Refunded
      BY <3>1, NoRefundAdded DEF TurnTriageGovernance, GovernanceRow
    <3>2. ASSUME NEW n \in {"policy_agent", "response_agent", "human_approval"},
                 TurnPersistTriage(c, n)
          PROVE  Refunded' = Refunded
      BY <3>2, NoRefundAdded DEF TurnPersistTriage, Handoff
    <3>3. ASSUME NEW d \in PolicyDecisions, NEW b \in BOOLEAN, TurnPolicy(c, d, b)
          PROVE  Refunded' = Refunded
      <4> DEFINE h == Handoff("policy_agent", PolicyNextAgent(d, b), turn[c].token)
                 g == GovernanceRow("policy_agent", "block", turn[c].token)
      <4>1. rows' = rows \cup {h} \cup (IF b THEN {g} ELSE {})
        BY <3>3 DEF TurnPolicy
      <4>2. h.kind # "refund" /\ g.kind # "refund"
        BY DEF Handoff, GovernanceRow
      <4> HIDE DEF h, g
      <4> QED BY <4>1, <4>2 DEF Refunded
    <3>4. ASSUME NEW b \in BOOLEAN, TurnResponseGovernance(c, b) PROVE Refunded' = Refunded
      BY <3>4, NoRefundAdded DEF TurnResponseGovernance, GovernanceRow
    <3>5. CASE TurnPersistResponse(c)
      BY <3>5, NoRefundAdded DEF TurnPersistResponse, Handoff
    <3>6. CASE TurnHumanApproval(c) \/ TurnHeartbeat(c)
      BY <3>6 DEF TurnHumanApproval, TurnHeartbeat, Refunded
    <3> QED BY <1>2, <3>1, <3>2, <3>3, <3>4, <3>5, <3>6 DEF FollowupGraph
  <2> QED BY <2>1, <2>2, HiddenStep
<1> QED BY <1>1, <1>2

LEMMA EndsMap ==
  ASSUME FollowupInv, FollowupInv', NEW c \in Customers, FollowupEnds(c)
  PROVE  Promise!Next \/ UNCHANGED <<Phase, PaidRecords>>
<1>1. CASE UNCHANGED <<vars, rows, token, failed, completion>>
  BY <1>1, HiddenStep DEF Refunded, vars, dbVars
<1>2. CASE CompleteTurn(c) /\ ~UNCHANGED completion
  <2>1. /\ completion = 0 /\ completion' = turn[c].token /\ Proved(turn[c].token)
        /\ CurrentToken(turn[c].token) /\ UNCHANGED <<vars, rows, token, failed>>
    BY <1>2 DEF CompleteTurn
  <2>2. turn[c].token = token /\ token # 0 /\ failed # token
    BY <2>1 DEF CurrentToken
  <2> QED BY <2>1, <2>2, AnswerMaps
<1>3. CASE FailTurn(c)
  <2>1. /\ completion = 0 /\ CurrentToken(turn[c].token) /\ failed' = turn[c].token
        /\ UNCHANGED <<token, completion>> /\ rows' = InitialRows /\ refunds' = {}
    BY <1>3 DEF FailTurn, RestoreSnapshot
  <2>2. turn[c].token = token /\ failed # token
    BY <2>1 DEF CurrentToken
  <2>3. Phase = "working" /\ Phase' = "waiting" /\ PaidRecords' = {}
    BY <2>1, <2>2, NothingPaid DEF Phase
  <2> QED BY <2>3 DEF Promise!Next, Promise!GiveUp
<1> QED BY <1>1, <1>2, <1>3 DEF FollowupEnds, CompleteTurn, TurnRaises, TurnEnds

\* A continuation pays under its claim, and a claim exists only while a turn is worked on.
LEMMA ServiceMaps ==
  ASSUME FollowupInv, ReviewService
  PROVE  Promise!Next \/ UNCHANGED <<Phase, PaidRecords>>
<1>1. [Next]_vars /\ UNCHANGED <<rows, token, failed, completion>>
  BY DEF ReviewService, Next
<1>2. \/ UNCHANGED refunds
      \/ claim # NoClaim /\ claim.appr \in Approvals /\ refunds' = refunds \cup {claim.appr}
  BY <1>1, ServiceStep DEF FollowupInv
<1>3. CASE UNCHANGED refunds
  BY <1>1, <1>3, HiddenStep DEF Refunded
<1>4. CASE claim # NoClaim /\ claim.appr \in Approvals /\ refunds' = refunds \cup {claim.appr}
  <2> DEFINE p == [kind |-> "review", id |-> claim.appr]
  <2>1. CalledForReview
    BY <1>4 DEF FollowupInv, Called, Disturbed
  <2>2. completion = 0
    BY <1>4, AnswerFacts DEF Disturbed
  <2>3. token # failed
    <3>1. token = 0 => rows = InitialRows
      BY DEF FollowupInv, Clean
    <3> QED BY <2>1, <3>1, InitialRowsAreQuiet DEF FollowupInv, Restored
  <2>4. Phase = "working" /\ Phase' = Phase
    BY <1>1, <2>2, <2>3 DEF Phase
  <2>5. PaidRecords' = PaidRecords \cup {p}
    BY <1>1, <1>4 DEF PaidRecords, Refunded
  <2>6. p \in [kind : {"review"}, id : 0..MaxApprovals]
    BY <1>4, BoundsAssumption DEF Approvals
  <2> HIDE DEF p
  <2> QED BY <2>4, <2>5, <2>6 DEF Promise!Next, Promise!Pay
<1> QED BY <1>2, <1>3, <1>4

LEMMA FollowupMaps ==
  FollowupInv /\ FollowupInv' /\ [FollowupNext]_followupVars
    => [Promise!Next]_<<Phase, PaidRecords>>
<1> SUFFICES ASSUME FollowupInv, FollowupInv', [FollowupNext]_followupVars
             PROVE  Promise!Next \/ UNCHANGED <<Phase, PaidRecords>>
  OBVIOUS
<1>1. ASSUME NEW c \in Customers, FollowupRequest(c) PROVE Promise!Next
  <2>1. CASE RecoverCompletion(c)
    <3>1. /\ completion = 0 /\ completion' = token /\ token # 0 /\ Proved(token)
          /\ wf = Completed /\ UNCHANGED <<vars, rows, token, failed>>
      BY <2>1 DEF RecoverCompletion
    <3>2. failed # token
      BY <3>1 DEF FollowupInv, Restored, Waiting, Completed, TerminalWorkflowState
    <3> QED BY <3>1, <3>2, AnswerMaps
  <2> QED BY <1>1, <2>1, ClaimMaps DEF FollowupRequest
<1>2. CASE UNCHANGED followupVars
  BY <1>2, HiddenStep DEF followupVars, vars, dbVars, Refunded
<1> QED BY <1>1, <1>2, GraphMaps, EndsMap, ServiceMaps DEF FollowupNext

LEMMA FollowupInitMaps == FollowupInit => Promise!Init
BY NothingPaid DEF FollowupInit, Promise!Init, Phase

\* Claims, leases, restored snapshots and reviews are invisible to the customer: every
\* behaviour of the follow-up is one of the contract's.
THEOREM PromiseHolds == FollowupSpec => ImplementsFollowup
<1>1. FollowupInv /\ FollowupInv' /\ [FollowupNext]_followupVars
        => [Promise!Next]_<<Phase, PaidRecords>>
  BY FollowupMaps
<1> QED BY <1>1, FollowupInitMaps, FollowupInvHolds, PTL
        DEF FollowupSpec, ImplementsFollowup, Promise!Spec
====================================================================================
