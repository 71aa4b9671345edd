-------------------------------- MODULE CustomerFollowup --------------------------------
(***********************************************************************************)
(* The second turn of a case that waits for its customer.  The request that brings    *)
(* the missing facts snapshots the first turn, claims the case and runs the parent     *)
(* graph again under that claim; what it wrote is proved complete before an answer is   *)
(* recorded, and thrown away for the snapshot when it failed or its holder went silent. *)
(* Any number of identical requests run at once.  A review the second turn opens is      *)
(* decided by the approval service, which works on the same trace under its own claims.  *)
(***********************************************************************************)
EXTENDS HumanApproval

CONSTANTS
  Customers,      \* follow-up requests in flight at once
  MaxTurns        \* bound: follow-up claims ever appended for the trace

ASSUME TurnsAssumption == MaxTurns \in Nat \ {0}

VARIABLES
  rows,           \* handoffs, governance events and refunds without an approval marker
  token,          \* the newest customer_followup_claimed audit row, 0 before the receipt
  failed,         \* the token the newest customer_followup_failed row names
  completion,     \* the token the customer_followup_completed row names, 0 without one
  turn            \* what each in-flight request holds in memory

ledgerVars == <<nAppr, appr, claim, revoked, done, policyRows, responseRows, blocks, refunds>>
followupVars == <<vars, rows, token, failed, completion, turn>>

Turns == 1..MaxTurns

\* Every stage leaves its handoff and its audit row in one transaction, so one record
\* stands for both.  turn is the follow-up marker, 0 on the rows of the first turn.
Handoff(agent, to, t) == [kind |-> "handoff", agent |-> agent, says |-> to, turn |-> t]
GovernanceRow(agent, v, t) == [kind |-> "governance", agent |-> agent, says |-> v, turn |-> t]
RefundRow(amount, t) == [kind |-> "refund", agent |-> "refund_agent", says |-> amount, turn |-> t]

StageAgents == {"triage_agent", "policy_agent", "response_agent"}
StageAgent(stage) ==
  [triage |-> "triage_agent", policy |-> "policy_agent", response |-> "response_agent"][stage]

Rows ==
  {Handoff(a, to, t) : a \in StageAgents \cup {"refund_agent"}, t \in 0..MaxTurns,
     to \in PolicyRoutes \cup {"policy_agent", "end"}}
  \cup {GovernanceRow(a, v, t) : a \in StageAgents, v \in {"allow", "block"}, t \in 0..MaxTurns}
  \cup {RefundRow(m, t) : m \in {"exact", "other"}, t \in Turns}

\* A first turn that ended by asking the customer for something: the snapshot.
InitialRows ==
  {Handoff("triage_agent", "policy_agent", 0), Handoff("policy_agent", "response_agent", 0),
   Handoff("response_agent", "end", 0),
   GovernanceRow("triage_agent", "allow", 0), GovernanceRow("response_agent", "allow", 0)}

GraphPcs == {"triage_governance", "triage", "policy", "refund", "human_approval",
             "response_governance", "response"}

\* decision, stage, blocked, paused: the graph's state, as in an initial run; exact: the
\* refund it persisted is the one the fixture expects.
TurnRequests ==
  [pc : GraphPcs \cup {"idle", "complete", "failing"}, token : 0..MaxTurns,
   decision : PolicyDecisions \cup {"none"}, stage : Stages, blocked : BOOLEAN,
   paused : BOOLEAN, exact : BOOLEAN]
NoTurn ==
  [pc |-> "idle", token |-> 0, decision |-> "none", stage |-> "triage", blocked |-> FALSE,
   paused |-> FALSE, exact |-> FALSE]

FollowupTypeOK ==
  /\ TypeOK
  /\ rows \subseteq Rows
  /\ token \in 0..MaxTurns
  /\ failed \in 0..MaxTurns
  /\ completion \in 0..MaxTurns
  /\ turn \in [Customers -> TurnRequests]

------------------------------------------------------------------------------------
(* Reading the database.                                                            *)

Waiting == TerminalWorkflowState("waiting_user")
Completed == TerminalWorkflowState("completed")

\* Seeded fault: a token is good for as long as nobody revoked it.
CurrentToken_NotFailed(t) == t # 0 /\ failed # t

CurrentToken(t) == t # 0 /\ t = token /\ failed # t

\* The fence in front of every write of the graph.
ActiveTurn(t) == CurrentToken(t) /\ wf.status = "running" /\ completion = 0

Refunded == {r \in rows : r.kind = "refund"}

RequiredRoutes ==
  [triage_agent |-> "policy_agent", policy_agent |-> "refund_agent",
   refund_agent |-> "response_agent", response_agent |-> "end"]

\* Seeded fault: whatever was paid is taken for what was asked.
Proved_AnyAmount(t) ==
  /\ InitialRows \subseteq rows
  /\ \A a \in DOMAIN RequiredRoutes :
       {r \in rows : r.kind = "handoff" /\ r.agent = a /\ r.turn = t}
         = {Handoff(a, RequiredRoutes[a], t)}
  /\ \A a \in {"triage_agent", "response_agent"} :
       {r \in rows : r.kind = "governance" /\ r.agent = a /\ r.turn = t}
         = {GovernanceRow(a, "allow", t)}
  /\ refunds = {} /\ Cardinality(Refunded) = 1

\* What must be durable before the second turn counts as answered: the first turn
\* untouched, one handoff of each stage on the paying route, no blocking verdict, and
\* one refund in the trace, of the expected amount.
Proved(t) ==
  /\ InitialRows \subseteq rows
  /\ \A a \in DOMAIN RequiredRoutes :
       {r \in rows : r.kind = "handoff" /\ r.agent = a /\ r.turn = t}
         = {Handoff(a, RequiredRoutes[a], t)}
  /\ \A a \in {"triage_agent", "response_agent"} :
       {r \in rows : r.kind = "governance" /\ r.agent = a /\ r.turn = t}
         = {GovernanceRow(a, "allow", t)}
  /\ refunds = {}
  /\ Cardinality(Refunded) = 1 /\ \A r \in Refunded : r.says = "exact"

------------------------------------------------------------------------------------
(* claim and _restore_snapshot.  Requests claim answers without writing (already       *)
(* completed, in progress, not waiting) are stuttering steps.                          *)

\* Seeded fault: only the rows of the graph are put back, not those of a review.
RestoreSnapshot_KeepReviews == rows' = InitialRows /\ UNCHANGED ledgerVars

\* Every child row of the trace but the follow-up's own lifecycle is deleted and the
\* snapshot inserted again: it holds the first turn's rows, no review and no refund.
RestoreSnapshot ==
  /\ rows' = InitialRows
  /\ appr' = [a \in Approvals |-> IF appr[a].status = "absent" THEN appr[a]
                                  ELSE [appr[a] EXCEPT !.status = "deleted"]]
  /\ claim' = NoClaim
  /\ done' = [a \in Approvals |-> NoRecord]
  /\ revoked' = {} /\ policyRows' = {} /\ responseRows' = {} /\ blocks' = {} /\ refunds' = {}
  /\ UNCHANGED nAppr

AppendTurn(c) ==
  /\ token < MaxTurns
  /\ token' = token + 1
  /\ wf' = [status |-> "running", agent |-> "triage_agent"]
  /\ fresh' = TRUE
  /\ turn' = [turn EXCEPT ![c] = [NoTurn EXCEPT !.pc = "triage_governance", !.token = token']]
  /\ UNCHANGED <<failed, completion, req>>

FirstClaim(c) ==
  /\ turn[c].pc = "idle"
  /\ token = 0
  /\ wf = Waiting
  /\ AppendTurn(c)
  /\ UNCHANGED <<rows, ledgerVars>>

\* Seeded fault: a completed case that cannot be proved is taken over from its live holder.
Reclaimable_Unproved ==
  IF wf = Completed THEN ~Proved(token) ELSE failed = token \/ ~fresh

\* A failed attempt may be repeated at once, a silent one when its lease has run out, and
\* so may one that completed the case without leaving the proof of it.
Reclaimable ==
  IF wf = Completed THEN ~fresh /\ ~Proved(token) ELSE failed = token \/ ~fresh

Reclaim(c) ==
  /\ turn[c].pc = "idle"
  /\ token # 0 /\ completion = 0
  /\ Reclaimable
  /\ RestoreSnapshot
  /\ AppendTurn(c)

\* Seeded fault: the workflow status is proof enough.
RecoverCompletion_Unproved(c) ==
  /\ turn[c].pc = "idle"
  /\ token # 0 /\ completion = 0
  /\ wf = Completed
  /\ completion' = token
  /\ UNCHANGED <<vars, rows, token, failed, turn>>

\* The graph committed every stage and its process died: the rows answer the request.
RecoverCompletion(c) ==
  /\ turn[c].pc = "idle"
  /\ token # 0 /\ completion = 0
  /\ wf = Completed
  /\ Proved(token)
  /\ completion' = token
  /\ UNCHANGED <<vars, rows, token, failed, turn>>

------------------------------------------------------------------------------------
(* The parent graph under the claim.                                                *)

AtNode(c, pc) == turn[c].pc = pc /\ ActiveTurn(turn[c].token)

\* What every fenced write leaves alone.
StageWrites == fresh' = TRUE /\ UNCHANGED <<token, failed, completion, req>>

Step(c, pc) == turn' = [turn EXCEPT ![c].pc = pc]

TurnTriageGovernance(c, blocked) ==
  /\ AtNode(c, "triage_governance")
  /\ rows' = rows \cup
       {GovernanceRow("triage_agent", IF blocked THEN "block" ELSE "allow", turn[c].token)}
  /\ turn' = [turn EXCEPT ![c].pc = "triage", ![c].blocked = blocked]
  /\ StageWrites
  /\ UNCHANGED <<wf, ledgerVars>>

TurnPersistTriage(c, next) ==
  /\ AtNode(c, "triage")
  /\ next \in IF turn[c].blocked THEN {"human_approval"} ELSE {"policy_agent", "response_agent"}
  /\ rows' = rows \cup {Handoff("triage_agent", next, turn[c].token)}
  /\ wf' = PolicyWorkflowState(next)
  /\ Step(c, [policy_agent |-> "policy", response_agent |-> "response_governance",
              human_approval |-> "human_approval"][next])
  /\ StageWrites
  /\ UNCHANGED ledgerVars

TurnPolicy(c, decision, blocked) ==
  LET route == PolicyNextAgent(decision, blocked)
      t     == turn[c].token
  IN /\ AtNode(c, "policy")
     /\ PolicyHistoryMutable
     /\ rows' = rows \cup {Handoff("policy_agent", route, t)}
                     \cup (IF blocked THEN {GovernanceRow("policy_agent", "block", t)} ELSE {})
     /\ PersistPolicyApproval(decision, route, NoClaim)
     /\ wf' = PolicyWorkflowState(route)
     /\ turn' = [turn EXCEPT ![c].decision = decision, ![c].blocked = blocked,
                   ![c].stage = "policy",
                   ![c].pc = [refund_agent |-> "refund", response_agent |-> "response_governance",
                              human_approval |-> "human_approval"][route]]
     /\ StageWrites
     /\ UNCHANGED <<claim, revoked, done, policyRows, responseRows, blocks, refunds>>

\* The refund executor and the transaction row, keyed by the token.
TurnRefund(c, amount) ==
  /\ AtNode(c, "refund")
  /\ rows' = rows \cup {RefundRow(amount, turn[c].token),
                        Handoff("refund_agent", "response_agent", turn[c].token)}
  /\ wf' = [status |-> "running", agent |-> "response_agent"]
  /\ turn' = [turn EXCEPT ![c].pc = "response_governance", ![c].exact = (amount = "exact")]
  /\ StageWrites
  /\ UNCHANGED ledgerVars

\* ensure_human_approval under the fence needs a running workflow, which the stage that
\* led here has just left: it goes through only when a reviewer decided the Policy review
\* meanwhile.  It then opens a second one for the block that carries the token.
TurnHumanApproval(c) ==
  /\ AtNode(c, "human_approval")
  /\ Cardinality(Pending) <= 1
  /\ turn' = [turn EXCEPT ![c].paused = TRUE,
                ![c].pc = IF turn[c].stage = "response" THEN "complete" ELSE "response_governance"]
  /\ \/ /\ Pending # {}
        /\ UNCHANGED <<wf, nAppr, appr>>
     \/ /\ Pending = {}
        /\ GovernanceRow(StageAgent(turn[c].stage), "block", turn[c].token) \in rows
        /\ InsertReview(PendingRow(turn[c].stage, FALSE, turn[c].decision, NoClaim))
        /\ wf' = TerminalWorkflowState("pending_human")
  /\ StageWrites
  /\ UNCHANGED <<rows, claim, revoked, done, policyRows, responseRows, blocks, refunds>>

TurnResponseGovernance(c, blocked) ==
  /\ AtNode(c, "response_governance")
  /\ rows' = rows \cup
       {GovernanceRow("response_agent", IF blocked THEN "block" ELSE "allow", turn[c].token)}
  /\ turn' = [turn EXCEPT ![c].pc = "response", ![c].blocked = blocked,
                          ![c].stage = IF blocked THEN "response" ELSE @]
  /\ StageWrites
  /\ UNCHANGED <<wf, ledgerVars>>

TurnPersistResponse(c) ==
  /\ AtNode(c, "response")
  /\ rows' = rows \cup
       {Handoff("response_agent", IF turn[c].blocked THEN "human_approval" ELSE "end",
                turn[c].token)}
  /\ wf' = TerminalWorkflowState(InitialResponseStatus(turn[c]))
  /\ Step(c, IF turn[c].blocked THEN "human_approval" ELSE "complete")
  /\ StageWrites
  /\ UNCHANGED ledgerVars

\* The heartbeat thread, until the graph is terminal.
TurnHeartbeat(c) ==
  /\ turn[c].pc \in GraphPcs \cup {"complete"}
  /\ CurrentToken(turn[c].token)
  /\ wf.status = "running"
  /\ StageWrites
  /\ UNCHANGED <<wf, ledgerVars, rows, turn>>

------------------------------------------------------------------------------------
(* The end of a request.                                                            *)

\* What the graph returned is what the fixture of the case expects.
MatchesExpectations(r) == r.exact /\ ~r.blocked /\ ~r.paused

\* complete: an answer a recovery has recorded meanwhile is returned as it stands.
CompleteTurn(c) ==
  /\ turn[c].pc = "complete"
  /\ MatchesExpectations(turn[c])
  /\ CurrentToken(turn[c].token)
  /\ \/ completion # 0 /\ UNCHANGED completion
     \/ /\ completion = 0
        /\ wf = Completed
        /\ Proved(turn[c].token)
        /\ completion' = turn[c].token
  /\ turn' = [turn EXCEPT ![c] = NoTurn]
  /\ UNCHANGED <<vars, rows, token, failed>>

\* Azure, the database, a refused write, a late heartbeat, a result or a proof that is
\* not the expected one: everything but a conflict is handed to fail.
TurnRaises(c) ==
  /\ turn[c].pc \in GraphPcs \cup {"complete"}
  /\ Step(c, "failing")
  /\ UNCHANGED <<vars, rows, token, failed, completion>>

\* Seeded fault: nobody asks whether the request was answered meanwhile.
FailTurn_AfterAnswer(c) ==
  /\ turn[c].pc = "failing"
  /\ CurrentToken(turn[c].token)
  /\ RestoreSnapshot
  /\ wf' = Waiting
  /\ fresh' = TRUE
  /\ failed' = turn[c].token
  /\ turn' = [turn EXCEPT ![c] = NoTurn]
  /\ UNCHANGED <<token, completion, req>>

\* fail: restore the first turn and revoke this token, so that a retry need not wait.
FailTurn(c) ==
  /\ turn[c].pc = "failing"
  /\ CurrentToken(turn[c].token)
  /\ completion = 0
  /\ RestoreSnapshot
  /\ wf' = Waiting
  /\ fresh' = TRUE
  /\ failed' = turn[c].token
  /\ turn' = [turn EXCEPT ![c] = NoTurn]
  /\ UNCHANGED <<token, completion, req>>

\* The process dies, or ends in a conflict or in a failure it could not record.
TurnEnds(c) ==
  /\ turn[c].pc # "idle"
  /\ turn' = [turn EXCEPT ![c] = NoTurn]
  /\ UNCHANGED <<vars, rows, token, failed, completion>>

FollowupRequest(c) == FirstClaim(c) \/ Reclaim(c) \/ RecoverCompletion(c)

FollowupGraph(c) ==
  \/ \E b \in BOOLEAN : TurnTriageGovernance(c, b)
  \/ \E n \in {"policy_agent", "response_agent", "human_approval"} : TurnPersistTriage(c, n)
  \/ \E d \in PolicyDecisions, b \in BOOLEAN : TurnPolicy(c, d, b)
  \/ \E m \in {"exact", "other"} : TurnRefund(c, m)
  \/ TurnHumanApproval(c)
  \/ \E b \in BOOLEAN : TurnResponseGovernance(c, b)
  \/ TurnPersistResponse(c)
  \/ TurnHeartbeat(c)

FollowupEnds(c) == CompleteTurn(c) \/ TurnRaises(c) \/ FailTurn(c) \/ TurnEnds(c)

\* The approval service, unchanged, beside the follow-up.
ReviewService ==
  /\ LeaseExpires \/ \E w \in Workers : Resolve(w) \/ RunStage(w) \/ Fail(w)
  /\ UNCHANGED <<rows, token, failed, completion, turn>>

FollowupInit ==
  /\ wf = Waiting
  /\ fresh = TRUE
  /\ nAppr = 0
  /\ appr = [a \in Approvals |-> AbsentRow]
  /\ claim = NoClaim
  /\ revoked = {} /\ refunds = {}
  /\ done = [a \in Approvals |-> NoRecord]
  /\ policyRows = {} /\ responseRows = {} /\ blocks = {}
  /\ req = [w \in Workers |-> Idle]
  /\ rows = InitialRows
  /\ token = 0 /\ failed = 0 /\ completion = 0
  /\ turn = [c \in Customers |-> NoTurn]

FollowupNext ==
  \/ \E c \in Customers : FollowupRequest(c) \/ FollowupGraph(c) \/ FollowupEnds(c)
  \/ ReviewService

FollowupSpec == FollowupInit /\ [][FollowupNext]_followupVars
------------------------------------------------------------------------------------
(* Properties.                                                                      *)

\* An answer that was recorded stays true, whatever late holders, repeated requests and
\* reviewers do: the case is completed, the first turn is intact, exactly the refund the
\* customer asked for was paid, under the token of the answer, nothing in that turn was
\* blocked and no review is open or being worked on.
AnswerStands ==
  completion # 0 =>
    /\ wf = Completed
    /\ InitialRows \subseteq rows
    /\ Refunded = {RefundRow("exact", completion)} /\ refunds = {}
    /\ \A r \in rows : r.turn = completion => r.says # "block"
    /\ Pending = {} /\ claim = NoClaim

\* One request is answered once: no step changes or withdraws the answer, or touches the
\* trace after it.
AnswerIsFinal ==
  [][completion # 0 => UNCHANGED <<wf, rows, token, failed, completion, ledgerVars>>]_followupVars

\* No attempt inherits anything and none costs the first turn a row: every row is one of
\* the snapshot's or carries the newest token, and after a recorded failure the trace is
\* the snapshot again, reviews and refunds of the approval service included.
RetryStartsClean ==
  /\ {r \in rows : r.turn # token} \subseteq InitialRows
  /\ {r \in rows : r.turn = 0} = InitialRows
  /\ (token # 0 /\ failed = token) =>
       rows = InitialRows /\ wf = Waiting /\ refunds = {} /\ Pending = {} /\ claim = NoClaim

\* Of all the follow-up requests in flight at most one can still write.
OneTurnOwner ==
  \A b, c \in Customers :
    (/\ turn[b].pc # "idle" /\ CurrentToken(turn[b].token)
     /\ turn[c].pc # "idle" /\ CurrentToken(turn[c].token)) => b = c

\* A request whose lease is fresh keeps its claim until it ends or records a failure,
\* also while the case already says completed and its answer is not recorded yet.
LeaseRespected ==
  [][\A c \in Customers :
       turn[c].pc # "idle" /\ CurrentToken(turn[c].token) /\ fresh => token' = token]_followupVars

Phase ==
  IF completion # 0 THEN "answered" ELSE IF token = failed THEN "waiting" ELSE "working"

\* What money is on record, of the turns and of the reviews they were sent to.
PaidRecords ==
  {[kind |-> "turn", id |-> r.turn] : r \in Refunded}
    \cup {[kind |-> "review", id |-> a] : a \in refunds}

Promise ==
  INSTANCE FollowupContract WITH
    Payments <- [kind : {"turn"}, id : Turns] \cup [kind : {"review"}, id : 0..MaxApprovals],
    phase <- Phase, paid <- PaidRecords

\* The follow-up keeps what FollowupContract promises a customer: money moves only while
\* somebody works on the request, an attempt given up takes its payments back, and the
\* one answer has exactly one payment behind it.
ImplementsFollowup == Promise!Spec

\* The status refund_app/api.py derives for a case from its row and its audit events.
FollowupStatus ==
  CASE completion # 0 -> "completed"
    [] completion = 0 /\ token = 0 -> "not_started"
    [] completion = 0 /\ token # 0 ->
         CASE wf.status \in {"waiting_user", "failed"} -> "retryable"
           [] wf = Completed -> "recoverable"
           [] wf.status = "running" -> IF fresh THEN "in_progress" ELSE "retryable"
           [] OTHER -> "not_applicable"

\* "A receipt already exists, so waiting_user here is a restored handled failure rather than
\* the first turn" (the status refund_app/api.py shows): a case that is retryable while it
\* waits again was put back by fail, and may be repeated at once.
RetryableIsRestored ==
  (FollowupStatus = "retryable" /\ wf.status = "waiting_user") => failed = token

\* "more than one approval in its append-only history" (persist_refund_result): a review a
\* person has decided stays on record.
DecisionsKept ==
  [][\A a \in Resolved : appr'[a].status = appr[a].status]_followupVars
====================================================================================
