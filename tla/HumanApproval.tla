------------------------------- MODULE HumanApproval -------------------------------
(***********************************************************************************)
(* The human-approval continuation of one refund case (one trace): reviewers decide  *)
(* a persisted review, the request that decided it claims the continuation and runs  *)
(* Policy, Refund and Response for it, and records a terminal marker.  Any number of *)
(* requests for the same trace run at once, in several processes; a request may die, *)
(* stall past its lease, or fail and be retried.                                      *)
(*                                                                                    *)
(* Every transaction of the code first locks the trace's workflow_runs row, so one    *)
(* action is one transaction; what a request remembers between transactions is req.   *)
(* Traces share nothing, so one is enough.                                            *)
(***********************************************************************************)
EXTENDS Naturals, FiniteSets, Routing

CONSTANTS
  Workers,        \* requests to the approval service in flight at once
  MaxApprovals,   \* bound: human_approvals rows ever inserted for the trace
  MaxClaims       \* bound: continuation claims ever appended for the trace

ASSUME BoundsAssumption ==
  /\ MaxApprovals \in Nat \ {0}
  /\ MaxClaims \in Nat \ {0}

VARIABLES
  wf,             \* the workflow_runs row: status and current_agent
  fresh,          \* the newest of claim.created_at and workflow.updated_at is in the lease
  nAppr,          \* human_approvals rows inserted so far
  appr,           \* the human_approvals rows, numbered in order of insertion
  claim,          \* the newest human_approval_continuation_claimed audit row
  revoked,        \* tokens named by human_approval_continuation_failed audit rows
  done,           \* the human_approval_continued audit row of each approval
  policyRows,     \* Policy handoffs carrying a continuation marker
  responseRows,   \* Response handoffs carrying a continuation marker
  blocks,         \* blocking governance events and the marker they carry
  refunds,        \* refund transactions, by approval (0: the one without a claim)
  req             \* what each in-flight request holds in memory

dbVars == <<wf, fresh, nAppr, appr, claim, revoked, done, policyRows, responseRows,
            blocks, refunds>>
vars == <<dbVars, req>>

Approvals == 1..MaxApprovals

\* A claim, and the continuation marker its holder stamps on every row it writes.  The
\* claim token is a digest of approval and attempt; seq is the audit log_id.
Claims == [appr : 0..MaxApprovals, attempt : 0..MaxClaims, seq : 0..MaxClaims]
NoClaim == [appr |-> 0, attempt |-> 0, seq |-> 0]
Token(c) == <<c.appr, c.attempt>>

\* policy is the Policy decision a Policy review is about; trigger the marker on the
\* event that caused the review, NoClaim when an unclaimed run caused it.
ApprovalRows ==
  [status : {"absent", "pending", "approved", "rejected", "deleted"},
   decision : ReviewDecisions \cup {"none"}, stage : Stages, polApp : BOOLEAN,
   approved_next : ReviewNextAgents, policy : PolicyDecisions \cup {"none"},
   trigger : Claims]
AbsentRow ==
  [status |-> "absent", decision |-> "none", stage |-> "triage", polApp |-> FALSE,
   approved_next |-> "policy_agent", policy |-> "none", trigger |-> NoClaim]

PendingRow(stage, polApp, policy, trigger) ==
  [status |-> "pending", decision |-> "none", stage |-> stage, polApp |-> polApp,
   approved_next |-> ApprovedNextAgent(stage, policy),
   policy |-> IF stage = "policy" THEN policy ELSE "none", trigger |-> trigger]

Records ==
  [status : TerminalStatuses \cup {"none"}, child : 0..MaxApprovals, claim : Claims]
NoRecord == [status |-> "none", child |-> 0, claim |-> NoClaim]

StagePcs == {"policy", "policy_review", "refund", "response", "persist_response",
             "response_review", "recover_review"}
EnterPcs == {"enter_policy", "enter_policy_review", "enter_refund", "enter_response",
             "enter_recover_review"}
RunPcs == (EnterPcs \cup StagePcs \cup {"mark"}) \ {"enter_recover_review", "recover_review"}
Pcs == EnterPcs \cup StagePcs \cup {"idle", "mark", "recover_mark", "failing"}

\* status: the terminal status the request would record; child: new_approval_id;
\* refunded: a refund of this approval was persisted when the request resolved it;
\* marker: the checkpoint a recovery binds a missing review to.
Requests ==
  [pc : Pcs, claim : Claims, status : TerminalStatuses, refunded : BOOLEAN,
   marker : Claims, child : 0..MaxApprovals]
Idle == [pc |-> "idle", claim |-> NoClaim, status |-> "completed", refunded |-> FALSE,
         marker |-> NoClaim, child |-> 0]

TypeOK ==
  /\ wf \in [status : WorkflowStatuses, agent : WorkflowAgents]
  /\ fresh \in BOOLEAN
  /\ nAppr \in 0..MaxApprovals
  /\ appr \in [Approvals -> ApprovalRows]
  /\ claim \in Claims
  /\ revoked \subseteq (Approvals \X (1..MaxClaims))
  /\ done \in [Approvals -> Records]
  /\ policyRows \subseteq [claim : Claims, decision : PolicyDecisions, route : PolicyRoutes]
  /\ responseRows \subseteq [claim : Claims, blocked : BOOLEAN]
  /\ blocks \subseteq [stage : Stages, claim : Claims]
  /\ refunds \subseteq 0..MaxApprovals
  /\ req \in [Workers -> Requests]

------------------------------------------------------------------------------------
(* Reading the database.                                                            *)

Pending == {a \in Approvals : appr[a].status = "pending"}
Resolved == {a \in Approvals : appr[a].status \in {"approved", "rejected"}}
Finished == {a \in Approvals : done[a] # NoRecord}

PendingPolicyApprovals == {a \in Pending : appr[a].polApp}

\* Without an approval claim Policy may not be persisted over a decided Policy review.
PolicyHistoryMutable ==
  /\ \A a \in Resolved : ~appr[a].polApp
  /\ Cardinality(PendingPolicyApprovals) <= 1

\* Seeded fault: the fence forgets to compare the token with the newest claim.
ActiveApprovalClaim_AnyToken(c) ==
  /\ claim # NoClaim
  /\ appr[claim.appr].status # "pending"
  /\ Token(c) \notin revoked
  /\ done[claim.appr] = NoRecord

\* Seeded fault: the fence only asks whether the holder itself was told to stop.
ActiveApprovalClaim_NotRevoked(c) == claim # NoClaim /\ Token(c) \notin revoked

\* The fence in front of every claimed write: c holds the newest claim of the trace, its
\* approval is resolved, no failure record revoked it and no terminal record closed it.
ActiveApprovalClaim(c) ==
  /\ claim # NoClaim
  /\ Token(c) = Token(claim)
  /\ appr[claim.appr].status # "pending"
  /\ Token(c) \notin revoked
  /\ done[claim.appr] = NoRecord

\* Seeded faults: an off-by-one on the audit order; no parent lookup at all.
ParentContinuationComplete_Strict(a) ==
  LET t == appr[a].trigger
      parent == done[t.appr]
  IN t # NoClaim => /\ parent # NoRecord
                    /\ t.seq < parent.claim.seq
                    /\ parent.status = "pending_human"
                    /\ parent.child = a

ParentContinuationComplete_Always(a) == TRUE

\* A review opened by a continuation stays closed to reviewers until that continuation
\* recorded a terminal marker which names it.
ParentContinuationComplete(a) ==
  LET t == appr[a].trigger
      parent == done[t.appr]
  IN t # NoClaim => /\ parent # NoRecord
                    /\ t.seq <= parent.claim.seq
                    /\ parent.status = "pending_human"
                    /\ parent.child = a

Latest(rows) == CHOOSE r \in rows : \A s \in rows : s.claim.seq <= r.claim.seq

OwnRows(rows, a) == {r \in rows : r.claim.appr = a}

\* Seeded fault: a denial follows the approved hand-over.
NextAgent_Approved(row) == row.approved_next

NextAgent(row) ==
  IF row.status = "approved" THEN row.approved_next ELSE RejectedNextAgent

\* A claim blocks a duplicate request while it is the newest of the trace, its lease is
\* fresh and the workflow has not failed.
ContinuationResumable(a) ==
  wf.status = "failed" \/ claim.appr # a \/ ~fresh

\* Seeded fault: a retry hands out the first token again.
NextClaim_SameAttempt(a) == [appr |-> a, attempt |-> 1, seq |-> claim.seq + 1]

NextClaim(a) ==
  [appr |-> a, attempt |-> IF claim.appr = a THEN claim.attempt + 1 ELSE 1,
   seq |-> claim.seq + 1]

\* The status Response gives the case when its governance does not block the draft.
ResponseStatus(row, route, decision) ==
  IF row.status = "approved" /\ route = "response_agent" /\ decision = "request_info"
    THEN "waiting_user" ELSE "completed"

\* Seeded fault: the test for a durable refund is the wrong way round.
EntryOf_Inverted(route, refunded) ==
  CASE route = "policy_agent"   -> "enter_policy"
    [] route = "human_approval" -> "enter_policy_review"
    [] route = "refund_agent"   -> IF refunded THEN "enter_refund" ELSE "enter_response"
    [] route = "response_agent" -> "enter_response"
    [] route = "end"            -> "mark"

\* Where a request goes on: the first stage its route still needs.
EntryOf(route, refunded) ==
  CASE route = "policy_agent"   -> "enter_policy"
    [] route = "human_approval" -> "enter_policy_review"
    [] route = "refund_agent"   -> IF refunded THEN "enter_response" ELSE "enter_refund"
    [] route = "response_agent" -> "enter_response"
    [] route = "end"            -> "mark"

\* Seeded fault: a retry decides the case again instead of reusing the Policy handoff.
Continue_PolicyAgain(row, c) ==
  [pc |-> EntryOf(NextAgent(row), c.appr \in refunds), claim |-> c,
   status |-> ResponseStatus(row, NextAgent(row), row.policy),
   refunded |-> c.appr \in refunds, marker |-> NoClaim,
   child |-> IF NextAgent(row) = "end" THEN c.appr ELSE 0]

\* The request that runs the continuation of row under claim c.  A Policy stage some
\* earlier attempt persisted is not run again: its route and decision are reused.
Continue(row, c) ==
  LET next   == NextAgent(row)
      rows   == OwnRows(policyRows, c.appr)
      reuse  == next = "policy_agent" /\ rows # {}
      route  == IF reuse THEN Latest(rows).route ELSE next
      policy == IF reuse THEN Latest(rows).decision ELSE row.policy
  IN [pc |-> EntryOf(route, c.appr \in refunds), claim |-> c,
      status |-> IF route = "human_approval" THEN "pending_human"
                 ELSE ResponseStatus(row, route, policy),
      refunded |-> c.appr \in refunds, marker |-> NoClaim,
      child |-> IF route = "end" THEN c.appr ELSE 0]

\* The request that repairs a lost terminal marker from the durable workflow status.
Recovery(c) ==
  LET rows == OwnRows(responseRows, c.appr)
  IN [pc |-> IF wf.status = "pending_human" THEN "enter_recover_review" ELSE "recover_mark",
      claim |-> c, status |-> wf.status, refunded |-> FALSE,
      marker |-> IF rows # {} /\ Latest(rows).blocked THEN Latest(rows).claim ELSE NoClaim,
      child |-> 0]

Goto(w, pc) == req' = [req EXCEPT ![w].pc = pc]

------------------------------------------------------------------------------------
(* resolve_human_approval and the service's choice of what to do with its answer.   *)
(* Requests it answers without writing (already completed, in progress, conflicting *)
(* decision, unavailable child) are stuttering steps.                                *)

AppendClaim(w, a) ==
  /\ claim.seq < MaxClaims
  /\ req[w].pc = "idle"
  /\ claim' = NextClaim(a)
  /\ fresh' = TRUE

\* A reviewer decides a pending review: decision, hand-over and first claim in one
\* transaction.
DecideReview(w, a, d) ==
  LET row == [appr[a] EXCEPT !.status = ResolutionStatus(d), !.decision = d]
  IN /\ a \in Pending
     /\ ParentContinuationComplete(a)
     /\ d = "partial_refund" => appr[a].approved_next = "refund_agent"
     /\ AppendClaim(w, a)
     /\ appr' = [appr EXCEPT ![a] = row]
     /\ wf' = IF NextAgent(row) = "end" THEN TerminalWorkflowState("completed")
              ELSE [status |-> "running", agent |-> NextAgent(row)]
     /\ req' = [req EXCEPT ![w] = Continue(row, claim')]
     /\ UNCHANGED <<nAppr, revoked, done, policyRows, responseRows, blocks, refunds>>

\* The identical request again, for a continuation nobody finished: a new attempt
\* supersedes the last one and goes on from what is durable.
RetryContinuation(w, a) ==
  /\ a \in Resolved \ Finished
  /\ ParentContinuationComplete(a)
  /\ ContinuationResumable(a)
  /\ AppendClaim(w, a)
  /\ req' = [req EXCEPT ![w] = IF wf.status \in TerminalStatuses THEN Recovery(claim')
                               ELSE Continue(appr[a], claim')]
  /\ UNCHANGED <<wf, nAppr, appr, revoked, done, policyRows, responseRows, blocks, refunds>>

------------------------------------------------------------------------------------
(* Claimed steps.  A step validates its claim before it calls an agent; a heartbeat  *)
(* thread renews the lease until the step ends.                                      *)

AtStage(w, pc) == req[w].pc = pc /\ ActiveApprovalClaim(req[w].claim)

EnterStep(w) ==
  /\ req[w].pc \in EnterPcs
  /\ ActiveApprovalClaim(req[w].claim)
  /\ fresh' = TRUE
  /\ Goto(w, [enter_policy |-> "policy", enter_policy_review |-> "policy_review",
              enter_refund |-> "refund", enter_response |-> "response",
              enter_recover_review |-> "recover_review"][req[w].pc])
  /\ UNCHANGED <<wf, nAppr, appr, claim, revoked, done, policyRows, responseRows, blocks,
                 refunds>>

Heartbeat(w) ==
  /\ req[w].pc \in StagePcs
  /\ ActiveApprovalClaim(req[w].claim)
  /\ fresh' = TRUE
  /\ UNCHANGED <<wf, nAppr, appr, claim, revoked, done, policyRows, responseRows, blocks,
                 refunds, req>>

InsertReview(row) ==
  /\ nAppr < MaxApprovals
  /\ nAppr' = nAppr + 1
  /\ appr' = [appr EXCEPT ![nAppr + 1] = row]

\* The review Policy persistence opens, refreshes or withdraws in its own transaction.
PersistPolicyApproval(decision, route, marker) ==
  LET row == PendingRow("policy", TRUE, decision, marker)
  IN \/ /\ route # "human_approval"
        /\ appr' = [a \in Approvals |-> IF a \in PendingPolicyApprovals
                                        THEN [appr[a] EXCEPT !.status = "deleted"]
                                        ELSE appr[a]]
        /\ UNCHANGED nAppr
     \/ /\ route = "human_approval"
        /\ IF PendingPolicyApprovals = {} THEN InsertReview(row)
           ELSE /\ appr' = [appr EXCEPT ![CHOOSE a \in PendingPolicyApprovals : TRUE] = row]
                /\ UNCHANGED nAppr

\* The Policy graph runs and persists its handoff, events, review and route at once.
PersistPolicy(w, decision, blocked) ==
  LET route  == PolicyNextAgent(decision, blocked)
      status == IF route = "human_approval" THEN "pending_human"
                ELSE ResponseStatus(appr[claim.appr], route, decision)
  IN /\ AtStage(w, "policy")
     /\ Cardinality(PendingPolicyApprovals) <= 1
     /\ policyRows' = policyRows \cup
          {[claim |-> claim, decision |-> decision, route |-> route]}
     /\ blocks' = IF blocked THEN blocks \cup {[stage |-> "policy", claim |-> claim]}
                  ELSE blocks
     /\ PersistPolicyApproval(decision, route, claim)
     /\ wf' = PolicyWorkflowState(route)
     /\ fresh' = TRUE
     /\ req' = [req EXCEPT ![w].pc = EntryOf(route, req[w].refunded), ![w].status = status]
     /\ UNCHANGED <<claim, revoked, done, responseRows, refunds>>

\* Seeded fault: the lookup of an existing pending review is missing.
EnsureHumanApproval_NoLookup(w, stage, marker, pc) ==
  /\ fresh' = TRUE
  /\ [stage |-> stage, claim |-> marker] \in blocks
  /\ InsertReview(PendingRow(stage, FALSE, "none", marker))
  /\ req' = [req EXCEPT ![w].pc = pc, ![w].child = nAppr + 1]
  /\ wf' = TerminalWorkflowState("pending_human")
  /\ UNCHANGED <<claim, revoked, done, policyRows, responseRows, blocks, refunds>>

\* ensure_human_approval under a claim: hand back the one pending review of the trace,
\* or open one for the blocking event that carries exactly this marker.
EnsureHumanApproval(w, stage, marker, pc) ==
  /\ Cardinality(Pending) <= 1
  /\ fresh' = TRUE
  /\ \/ /\ Pending # {}
        /\ req' = [req EXCEPT ![w].pc = pc, ![w].child = CHOOSE a \in Pending : TRUE]
        /\ UNCHANGED <<wf, nAppr, appr>>
     \/ /\ Pending = {}
        /\ [stage |-> stage, claim |-> marker] \in blocks
        /\ InsertReview(PendingRow(stage, FALSE, "none", marker))
        /\ req' = [req EXCEPT ![w].pc = pc, ![w].child = nAppr + 1]
        /\ wf' = TerminalWorkflowState("pending_human")
  /\ UNCHANGED <<claim, revoked, done, policyRows, responseRows, blocks, refunds>>

EnsurePolicyReview(w) ==
  AtStage(w, "policy_review") /\ EnsureHumanApproval(w, "policy", claim, "mark")

\* The refund executor and the transaction row it leaves, keyed by the approval.
PersistRefund(w) ==
  /\ AtStage(w, "refund")
  /\ refunds' = refunds \cup {claim.appr}
  /\ wf' = [status |-> "running", agent |-> "response_agent"]
  /\ fresh' = TRUE
  /\ Goto(w, "enter_response")
  /\ UNCHANGED <<nAppr, appr, claim, revoked, done, policyRows, responseRows, blocks>>

\* Response drafts an answer; its governance verdict is saved before the draft is.
SaveResponseGovernance(w, blocked) ==
  /\ AtStage(w, "response")
  /\ blocks' = IF blocked THEN blocks \cup {[stage |-> "response", claim |-> claim]}
               ELSE blocks
  /\ fresh' = TRUE
  /\ req' = [req EXCEPT ![w].pc = "persist_response",
                        ![w].status = IF blocked THEN "pending_human" ELSE @]
  /\ UNCHANGED <<wf, nAppr, appr, claim, revoked, done, policyRows, responseRows, refunds>>

PersistResponse(w) ==
  LET blocked == req[w].status = "pending_human"
  IN /\ AtStage(w, "persist_response")
     /\ responseRows' = responseRows \cup {[claim |-> claim, blocked |-> blocked]}
     /\ wf' = TerminalWorkflowState(req[w].status)
     /\ fresh' = TRUE
     /\ Goto(w, IF blocked THEN "response_review" ELSE "mark")
     /\ UNCHANGED <<nAppr, appr, claim, revoked, done, policyRows, blocks, refunds>>

EnsureResponseReview(w) ==
  AtStage(w, "response_review") /\ EnsureHumanApproval(w, "response", claim, "mark")

\* A recovery finds the review its stage already opened or opens the one it lost.
EnsureRecoveredReview(w) ==
  /\ AtStage(w, "recover_review")
  /\ LET m == req[w].marker
     IN EnsureHumanApproval(w, "response", IF m = NoClaim THEN claim ELSE m, "recover_mark")

------------------------------------------------------------------------------------
(* The end of a continuation.                                                       *)

\* Seeded fault: the terminal marker does not look at the pending reviews.
MarkAdmitted_Always(status, child) == TRUE

\* pending_human names exactly the pending review; any other end leaves none open.
MarkAdmitted(status, child) ==
  Pending = IF status = "pending_human" THEN {child} ELSE {}

\* mark_human_approval_continuation.  Its "already marked" answer needs the claim of a
\* finished approval, which no request starts from.
MarkContinuation(w) ==
  /\ req[w].pc \in {"mark", "recover_mark"}
  /\ ActiveApprovalClaim(req[w].claim)
  /\ MarkAdmitted(req[w].status, req[w].child)
  /\ done' = [done EXCEPT ![claim.appr] =
                [status |-> req[w].status, child |-> req[w].child, claim |-> claim]]
  /\ wf' = TerminalWorkflowState(req[w].status)
  /\ fresh' = TRUE
  /\ req' = [req EXCEPT ![w] = Idle]
  /\ UNCHANGED <<nAppr, appr, claim, revoked, policyRows, responseRows, blocks, refunds>>

\* Any exception inside the try block: Azure, the database, a heartbeat that failed in
\* the background, a fence or a marker that refused the write.
StepFails(w) ==
  /\ req[w].pc \in RunPcs
  /\ Goto(w, "failing")
  /\ UNCHANGED dbVars

\* record_human_approval_continuation_failure revokes the token and fails the workflow.
RecordFailure(w) ==
  /\ AtStage(w, "failing")
  /\ revoked' = revoked \cup {Token(claim)}
  /\ wf' = [status |-> "failed", agent |-> "human_approval"]
  /\ fresh' = TRUE
  /\ req' = [req EXCEPT ![w] = Idle]
  /\ UNCHANGED <<nAppr, appr, claim, done, policyRows, responseRows, blocks, refunds>>

\* The process dies, or the request ends in an error nothing records: a recovery that
\* raised, or a failure record the fence refused.
RequestEnds(w) ==
  /\ req[w].pc # "idle"
  /\ req' = [req EXCEPT ![w] = Idle]
  /\ UNCHANGED dbVars

\* Time passes without a write: a dead holder, or a live one whose heartbeat is late.
LeaseExpires ==
  /\ fresh
  /\ fresh' = FALSE
  /\ UNCHANGED <<wf, nAppr, appr, claim, revoked, done, policyRows, responseRows, blocks,
                 refunds, req>>

------------------------------------------------------------------------------------
(* What the initial run can leave behind: one pending review of any stage, in a case *)
(* that waits for it or whose run failed later on.  A Response review may follow a    *)
(* refund the initial run already issued.  RefundCase checks that this is so.         *)

InitialReviews ==
  {PendingRow("triage", FALSE, "none", NoClaim), PendingRow("response", FALSE, "none", NoClaim)}
    \cup {PendingRow("policy", TRUE, d, NoClaim) : d \in PolicyDecisions}

Init ==
  /\ wf \in {TerminalWorkflowState("pending_human"), [status |-> "failed", agent |-> "failed"]}
  /\ fresh = TRUE
  /\ nAppr = 1
  /\ \E row \in InitialReviews :
       /\ appr = [a \in Approvals |-> IF a = 1 THEN row ELSE AbsentRow]
       /\ refunds \in {{}} \cup (IF row.stage = "response" THEN {{0}} ELSE {})
  /\ claim = NoClaim
  /\ revoked = {}
  /\ done = [a \in Approvals |-> NoRecord]
  /\ policyRows = {} /\ responseRows = {} /\ blocks = {}
  /\ req = [w \in Workers |-> Idle]

Resolve(w) ==
  \E a \in Approvals : RetryContinuation(w, a) \/ \E d \in ReviewDecisions : DecideReview(w, a, d)

RunStage(w) ==
  \/ EnterStep(w)
  \/ Heartbeat(w)
  \/ \E d \in PolicyDecisions, b \in BOOLEAN : PersistPolicy(w, d, b)
  \/ EnsurePolicyReview(w)
  \/ PersistRefund(w)
  \/ \E b \in BOOLEAN : SaveResponseGovernance(w, b)
  \/ PersistResponse(w)
  \/ EnsureResponseReview(w)
  \/ EnsureRecoveredReview(w)
  \/ MarkContinuation(w)

Fail(w) == StepFails(w) \/ RecordFailure(w) \/ RequestEnds(w)

Next == LeaseExpires \/ \E w \in Workers : Resolve(w) \/ RunStage(w) \/ Fail(w)

Spec == Init /\ [][Next]_vars
------------------------------------------------------------------------------------
(* Properties.                                                                      *)

\* A case pays at most once, however many reviews, attempts and processes work on it:
\* every continuation may run Refund, and only the routes keep a second one away.
AtMostOneRefund == Cardinality(refunds) <= 1

\* The review whose refund this is was approved, and its approval or the Policy stage
\* it let run decided to refund: a denial, a Response release or a request for
\* information never ends in money.
RefundAuthorised ==
  \A a \in refunds \ {0} :
    /\ appr[a].status = "approved"
    /\ \/ appr[a].approved_next = "refund_agent"
       \/ \E r \in policyRows : r.claim.appr = a /\ r.route = "refund_agent"

\* An approved refund is not lost: when a continuation that owed one has recorded its
\* terminal marker, possibly from a recovery that skipped every stage, it was paid.
RefundDelivered ==
  \A a \in Finished :
    (appr[a].status = "approved" /\ appr[a].approved_next = "refund_agent") => a \in refunds

\* The refund_persistence_result a request read when it resolved the review decides
\* whether it runs Refund much later.  While its claim is good that reading is current:
\* the executor is never called for a refund that is already on record.
RefundNotReissued ==
  \A w \in Workers :
    (req[w].pc \in {"enter_refund", "refund"} /\ ActiveApprovalClaim(req[w].claim))
      => req[w].claim.appr \notin refunds

\* Of all the requests in flight at most one can still write.
OneOwner ==
  \A v, w \in Workers :
    (/\ req[v].pc # "idle" /\ ActiveApprovalClaim(req[v].claim)
     /\ req[w].pc # "idle" /\ ActiveApprovalClaim(req[w].claim)) => v = w

\* ensure_human_approval and Policy persistence never leave a reviewer two questions
\* about one case.
AtMostOnePending == Cardinality(Pending) <= 1

\* Nothing a late request does disturbs a recorded end: from the terminal marker until
\* the next decision the workflow row, the marker and the open review agree.
TerminalAgreement ==
  claim.appr \in Finished =>
    LET end == done[claim.appr]
    IN /\ wf = TerminalWorkflowState(end.status)
       /\ Pending = IF end.status = "pending_human" THEN {end.child} ELSE {}

\* A pending review is never orphaned: once no continuation is under way a reviewer may
\* decide it.
NoStuckReview ==
  (claim = NoClaim \/ claim.appr \in Finished) =>
    \A a \in Pending : ParentContinuationComplete(a)

\* A retry reuses the Policy decision an earlier attempt committed; Azure is not asked
\* to decide the same review twice with possibly different answers.
PolicyOnce ==
  \A r, s \in policyRows : r.claim.appr = s.claim.appr => r = s

\* What an ended continuation left behind is history: no step, of any request however
\* late, changes its decision or its marker or adds a row under it.
HistoryIsFinal ==
  [][\A a \in Finished :
       /\ appr'[a] = appr[a]
       /\ done'[a] = done[a]
       /\ OwnRows(policyRows, a)' = OwnRows(policyRows, a)
       /\ OwnRows(responseRows, a)' = OwnRows(responseRows, a)
       /\ OwnRows(blocks, a)' = OwnRows(blocks, a)
       /\ (a \in refunds') = (a \in refunds)]_vars

\* "A recorded failed state is intentionally retryable with the identical request"
\* (app/review.py): a retry that got through its stages may record its end.
FailedIsRetryable ==
  \A w \in Workers :
    (req[w].pc = "mark" /\ ActiveApprovalClaim(req[w].claim) /\ revoked # {})
      => MarkAdmitted(req[w].status, req[w].child)

\* "Keep an approval claim active while an agent waits on Azure" (app/review.py): a
\* duplicate request does not take the claim of a stage whose heartbeat is on time.
HeartbeatKeepsClaim ==
  [][\A w \in Workers :
       (req[w].pc \in StagePcs /\ ActiveApprovalClaim(req[w].claim) /\ fresh)
         => claim' = claim]_vars

------------------------------------------------------------------------------------
(* The promise to reviewers, and how this state shows it.                           *)

Decidable == {a \in Pending : ParentContinuationComplete(a)}

OpenReview == IF Decidable = {} THEN 0 ELSE CHOOSE a \in Decidable : TRUE
ActiveReview == IF claim = NoClaim \/ claim.appr \in Finished THEN 0 ELSE claim.appr
Verdict == [a \in Approvals |-> IF a \in Resolved THEN appr[a].status ELSE "none"]
Outcome == [a \in Approvals |-> done[a].status]

Contract == INSTANCE ReviewContract WITH
  open <- OpenReview, active <- ActiveReview, verdict <- Verdict, outcome <- Outcome,
  paid <- refunds

\* Claims, leases, retries and crashes are invisible to a reviewer: every step is one of
\* the contract's or none at all.
ImplementsContract == Contract!Spec
====================================================================================
