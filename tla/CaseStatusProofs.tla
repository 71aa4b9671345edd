------------------------------ MODULE CaseStatusProofs ------------------------------
(***********************************************************************************)
(* Proofs about CaseStatus: what reviewers and the queue see of a case, over all its    *)
(* runs and continuations.  A case whose reviewers waited for the run to end satisfies    *)
(* the invariant of the approval service at all times; on top of it stand what the rows    *)
(* of the trace, its events and its answers say of the continuation under way.             *)
(***********************************************************************************)
EXTENDS CaseStatus, RefundCaseProofs, HumanApprovalRefinement

------------------------------------------------------------------------------------
(* The inductive invariants.                                                        *)

\* A case no reviewer touched before its run had ended.
Orderly == ~early => SafeInv /\ (claim # NoClaim => run.node = "end")

------------------------------------------------------------------------------------
(* What a decision is applied to.                                                   *)

\* The first review is about the only rows there are, and stays so until it is decided.
HeldDraft == [claim |-> NoClaim, blocked |-> TRUE]

FirstRead ==
  claim = NoClaim =>
    /\ \A r, s \in responseRows : r = s
    /\ (run.node = "human_approval" /\ run.stage = "response") => responseRows = {HeldDraft}
    /\ nAppr # 0 =>
         /\ appr[1].stage = "policy" => \E r \in policyRows : r.decision = appr[1].policy
         /\ appr[1].stage = "response" =>
              responseRows = {HeldDraft} /\ run.node \in {"verify", "failing", "end"}

\* A row is the run's or a decided review's, and no two were written under one claim.
Stamped(rows) ==
  /\ \A r \in rows : r.claim = NoClaim \/ r.claim.appr \in Resolved
  /\ \A r \in rows : r.claim.seq = claim.seq => r.claim = claim
  /\ \A r, s \in rows : r.claim.seq = s.claim.seq => r = s

\* The Policy row of the review decided last is newer than every other review's.
OwnNewest ==
  \A r, s \in policyRows :
    (r.claim.appr = claim.appr /\ s.claim.appr # claim.appr) => s.claim.seq < r.claim.seq

\* A Policy review and the row that asked for it come and go together.
PolicyAsked ==
  claim # NoClaim =>
    /\ \A a \in Pending : appr[a].stage = "policy" =>
         \E r \in OwnRows(policyRows, claim.appr) : r.decision = appr[a].policy
    /\ (\E r \in OwnRows(policyRows, claim.appr) : r.route = "human_approval") =>
         \E a \in Pending : appr[a].stage = "policy"

\* What a continuation that waits for a reviewer waits for.
Awaited ==
  \/ \E r \in OwnRows(policyRows, claim.appr) : r.route = "human_approval"
  \/ \E r \in OwnRows(responseRows, claim.appr) :
       r.blocked /\ \A s \in responseRows : s.claim.seq <= r.claim.seq

ReviewPcs == {"enter_policy_review", "policy_review", "response_review", "enter_recover_review",
              "recover_review"}
UnansweredPcs == {"enter_policy", "policy", "enter_refund", "refund", "enter_response",
                  "response", "persist_response"}

Standing(w) ==
  /\ req[w].pc \in ReviewPcs => Awaited
  /\ (req[w].pc \in {"mark", "recover_mark"} /\ req[w].status = "pending_human") => Awaited
  /\ req[w].pc \in UnansweredPcs => \A r \in responseRows : r.claim # claim

ReadInv ==
  /\ Stamped(policyRows) /\ Stamped(responseRows)
  /\ OwnNewest /\ PolicyAsked
  /\ (claim # NoClaim /\ wf.status = "pending_human") => Awaited
  /\ \A w \in Workers : Owner(w) => Standing(w)

OrderlyReads == ~early => ReadInv

------------------------------------------------------------------------------------
(* A case whose reviewers waited for its run.                                       *)

\* Before the first decision the run's rows are those of a case nobody decided.
LEMMA UndecidedSafe == CaseInv /\ claim = NoClaim => SafeInv
<1> SUFFICES ASSUME CaseInv, claim = NoClaim PROVE SafeInv
  OBVIOUS
<1>0. /\ nAppr \in 0..MaxApprovals /\ 1 \in Approvals /\ 0 \notin Approvals
      /\ \A w \in Workers : req[w] = Idle
      /\ \A a \in Approvals : done[a] = NoRecord
      /\ \A a \in Approvals : a > nAppr => appr[a] = AbsentRow
      /\ nAppr # 0 => nAppr = 1 /\ appr[1] \in InitialReviews
      /\ refunds \subseteq {0}
  BY BoundsAssumption DEF CaseInv, CaseTypes, TypeInv, TypeOK, Approvals, Undecided
<1>1. \A a \in Approvals : appr[a] = AbsentRow \/ (a = 1 /\ appr[a] \in InitialReviews)
  BY <1>0 DEF Approvals
<1>2. \A row \in InitialReviews :
        /\ row.status = "pending" /\ row.trigger = NoClaim
        /\ row.stage = "triage" <=> row.approved_next = "policy_agent"
        /\ row.stage = "response" <=> row.approved_next = "end"
  BY DEF InitialReviews, PendingRow, ApprovedNextAgent
<1>3. AbsentRow.status = "absent" /\ AbsentRow.stage = "triage"
      /\ AbsentRow.approved_next = "policy_agent"
  BY DEF AbsentRow
<1>4. Resolved = {} /\ Finished = {} /\ Pending \subseteq {1} /\ \A w \in Workers : ~Held(w)
  BY <1>0, <1>1, <1>2, <1>3 DEF Resolved, Finished, Pending, Held, Idle
<1>5. Lineage
  BY <1>0, <1>1, <1>2, <1>3, <1>4, NoClaimType DEF Lineage, TerminalAgreement, Pending
<1>6. Holders
  BY <1>4 DEF Holders
<1>7. Progress
  BY <1>4, NoClaimType DEF Progress, PolicyOwed, RefundOwed, Owner, PolicyOnce, CaseInv, Undecided
<1>8. Paid
  <2>1. \A a \in Approvals :
          /\ appr[a].stage = "triage" <=> appr[a].approved_next = "policy_agent"
          /\ appr[a].stage = "response" <=> appr[a].approved_next = "end"
    BY <1>1, <1>2, <1>3
  <2>2. refunds # {} => \A a \in Pending : appr[a].stage = "response"
    <3> SUFFICES ASSUME refunds # {}, NEW a \in Pending PROVE appr[a].stage = "response"
      OBVIOUS
    <3>1. 0 \in refunds /\ appr[a].status # "absent" /\ a \in Approvals
      BY <1>0 DEF Pending
    <3> QED BY <2>1, <3>1 DEF CaseInv, RunPaid
  <2> QED BY <1>0, <1>4, <2>1, <2>2 DEF Paid
<1> QED BY <1>5, <1>6, <1>7, <1>8 DEF SafeInv

LEMMA UndecidedSafeNext == (CaseInv /\ claim = NoClaim)' => SafeInv'
BY UndecidedSafe, PTL

\* A step of the run finds it running, and leaves the claims alone.
LEMMA RunIsRunning == InitialRun => run.node # "end" /\ claim' = claim
BY DEF InitialRun, TriageGovernance, PersistTriage, RunPolicy, RunRefund, HumanApprovalNode,
       RunResponseGovernance, RunPersistResponse, VerifyPersisted, RunRaises,
       RecordWorkflowFailure, RunDies, Running, vars, dbVars

LEMMA InitOrderly == CaseInv /\ StatusInit => Orderly
<1>1. StatusInit => claim = NoClaim
  BY DEF StatusInit, CaseInit
<1> QED BY <1>1, UndecidedSafe DEF Orderly

\* An orderly step is one of a run nobody has decided on, or one of the service alone.
LEMMA OrderlySteps ==
  ASSUME CaseInv, Orderly, [StatusNext]_statusVars, ~early'
  PROVE  /\ ~early /\ IInv
         /\ \/ claim = NoClaim /\ claim' = NoClaim
            \/ [Next]_vars /\ run' = run
         /\ claim' # NoClaim => run'.node = "end"
<1>1. CASE UNCHANGED statusVars
  <2>1. UNCHANGED <<vars, claim, run, early>>
    BY <1>1 DEF statusVars, caseVars, vars, dbVars
  <2>2. IInv /\ (claim # NoClaim => run.node = "end")
    BY <2>1 DEF Orderly, IInv, CaseInv, CaseTypes
  <2> QED BY <2>1, <2>2
<1>2. CASE StatusNext
  <2>1. ~early /\ (claim' # claim => run.node = "end") /\ CaseNext
    BY <1>2 DEF StatusNext, Running
  <2>2. IInv /\ (claim # NoClaim => run.node = "end")
    BY <2>1 DEF Orderly, IInv, CaseInv, CaseTypes
  <2>3. CASE InitialRun
    BY <2>1, <2>2, <2>3, RunIsRunning
  <2>4. CASE LeaseExpires /\ UNCHANGED <<run, allowed>>
    <3>1. [Next]_vars /\ run' = run /\ claim' = claim
      BY <2>4 DEF Next, LeaseExpires
    <3> QED BY <2>1, <2>2, <3>1
  <2>5. ASSUME NEW w \in Workers, Continuation(w), UNCHANGED run
        PROVE  [Next]_vars /\ run' = run
    BY <2>5 DEF Continuation, Next
  <2> QED BY <2>1, <2>2, <2>3, <2>4, <2>5 DEF CaseNext
<1> QED BY <1>1, <1>2

LEMMA StatusIsCase == [StatusNext]_statusVars => [CaseNext]_caseVars
BY DEF StatusNext, statusVars

LEMMA OrderlyStep == CaseInv /\ Orderly /\ [StatusNext]_statusVars => Orderly'
<1> SUFFICES ASSUME CaseInv, Orderly, [StatusNext]_statusVars, ~early'
             PROVE  SafeInv' /\ (claim' # NoClaim => run'.node = "end")
  BY DEF Orderly
<1>1. CaseInv'
  BY StatusIsCase, CaseStep
<1>2. CASE claim' = NoClaim
  BY <1>1, <1>2, UndecidedSafeNext
<1>3. CASE [Next]_vars /\ run' = run
  BY <1>3, OrderlySteps, InvStep DEF IInv
<1> QED BY <1>2, <1>3, OrderlySteps

LEMMA StatusInvHolds == StatusSpec => []CaseInv /\ []Orderly
<1>1. StatusInit => CaseInv /\ Orderly
  BY InitCase, InitOrderly DEF StatusInit
<1>2. CaseInv /\ Orderly /\ [StatusNext]_statusVars => (CaseInv /\ Orderly)'
  BY StatusIsCase, CaseStep, OrderlyStep
<1> QED BY <1>1, <1>2, PTL DEF StatusSpec

\* A case decided only after its run had ended, from its first message to its last review:
\* it is paid once at most, only on an approval, and every refund owed is paid; one request
\* at a time can write; a reviewer has one question at most, which is never orphaned, and
\* what an ended continuation recorded stands until the next decision.
THEOREM OrderlyCasesAreSafe ==
  StatusSpec =>
    [](~early => /\ AtMostOneRefund /\ RefundAuthorised /\ RefundDelivered /\ RefundNotReissued
                 /\ OneOwner /\ AtMostOnePending /\ TerminalAgreement /\ NoStuckReview
                 /\ PolicyOnce)
<1>1. CaseInv /\ Orderly =>
        (~early => /\ AtMostOneRefund /\ RefundAuthorised /\ RefundDelivered /\ RefundNotReissued
                   /\ OneOwner /\ AtMostOnePending /\ TerminalAgreement /\ NoStuckReview
                   /\ PolicyOnce)
  BY InvSafe DEF CaseInv, CaseTypes, Orderly, IInv
<1> QED BY <1>1, StatusInvHolds, PTL

------------------------------------------------------------------------------------
(* What a decision is applied to: the steps of the service.                         *)

\* Who can write holds the newest claim.
OwnersHold == \A v \in Workers : Owner(v) => req[v].claim = claim

LEMMA InvOwners == IInv => OwnersHold
<1> SUFFICES ASSUME TypeInv, Holders, NEW v \in Workers, Owner(v) PROVE req[v].claim = claim
  BY DEF IInv, SafeInv, OwnersHold
<1> QED BY OwnerFacts

LEMMA InvOwnersNext == IInv' => OwnersHold'
BY InvOwners, PTL

\* Without a new row or a new decision what was read stays what was read.
LEMMA RowsRead ==
  ASSUME ReadInv, UNCHANGED <<claim, policyRows, responseRows>>, Resolved' = Resolved
  PROVE  /\ Stamped(policyRows)' /\ Stamped(responseRows)' /\ OwnNewest'
         /\ Awaited' <=> Awaited
         /\ UNCHANGED appr => PolicyAsked'
<1>1. \A a : /\ OwnRows(policyRows, a)' = OwnRows(policyRows, a)
             /\ OwnRows(responseRows, a)' = OwnRows(responseRows, a)
  BY DEF OwnRows
<1>2. Stamped(policyRows)' /\ Stamped(responseRows)' /\ OwnNewest'
  BY DEF ReadInv, Stamped, OwnNewest
<1>3. Awaited' <=> Awaited
  BY <1>1 DEF Awaited
<1>4. ASSUME UNCHANGED appr PROVE PolicyAsked'
  <2>1. Pending' = Pending
    BY <1>4 DEF Pending
  <2> QED BY <1>1, <1>4, <2>1 DEF ReadInv, PolicyAsked
<1> QED BY <1>2, <1>3, <1>4

LEMMA MovedReads ==
  ASSUME IInv, ReadInv,
         UNCHANGED <<wf, nAppr, appr, claim, revoked, done, policyRows, responseRows>>,
         \A v \in Workers : req'[v] = req[v] \/ req'[v].pc \in {"failing", "idle"}
  PROVE  ReadInv'
<1>1. Resolved' = Resolved
  BY DEF Resolved
<1>2. ASSUME NEW v \in Workers, Owner(v)' PROVE Standing(v)'
  <2>1. CASE req'[v] = req[v]
    <3>1. Owner(v)
      BY <1>2, <2>1 DEF Owner, Held, ActiveApprovalClaim, Token
    <3>2. Standing(v)
      BY <3>1 DEF ReadInv
    <3> QED BY <1>1, <2>1, <3>2, RowsRead DEF Standing
  <2>2. CASE req'[v].pc \in {"failing", "idle"}
    BY <2>2 DEF Standing, ReviewPcs, UnansweredPcs
  <2> QED BY <2>1, <2>2
<1> QED BY <1>1, <1>2, RowsRead DEF ReadInv

\* A step of the owner that writes no row.
LEMMA OwnerStepReads ==
  ASSUME IInv, ReadInv, NEW w \in Workers, Owner(w), NEW r,
         UNCHANGED <<claim, policyRows, responseRows>>, Resolved' = Resolved, PolicyAsked',
         req' = [req EXCEPT ![w] = r],
         wf'.status = "pending_human" => wf.status = "pending_human" \/ Awaited,
         Owner(w)' => Standing(w)'
  PROVE  ReadInv'
<1>0. req \in [Workers -> Requests] /\ TypeInv /\ Holders
  BY DEF IInv, SafeInv, TypeInv, TypeOK
<1>1. ASSUME NEW v \in Workers, Owner(v)' PROVE v = w
  <2>1. CASE v # w
    <3>1. req'[v] = req[v]
      BY <1>0, <2>1
    <3> QED BY <1>0, <1>1, <3>1, OthersKept
  <2> QED BY <2>1
<1>2. (claim' # NoClaim /\ wf'.status = "pending_human") => Awaited'
  BY RowsRead DEF ReadInv
<1> QED BY <1>1, <1>2, RowsRead DEF ReadInv

LEMMA EnterStepReads ==
  ASSUME IInv, ReadInv, NEW w \in Workers, EnterStep(w)
  PROVE  ReadInv'
<1> DEFINE pc == [enter_policy |-> "policy", enter_policy_review |-> "policy_review",
                  enter_refund |-> "refund", enter_response |-> "response",
                  enter_recover_review |-> "recover_review"][req[w].pc]
<1>1. /\ Owner(w) /\ req[w].pc \in EnterPcs /\ req' = [req EXCEPT ![w].pc = pc]
      /\ UNCHANGED <<wf, appr, claim, policyRows, responseRows>>
  BY DEF EnterStep, Goto, Owner, Held, EnterPcs
<1>2. /\ pc \in ReviewPcs => req[w].pc \in ReviewPcs
      /\ pc \in UnansweredPcs => req[w].pc \in UnansweredPcs
      /\ pc \notin {"mark", "recover_mark"}
  BY <1>1 DEF EnterPcs, ReviewPcs, UnansweredPcs
<1>3. Resolved' = Resolved
  BY <1>1 DEF Resolved
<1>4. req'[w].pc = pc /\ req' = [req EXCEPT ![w] = [req[w] EXCEPT !.pc = pc]]
  BY <1>1 DEF IInv, TypeInv, TypeOK, Requests
<1> HIDE DEF pc
<1>5. Standing(w)'
  <2>1. Standing(w) /\ (Awaited' <=> Awaited)
    BY <1>1, <1>3, RowsRead DEF ReadInv
  <2> QED BY <1>1, <1>2, <1>4, <2>1 DEF Standing
<1> QED BY <1>1, <1>3, <1>4, <1>5, RowsRead, OwnerStepReads

LEMMA PersistRefundReads ==
  ASSUME IInv, ReadInv, NEW w \in Workers, PersistRefund(w)
  PROVE  ReadInv'
<1>1. /\ Owner(w) /\ req[w].pc = "refund"
      /\ req' = [req EXCEPT ![w].pc = "enter_response"]
      /\ wf'.status = "running"
      /\ UNCHANGED <<appr, claim, policyRows, responseRows>>
  BY DEF PersistRefund, AtStage, Goto, Owner, Held
<1>2. Resolved' = Resolved
  BY <1>1 DEF Resolved
<1>3. req'[w].pc = "enter_response" /\ req' = [req EXCEPT ![w] = [req[w] EXCEPT !.pc = "enter_response"]]
  BY <1>1 DEF IInv, TypeInv, TypeOK, Requests
<1>4. Standing(w)'
  BY <1>1, <1>3 DEF ReadInv, Standing, ReviewPcs, UnansweredPcs
<1> QED BY <1>1, <1>2, <1>3, <1>4, RowsRead, OwnerStepReads

LEMMA SaveResponseGovernanceReads ==
  ASSUME IInv, ReadInv, NEW w \in Workers, NEW b \in BOOLEAN, SaveResponseGovernance(w, b)
  PROVE  ReadInv'
<1> DEFINE r == [req[w] EXCEPT !.pc = "persist_response",
                               !.status = IF b THEN "pending_human" ELSE @]
<1>1. /\ Owner(w) /\ req[w].pc = "response"
      /\ req' = [req EXCEPT ![w].pc = "persist_response",
                            ![w].status = IF b THEN "pending_human" ELSE @]
      /\ UNCHANGED <<wf, appr, claim, policyRows, responseRows>>
  BY DEF SaveResponseGovernance, AtStage, Owner, Held
<1>2. Resolved' = Resolved
  BY <1>1 DEF Resolved
<1>3. req'[w].pc = "persist_response" /\ req' = [req EXCEPT ![w] = r]
  BY <1>1 DEF IInv, TypeInv, TypeOK, Requests
<1> HIDE DEF r
<1>4. Standing(w)'
  BY <1>1, <1>3 DEF ReadInv, Standing, ReviewPcs, UnansweredPcs
<1> QED BY <1>1, <1>2, <1>3, <1>4, RowsRead, OwnerStepReads

LEMMA MarkContinuationReads ==
  ASSUME IInv, ReadInv, NEW w \in Workers, MarkContinuation(w)
  PROVE  ReadInv'
<1>1. /\ Owner(w) /\ req[w].pc \in {"mark", "recover_mark"}
      /\ req' = [req EXCEPT ![w] = Idle]
      /\ wf' = TerminalWorkflowState(req[w].status)
      /\ UNCHANGED <<appr, claim, policyRows, responseRows>>
  BY DEF MarkContinuation, Owner, Held
<1>2. Resolved' = Resolved
  BY <1>1 DEF Resolved
<1>3. req'[w] = Idle
  BY <1>1 DEF IInv, TypeInv, TypeOK
<1>4. Standing(w)'
  BY <1>3 DEF Idle, Standing, ReviewPcs, UnansweredPcs
<1>5. wf'.status = "pending_human" => Awaited
  BY <1>1 DEF TerminalWorkflowState, ReadInv, Standing
<1> QED BY <1>1, <1>2, <1>4, <1>5, RowsRead, OwnerStepReads

\* A review is opened for what its continuation waits for.
LEMMA EnsureReads ==
  ASSUME IInv, ReadInv, NEW w \in Workers, NEW stage \in {"policy", "response"}, NEW marker \in Claims,
         NEW pc \in {"mark", "recover_mark"}, EnsureHumanApproval(w, stage, marker, pc), Owner(w),
         Awaited,
         stage = "policy" => \E r \in OwnRows(policyRows, claim.appr) : r.route = "human_approval"
  PROVE  ReadInv'
<1> DEFINE row == PendingRow(stage, FALSE, "none", marker)
<1>0. /\ req \in [Workers -> Requests] /\ appr \in [Approvals -> ApprovalRows] /\ nAppr \in Nat
      /\ claim # NoClaim
  BY OwnerFacts, BoundsAssumption DEF IInv, SafeInv, TypeInv, TypeOK
<1>1. /\ UNCHANGED <<claim, policyRows, responseRows>>
      /\ \E x : req' = [req EXCEPT ![w].pc = pc, ![w].child = x]
      /\ \/ UNCHANGED <<wf, appr>>
         \/ Pending = {} /\ appr' = [appr EXCEPT ![nAppr + 1] = row]
  BY DEF EnsureHumanApproval, InsertReview
<1>2. Resolved' = Resolved
  <2>1. stage \in Stages
    BY DEF Stages
  <2> QED BY <2>1, EnsureDecidesNone
<1>3. \E r : req' = [req EXCEPT ![w] = r]
  BY <1>1
<1>4. Standing(w)'
  <2>1. req'[w].pc = pc
    BY <1>0, <1>1 DEF Requests
  <2>2. Awaited'
    BY <1>1, <1>2, RowsRead
  <2> QED BY <2>1, <2>2 DEF Standing, UnansweredPcs
<1>5. PolicyAsked'
  <2>1. CASE UNCHANGED appr
    BY <1>1, <1>2, <2>1, RowsRead
  <2>2. CASE Pending = {} /\ appr' = [appr EXCEPT ![nAppr + 1] = row]
    <3>1. ~\E r \in OwnRows(policyRows, claim.appr) : r.route = "human_approval"
      BY <1>0, <2>2 DEF ReadInv, PolicyAsked
    <3>2. stage = "response" /\ row.stage = "response"
      BY <3>1 DEF PendingRow
    <3> HIDE DEF row
    <3>3. \A a \in Approvals : appr'[a] = appr[a] \/ appr'[a] = row
      BY <1>0, <2>2
    <3>4. \A a \in Pending' : appr'[a].stage = "response"
      BY <2>2, <3>2, <3>3 DEF Pending
    <3>5. OwnRows(policyRows, claim.appr)' = OwnRows(policyRows, claim.appr)
      BY <1>1 DEF OwnRows
    <3> QED BY <3>1, <3>4, <3>5 DEF PolicyAsked
  <2> QED BY <1>1, <2>1, <2>2
<1> QED BY <1>1, <1>2, <1>3, <1>4, <1>5, OwnerStepReads

LEMMA EnsureReviewReads ==
  ASSUME IInv, ReadInv, NEW w \in Workers,
         EnsurePolicyReview(w) \/ EnsureResponseReview(w) \/ EnsureRecoveredReview(w)
  PROVE  ReadInv'
<1>1. /\ Owner(w) /\ req[w].pc \in {"policy_review", "response_review", "recover_review"}
      /\ claim \in Claims /\ req[w].marker \in Claims
  BY DEF EnsurePolicyReview, EnsureResponseReview, EnsureRecoveredReview, AtStage, Owner, Held,
         IInv, TypeInv, TypeOK, Requests
<1>2. Awaited
  BY <1>1 DEF ReadInv, Standing, ReviewPcs
<1>3. CASE EnsurePolicyReview(w)
  <2>1. \E r \in OwnRows(policyRows, claim.appr) : r.route = "human_approval"
    BY <1>1, <1>3 DEF IInv, SafeInv, Progress, Placed, EnsurePolicyReview, AtStage
  <2> QED BY <1>1, <1>2, <1>3, <2>1, EnsureReads DEF EnsurePolicyReview
<1>4. CASE EnsureResponseReview(w)
  BY <1>1, <1>2, <1>4, EnsureReads DEF EnsureResponseReview
<1>5. CASE EnsureRecoveredReview(w)
  BY <1>1, <1>2, <1>5, EnsureReads DEF EnsureRecoveredReview
<1> QED BY <1>3, <1>4, <1>5

\* Policy runs while nobody is asked anything, and asks one question or none.
LEMMA PersistPolicyOpens ==
  ASSUME IInv, NEW w \in Workers, NEW d \in PolicyDecisions, NEW b \in BOOLEAN,
         PersistPolicy(w, d, b)
  PROVE  /\ OwnRows(policyRows, claim.appr) = {}
         /\ \/ /\ PolicyNextAgent(d, b) = "human_approval"
               /\ Pending' = {nAppr + 1}
               /\ appr'[nAppr + 1] = PendingRow("policy", TRUE, d, claim)
            \/ PolicyNextAgent(d, b) # "human_approval" /\ Pending' = {}
<1> DEFINE route == PolicyNextAgent(d, b)
           review == PendingRow("policy", TRUE, d, claim)
<1>0. /\ Owner(w) /\ req[w].pc = "policy" /\ PersistPolicyApproval(d, route, claim)
      /\ appr \in [Approvals -> ApprovalRows] /\ nAppr \in Nat
  BY BoundsAssumption DEF PersistPolicy, AtStage, Owner, Held, IInv, TypeInv, TypeOK
<1>1. PolicyOwed /\ Pending = {} /\ OwnRows(policyRows, claim.appr) = {}
  BY <1>0 DEF IInv, SafeInv, Progress, Placed, PolicyOwed
<1>2. PendingPolicyApprovals = {} /\ review.status = "pending"
  BY <1>1 DEF PendingPolicyApprovals, PendingRow
<1> HIDE DEF review
<1>3. CASE route # "human_approval"
  <2>1. appr' = [a \in Approvals |-> appr[a]]
    BY <1>0, <1>2, <1>3 DEF PersistPolicyApproval
  <2> QED BY <1>1, <1>3, <2>1 DEF Pending
<1>4. CASE route = "human_approval"
  <2>1. InsertReview(review)
    BY <1>0, <1>2, <1>4 DEF PersistPolicyApproval, review
  <2>2. nAppr + 1 \in Approvals
    BY <1>0, <2>1, BoundsAssumption DEF InsertReview, Approvals
  <2>3. \A a \in Approvals : appr'[a] = IF a = nAppr + 1 THEN review ELSE appr[a]
    BY <1>0, <2>1 DEF InsertReview
  <2> QED BY <1>1, <1>2, <1>4, <2>2, <2>3 DEF Pending, review
<1> QED BY <1>1, <1>3, <1>4

LEMMA PersistPolicyReads ==
  ASSUME IInv, ReadInv, NEW w \in Workers, NEW d \in PolicyDecisions, NEW b \in BOOLEAN,
         PersistPolicy(w, d, b)
  PROVE  ReadInv'
<1> DEFINE route == PolicyNextAgent(d, b)
           row == [claim |-> claim, decision |-> d, route |-> route]
           review == PendingRow("policy", TRUE, d, claim)
           status == IF route = "human_approval" THEN "pending_human"
                     ELSE ResponseStatus(appr[claim.appr], route, d)
<1>0. /\ TypeInv /\ Holders /\ req \in [Workers -> Requests] /\ appr \in [Approvals -> ApprovalRows]
      /\ nAppr \in Nat /\ claim.seq \in Nat
      /\ \A r \in policyRows : r.claim.seq \in Nat
  BY BoundsAssumption DEF IInv, SafeInv, TypeInv, TypeOK, Claims
<1>1. /\ Owner(w) /\ req[w].pc = "policy" /\ policyRows' = policyRows \cup {row}
      /\ PersistPolicyApproval(d, route, claim) /\ wf' = PolicyWorkflowState(route)
      /\ req' = [req EXCEPT ![w].pc = EntryOf(route, req[w].refunded), ![w].status = status]
      /\ UNCHANGED <<claim, done, responseRows>>
  BY DEF PersistPolicy, AtStage, Owner, Held
<1>2. claim # NoClaim /\ claim.appr \in Resolved
  BY <1>0, <1>1, OwnerFacts
<1>3. OwnRows(policyRows, claim.appr) = {}
  BY PersistPolicyOpens
<1>4. Resolved' = Resolved
  BY PersistPolicyDecidesNone
<1>5. route \in PolicyRoutes
  BY RoutingTypes
<1>6. row.claim = claim /\ row.decision = d /\ row.route = route
  OBVIOUS
<1>7. review.stage = "policy" /\ review.policy = d /\ review.status = "pending"
  BY DEF PendingRow
<1>9. IF route = "human_approval"
        THEN Pending' = {nAppr + 1} /\ appr'[nAppr + 1] = review
        ELSE Pending' = {}
  BY PersistPolicyOpens
<1> HIDE DEF row, review
<1>10. OwnRows(policyRows, claim.appr)' = {row}
  BY <1>1, <1>3, <1>6 DEF OwnRows
<1>11. Stamped(policyRows)' /\ OwnNewest'
  <2>1. \A s \in policyRows : s.claim.appr # claim.appr /\ s.claim.seq < claim.seq
    <3> SUFFICES ASSUME NEW s \in policyRows
                 PROVE  s.claim.appr # claim.appr /\ s.claim.seq < claim.seq
      OBVIOUS
    <3>1. s.claim.appr # claim.appr
      BY <1>3 DEF OwnRows
    <3>2. s.claim.seq <= claim.seq /\ s.claim.seq # claim.seq
      BY <3>1 DEF IInv, TypeInv, RowsOrdered, ReadInv, Stamped
    <3> QED BY <1>0, <3>1, <3>2
  <2> QED BY <1>0, <1>1, <1>2, <1>4, <1>6, <2>1 DEF ReadInv, Stamped, OwnNewest
<1>12. Stamped(responseRows)'
  BY <1>1, <1>4 DEF ReadInv, Stamped
<1>13. PolicyAsked'
  BY <1>1, <1>6, <1>7, <1>9, <1>10 DEF PolicyAsked
<1>14. route = "human_approval" => Awaited'
  BY <1>6, <1>10 DEF Awaited
<1>15. wf'.status = "pending_human" => Awaited'
  BY <1>1, <1>14 DEF PolicyWorkflowState
<1> HIDE DEF route, status
<1>16. Standing(w)'
  <2>1. req'[w].pc = EntryOf(route, req[w].refunded)
    BY <1>0, <1>1 DEF Requests
  <2>2. \A r \in responseRows' : r.claim # claim'
    BY <1>1 DEF ReadInv, Standing, UnansweredPcs
  <2> QED BY <1>5, <1>14, <2>1, <2>2 DEF EntryOf, PolicyRoutes, Standing, ReviewPcs
<1>17. ASSUME NEW v \in Workers, Owner(v)' PROVE Standing(v)'
  <2>1. CASE v = w
    BY <1>16, <2>1
  <2>2. CASE v # w
    <3>1. req'[v] = req[v]
      BY <1>0, <1>1, <2>2
    <3> QED BY <1>0, <1>1, <1>17, <2>2, <3>1, OthersKept
  <2> QED BY <2>1, <2>2
<1> QED BY <1>11, <1>12, <1>13, <1>15, <1>17 DEF ReadInv

LEMMA PersistResponseReads ==
  ASSUME IInv, ReadInv, NEW w \in Workers, PersistResponse(w)
  PROVE  ReadInv'
<1> DEFINE blocked == req[w].status = "pending_human"
           row == [claim |-> claim, blocked |-> blocked]
           pc == IF blocked THEN "response_review" ELSE "mark"
<1>0. /\ TypeInv /\ Holders /\ req \in [Workers -> Requests] /\ claim.seq \in Nat
      /\ \A r \in responseRows : r.claim.seq \in Nat
  BY DEF IInv, SafeInv, TypeInv, TypeOK, Claims
<1>1. /\ Owner(w) /\ req[w].pc = "persist_response" /\ responseRows' = responseRows \cup {row}
      /\ wf' = TerminalWorkflowState(req[w].status)
      /\ req' = [req EXCEPT ![w].pc = pc]
      /\ UNCHANGED <<appr, claim, policyRows>>
  BY DEF PersistResponse, AtStage, Goto, Owner, Held
<1>2. claim # NoClaim /\ claim.appr \in Resolved /\ Resolved' = Resolved /\ Pending' = Pending
  BY <1>0, <1>1, OwnerFacts DEF Resolved, Pending
<1>3. \A s \in responseRows : s.claim.seq < claim.seq
  <2> SUFFICES ASSUME NEW s \in responseRows PROVE s.claim.seq < claim.seq
    OBVIOUS
  <2>1. s.claim # claim
    BY <1>1 DEF ReadInv, Standing, UnansweredPcs
  <2>2. s.claim.seq <= claim.seq /\ s.claim.seq # claim.seq
    BY <2>1 DEF IInv, TypeInv, RowsOrdered, ReadInv, Stamped
  <2> QED BY <1>0, <2>2
<1>4. Stamped(responseRows)'
  BY <1>0, <1>1, <1>2, <1>3 DEF ReadInv, Stamped
<1>5. Stamped(policyRows)' /\ OwnNewest' /\ PolicyAsked'
  BY <1>1, <1>2 DEF ReadInv, Stamped, OwnNewest, PolicyAsked, OwnRows
<1>6. blocked => Awaited'
  <2> SUFFICES ASSUME blocked PROVE Awaited'
    OBVIOUS
  <2>1. row \in OwnRows(responseRows, claim.appr)' /\ row.blocked /\ row.claim = claim
    BY <1>1 DEF OwnRows
  <2>2. \A s \in responseRows' : s.claim.seq <= row.claim.seq
    BY <1>0, <1>1, <1>3
  <2> QED BY <2>1, <2>2 DEF Awaited
<1>7. wf'.status = "pending_human" => Awaited'
  BY <1>1, <1>6 DEF TerminalWorkflowState
<1>8. Standing(w)'
  <2>1. req'[w].pc = pc /\ req'[w].status = req[w].status
    BY <1>0, <1>1 DEF Requests
  <2> QED BY <1>6, <2>1 DEF Standing, ReviewPcs, UnansweredPcs
<1>9. ASSUME NEW v \in Workers, Owner(v)' PROVE Standing(v)'
  <2>1. CASE v = w
    BY <1>8, <2>1
  <2>2. CASE v # w
    <3>1. req'[v] = req[v]
      BY <1>0, <1>1, <2>2
    <3> QED BY <1>0, <1>1, <1>9, <2>2, <3>1, OthersKept
  <2> QED BY <2>1, <2>2
<1> QED BY <1>4, <1>5, <1>7, <1>9 DEF ReadInv

\* A continuation goes on at a review, and means to pause, only if a Policy row asks for it.
LEMMA ContinueStands ==
  ASSUME TypeInv, NEW row \in ApprovalRows, NEW c \in Claims, c.appr \in Approvals,
         Continue(row, c).pc \in ReviewPcs \/ Continue(row, c).status = "pending_human"
  PROVE  /\ Continue(row, c).pc = "enter_policy_review"
         /\ \E r \in OwnRows(policyRows, c.appr) : r.route = "human_approval"
<1> DEFINE rows == OwnRows(policyRows, c.appr)
           reuse == NextAgent(row) = "policy_agent" /\ rows # {}
           route == IF reuse THEN Latest(rows).route ELSE NextAgent(row)
           policy == IF reuse THEN Latest(rows).decision ELSE row.policy
           status == IF route = "human_approval" THEN "pending_human"
                     ELSE ResponseStatus(row, route, policy)
<1>1. NextAgent(row) \in ReviewNextAgents
  BY DEF NextAgent, ApprovalRows, RejectedNextAgent, ReviewNextAgents
<1>2. rows # {} => Latest(rows) \in rows /\ Latest(rows).route \in PolicyRoutes
  BY LatestIsARow DEF TypeInv, TypeOK, OwnRows
<1>3. /\ Continue(row, c).pc = EntryOf(route, c.appr \in refunds)
      /\ Continue(row, c).status = status
  BY DEF Continue
<1>4. route \in PolicyRoutes \cup ReviewNextAgents /\ (route = "human_approval" => reuse)
  BY <1>1, <1>2 DEF ReviewNextAgents
<1>5. route # "human_approval" => status # "pending_human"
  BY DEF ResponseStatus
<1>6. route = "human_approval" => \E r \in rows : r.route = "human_approval"
  BY <1>2, <1>4
<1> HIDE DEF route, status, rows
<1>7. /\ EntryOf(route, c.appr \in refunds) \in ReviewPcs => route = "human_approval"
      /\ route = "human_approval" => EntryOf(route, c.appr \in refunds) = "enter_policy_review"
  BY <1>4 DEF EntryOf, PolicyRoutes, ReviewNextAgents, ReviewPcs
<1> QED BY <1>3, <1>5, <1>6, <1>7 DEF rows

\* A new claim makes its request the only one that can write.
LEMMA NewClaimOwner ==
  ASSUME IInv, IInv', NEW w \in Workers, claim'.seq = claim.seq + 1,
         \A v \in Workers : v # w => req'[v] = req[v],
         NEW v \in Workers, Owner(v)'
  PROVE  v = w
<1>1. req'[v].claim = claim'
  BY InvOwnersNext DEF OwnersHold
<1>2. CASE v # w
  <2>1. Held(v) /\ req[v].claim = claim'
    BY <1>1, <1>2 DEF Owner, Held
  <2>2. req[v].claim.seq <= claim.seq /\ claim.seq \in Nat
    BY <2>1 DEF IInv, SafeInv, Holders, TypeInv, TypeOK, Claims, Requests
  <2> QED BY <2>1, <2>2
<1> QED BY <1>2

\* Rows that were in order stay so under a claim newer than all of them.
LEMMA NewClaimStamped ==
  ASSUME IInv, Resolved \subseteq Resolved', claim'.seq = claim.seq + 1, NEW rows,
         \A r \in rows : r.claim.seq <= claim.seq /\ r.claim \in Claims,
         \A r \in rows : r.claim = NoClaim \/ r.claim.appr \in Resolved,
         \A r, s \in rows : r.claim.seq = s.claim.seq => r = s
  PROVE  /\ \A r \in rows : r.claim = NoClaim \/ r.claim.appr \in Resolved'
         /\ \A r \in rows : r.claim.seq # claim'.seq
         /\ \A r, s \in rows : r.claim.seq = s.claim.seq => r = s
<1>1. claim.seq \in Nat /\ \A r \in rows : r.claim.seq \in Nat
  BY DEF IInv, TypeInv, TypeOK, Claims
<1> QED BY <1>1

LEMMA DecideReviewReads ==
  ASSUME IInv, ReadInv, IInv', NEW w \in Workers, NEW a \in Approvals, NEW d \in ReviewDecisions,
         DecideReview(w, a, d)
  PROVE  ReadInv'
<1> DEFINE new == [appr[a] EXCEPT !.status = ResolutionStatus(d), !.decision = d]
<1>0. /\ TypeInv /\ req \in [Workers -> Requests] /\ appr \in [Approvals -> ApprovalRows]
  BY DEF IInv, TypeInv, TypeOK
<1>1. /\ a \in Pending /\ AppendClaim(w, a) /\ appr' = [appr EXCEPT ![a] = new]
      /\ wf' = IF NextAgent(new) = "end" THEN TerminalWorkflowState("completed")
               ELSE [status |-> "running", agent |-> NextAgent(new)]
      /\ req' = [req EXCEPT ![w] = Continue(new, claim')]
      /\ UNCHANGED <<policyRows, responseRows, refunds>>
  BY DEF DecideReview
<1>2. /\ claim' \in Claims /\ claim'.appr = a /\ claim'.seq = claim.seq + 1
  BY <1>0, <1>1, NewClaim
<1>3. new \in ApprovalRows /\ new.status \in {"approved", "rejected"}
  BY <1>0, RoutingTypes DEF ApprovalRows
<1> HIDE DEF new
<1>4. \A b \in Approvals : appr'[b] = IF b = a THEN new ELSE appr[b]
  BY <1>0, <1>1
<1>5. /\ Pending = {a} /\ Pending' = {} /\ Resolved \subseteq Resolved' /\ a \notin Resolved
  <2>1. Pending = {a}
    BY <1>1 DEF IInv, SafeInv, Lineage
  <2> QED BY <1>3, <1>4, <2>1 DEF Pending, Resolved
<1>6. \A rows \in {policyRows, responseRows} :
        /\ \A r \in rows : r.claim.seq <= claim.seq /\ r.claim \in Claims
        /\ \A r \in rows : r.claim = NoClaim \/ r.claim.appr \in Resolved
        /\ \A r, s \in rows : r.claim.seq = s.claim.seq => r = s
  BY <1>0 DEF TypeInv, TypeOK, RowsOrdered, ReadInv, Stamped
<1>7. \A rows \in {policyRows, responseRows} :
        /\ \A r \in rows : r.claim = NoClaim \/ r.claim.appr \in Resolved'
        /\ \A r \in rows : r.claim.seq # claim'.seq
        /\ \A r, s \in rows : r.claim.seq = s.claim.seq => r = s
  BY <1>2, <1>5, <1>6, NewClaimStamped
<1>8. Stamped(policyRows)' /\ Stamped(responseRows)'
  BY <1>1, <1>7 DEF Stamped
<1>9. \A r \in policyRows : r.claim.appr # a
  BY <1>5, <1>6, NoClaimType
<1>10. OwnRows(policyRows, a) = {} /\ OwnRows(policyRows', a) = {}
  BY <1>1, <1>9 DEF OwnRows
<1>11. OwnNewest'
  BY <1>1, <1>2, <1>9 DEF OwnNewest
<1>12. PolicyAsked'
  BY <1>2, <1>5, <1>10 DEF PolicyAsked, OwnRows
<1>13. wf'.status # "pending_human"
  BY <1>1 DEF TerminalWorkflowState
<1>14. ASSUME NEW v \in Workers, Owner(v)' PROVE Standing(v)'
  <2>1. \A u \in Workers : req'[u] = IF u = w THEN Continue(new, claim') ELSE req[u]
    BY <1>0, <1>1
  <2>2. v = w
    BY <1>2, <1>14, <2>1, NewClaimOwner
  <2>3. /\ Continue(new, claim').pc \notin ReviewPcs
        /\ Continue(new, claim').status # "pending_human"
    BY <1>0, <1>2, <1>3, <1>10, ContinueStands
  <2>4. \A r \in responseRows' : r.claim # claim'
    BY <1>1, <1>7
  <2>5. req'[v] = Continue(new, claim')
    BY <2>1, <2>2
  <2> QED BY <2>3, <2>4, <2>5 DEF Standing
<1> QED BY <1>8, <1>11, <1>12, <1>13, <1>14 DEF ReadInv

LEMMA RetryContinuationReads ==
  ASSUME IInv, ReadInv, IInv', NEW w \in Workers, NEW a \in Approvals, RetryContinuation(w, a)
  PROVE  ReadInv'
<1> DEFINE new == IF wf.status \in TerminalStatuses THEN Recovery(claim')
                  ELSE Continue(appr[a], claim')
<1>0. TypeInv /\ req \in [Workers -> Requests] /\ appr \in [Approvals -> ApprovalRows]
  BY DEF IInv, TypeInv, TypeOK
<1>1. /\ a \in Resolved /\ a \notin Finished /\ AppendClaim(w, a)
      /\ req' = [req EXCEPT ![w] = new]
      /\ UNCHANGED <<wf, appr, policyRows, responseRows, refunds>>
  BY DEF RetryContinuation
<1>2. claim # NoClaim /\ claim.appr = a
  BY <1>1 DEF IInv, SafeInv, Lineage
<1>3. claim' \in Claims /\ claim'.appr = a /\ claim'.seq = claim.seq + 1
  BY <1>0, <1>1, NewClaim
<1>4. Pending' = Pending /\ Resolved' = Resolved
  BY <1>1 DEF Pending, Resolved
<1>5. \A rows \in {policyRows, responseRows} :
        /\ \A r \in rows : r.claim.seq <= claim.seq /\ r.claim \in Claims
        /\ \A r \in rows : r.claim = NoClaim \/ r.claim.appr \in Resolved
        /\ \A r, s \in rows : r.claim.seq = s.claim.seq => r = s
  BY <1>0 DEF TypeInv, TypeOK, RowsOrdered, ReadInv, Stamped
<1>6. \A rows \in {policyRows, responseRows} :
        /\ \A r \in rows : r.claim = NoClaim \/ r.claim.appr \in Resolved'
        /\ \A r \in rows : r.claim.seq # claim'.seq
        /\ \A r, s \in rows : r.claim.seq = s.claim.seq => r = s
  BY <1>3, <1>4, <1>5, NewClaimStamped
<1>7. Stamped(policyRows)' /\ Stamped(responseRows)'
  BY <1>1, <1>6 DEF Stamped
<1>8. \A rows : OwnRows(rows, claim'.appr) = OwnRows(rows, claim.appr)
  BY <1>2, <1>3
<1>9. OwnNewest' /\ PolicyAsked'
  BY <1>1, <1>2, <1>3, <1>4, <1>8 DEF ReadInv, OwnNewest, PolicyAsked, OwnRows
<1>10. Awaited' <=> Awaited
  BY <1>1, <1>2, <1>3 DEF Awaited, OwnRows
<1>11. ASSUME NEW v \in Workers, Owner(v)' PROVE Standing(v)'
  <2>1. \A u \in Workers : req'[u] = IF u = w THEN new ELSE req[u]
    BY <1>0, <1>1
  <2>2. v = w
    BY <1>3, <1>11, <2>1, NewClaimOwner
  <2>3. \A r \in responseRows' : r.claim # claim'
    BY <1>1, <1>6
  <2>4. req'[v] = new
    BY <2>1, <2>2
  <2>5. CASE wf.status \in TerminalStatuses
    <3>1. /\ Recovery(claim').pc = IF wf.status = "pending_human" THEN "enter_recover_review"
                                   ELSE "recover_mark"
          /\ Recovery(claim').status = wf.status
      BY DEF Recovery
    <3>2. wf.status = "pending_human" => Awaited'
      BY <1>2, <1>10 DEF ReadInv
    <3> QED BY <2>4, <2>5, <3>1, <3>2 DEF Standing, ReviewPcs, UnansweredPcs
  <2>6. CASE wf.status \notin TerminalStatuses
    <3>1. appr[a] \in ApprovalRows
      BY <1>0
    <3>2. (\/ Continue(appr[a], claim').pc \in ReviewPcs
           \/ Continue(appr[a], claim').status = "pending_human") =>
             \E r \in OwnRows(policyRows, a) : r.route = "human_approval"
      BY <1>0, <1>3, <3>1, ContinueStands
    <3>3. (\E r \in OwnRows(policyRows, a) : r.route = "human_approval") => Awaited'
      BY <1>2, <1>10 DEF Awaited
    <3> QED BY <2>3, <2>4, <2>6, <3>2, <3>3 DEF Standing
  <2> QED BY <2>5, <2>6
<1>12. (claim' # NoClaim /\ wf'.status = "pending_human") => Awaited'
  BY <1>1, <1>2, <1>10 DEF ReadInv
<1> QED BY <1>7, <1>9, <1>11, <1>12 DEF ReadInv

LEMMA ReadStep == IInv /\ ReadInv /\ [Next]_vars => ReadInv'
<1> SUFFICES ASSUME IInv, ReadInv, [Next]_vars PROVE ReadInv'
  OBVIOUS
<1>0. IInv' /\ req \in [Workers -> Requests]
  BY InvStep DEF IInv, TypeInv, TypeOK
<1>1. CASE LeaseExpires \/ UNCHANGED vars
  BY <1>1, MovedReads DEF LeaseExpires, vars, dbVars
<1>2. ASSUME NEW w \in Workers, Resolve(w) PROVE ReadInv'
  BY <1>0, <1>2, DecideReviewReads, RetryContinuationReads DEF Resolve
<1>3. ASSUME NEW w \in Workers, RunStage(w) PROVE ReadInv'
  <2>1. CASE EnterStep(w)
    BY <2>1, EnterStepReads
  <2>2. CASE Heartbeat(w)
    BY <2>2, MovedReads DEF Heartbeat
  <2>3. CASE \E d \in PolicyDecisions, b \in BOOLEAN : PersistPolicy(w, d, b)
    BY <2>3, PersistPolicyReads
  <2>4. CASE EnsurePolicyReview(w) \/ EnsureResponseReview(w) \/ EnsureRecoveredReview(w)
    BY <2>4, EnsureReviewReads
  <2>5. CASE PersistRefund(w)
    BY <2>5, PersistRefundReads
  <2>6. CASE \E b \in BOOLEAN : SaveResponseGovernance(w, b)
    BY <2>6, SaveResponseGovernanceReads
  <2>7. CASE PersistResponse(w)
    BY <2>7, PersistResponseReads
  <2>8. CASE MarkContinuation(w)
    BY <2>8, MarkContinuationReads
  <2> QED BY <1>3, <2>1, <2>2, <2>3, <2>4, <2>5, <2>6, <2>7, <2>8 DEF RunStage
<1>4. ASSUME NEW w \in Workers, Fail(w) PROVE ReadInv'
  <2>1. CASE StepFails(w) \/ RequestEnds(w)
    <3>1. \A v \in Workers : req'[v] = req[v] \/ req'[v].pc \in {"failing", "idle"}
      BY <1>0, <2>1 DEF StepFails, RequestEnds, Goto, Requests, Idle
    <3> QED BY <2>1, <3>1, MovedReads DEF StepFails, RequestEnds, dbVars
  <2>2. CASE RecordFailure(w)
    <3>1. /\ Owner(w) /\ req' = [req EXCEPT ![w] = Idle] /\ wf'.status = "failed"
          /\ UNCHANGED <<appr, claim, policyRows, responseRows>>
      BY <2>2 DEF RecordFailure, AtStage, Owner, Held
    <3>2. Resolved' = Resolved
      BY <3>1 DEF Resolved
    <3>3. Standing(w)'
      BY <1>0, <3>1 DEF Idle, Standing, ReviewPcs, UnansweredPcs
    <3> QED BY <3>1, <3>2, <3>3, RowsRead, OwnerStepReads
  <2> QED BY <1>4, <2>1, <2>2 DEF Fail
<1> QED BY <1>1, <1>2, <1>3, <1>4 DEF Next

------------------------------------------------------------------------------------
(* What a decision is applied to: the rows of the run.                              *)

LEMMA FirstReadRun ==
  ASSUME CaseInv, FirstRead, InitialRun
  PROVE  FirstRead'
<1> SUFFICES ASSUME claim' = NoClaim PROVE FirstRead'
  BY DEF FirstRead
<1>0. /\ claim = NoClaim /\ run \in [node : RunNodes, decision : PolicyDecisions \cup {"none"},
                                     stage : Stages, blocked : BOOLEAN, paused : BOOLEAN]
      /\ nAppr \in Nat /\ 1 \in Approvals /\ appr \in [Approvals -> ApprovalRows]
  BY RunIsRunning, BoundsAssumption DEF CaseInv, CaseTypes, TypeInv, TypeOK, Approvals
<1>1. CASE (\E b \in BOOLEAN : TriageGovernance(b)) \/ RunRefund \/ VerifyPersisted \/ RunRaises
           \/ RecordWorkflowFailure \/ RunDies
           \/ \E n \in {"policy_agent", "response_agent", "human_approval"} : PersistTriage(n)
  <2>1. /\ UNCHANGED <<nAppr, appr, policyRows, responseRows>>
        /\ run'.node \in {"failing", "end"} \/ Untouched
        /\ run'.node # "human_approval" \/ run'.stage = "triage"
    <3>1. CASE \E b \in BOOLEAN : TriageGovernance(b)
      BY <1>0, <3>1 DEF TriageGovernance, Running, CaseInv, Opening
    <3>2. CASE RunRefund
      BY <1>0, <3>2 DEF RunRefund, Running, Proceed, CaseInv, Opening
    <3>3. CASE VerifyPersisted \/ RunRaises \/ RecordWorkflowFailure \/ RunDies
      BY <1>0, <3>3 DEF VerifyPersisted, RunRaises, RecordWorkflowFailure, RunDies, Running,
                        Proceed, vars, dbVars
    <3>4. CASE \E n \in {"policy_agent", "response_agent", "human_approval"} : PersistTriage(n)
      BY <1>0, <3>4 DEF PersistTriage, Running, Proceed, CaseInv, Opening
    <3> QED BY <1>1, <3>1, <3>2, <3>3, <3>4
  <2> QED BY <1>0, <2>1 DEF FirstRead, Untouched
<1>2. ASSUME NEW d \in PolicyDecisions, NEW b \in BOOLEAN, RunPolicy(d, b) PROVE FirstRead'
  <2> DEFINE row == [claim |-> NoClaim, decision |-> d, route |-> PolicyNextAgent(d, b)]
             review == PendingRow("policy", TRUE, d, NoClaim)
  <2>1. /\ Untouched /\ run'.stage = "policy" /\ UNCHANGED responseRows
        /\ policyRows' = {row} /\ row.decision = d
        /\ PersistPolicyApproval(d, PolicyNextAgent(d, b), NoClaim)
    BY <1>0, <1>2 DEF RunPolicy, Running, CaseInv, Opening
  <2>2. PendingPolicyApprovals = {} /\ nAppr = 0
    BY <2>1 DEF Untouched, PendingPolicyApprovals, Pending, AbsentRow
  <2>3. nAppr' # 0 => appr'[1] = review
    <3> DEFINE route == PolicyNextAgent(d, b)
    <3> HIDE DEF route, review
    <3>1. nAppr' = 0 \/ appr' = [appr EXCEPT ![1] = review]
      <4>1. PersistPolicyApproval(d, route, NoClaim)
        BY <2>1 DEF route
      <4>2. UNCHANGED nAppr \/ InsertReview(review)
        BY <2>2, <4>1 DEF PersistPolicyApproval, review
      <4> QED BY <2>2, <4>2 DEF InsertReview
    <3> QED BY <1>0, <3>1
  <2>4. review.stage = "policy" /\ review.policy = d
    BY DEF PendingRow
  <2> HIDE DEF row, review
  <2> QED BY <1>0, <2>1, <2>3, <2>4 DEF FirstRead
<1>3. CASE HumanApprovalNode
  <2>1. /\ run.node = "human_approval" /\ run'.node \in {"verify", "response_governance"}
        /\ run'.stage = run.stage /\ (run.stage = "response" => run'.node = "verify")
        /\ UNCHANGED <<policyRows, responseRows>>
    BY <1>0, <1>3 DEF HumanApprovalNode, Running, AfterHumanApproval
  <2>2. CASE UNCHANGED <<nAppr, appr>>
    BY <1>0, <2>1, <2>2 DEF FirstRead
  <2>3. ASSUME Pending = {}, NEW m, InsertReview(PendingRow(run.stage, FALSE, run.decision, m))
        PROVE  FirstRead'
    <3> DEFINE review == PendingRow(run.stage, FALSE, run.decision, m)
    <3>1. nAppr = 0
      <4>1. nAppr # 0 => nAppr = 1 /\ appr[1].status = "pending"
        BY <1>0 DEF CaseInv, Undecided, InitialReviews, PendingRow
      <4> QED BY <1>0, <2>3, <4>1 DEF Pending
    <3>2. run.stage # "policy" /\ review.stage = run.stage
      BY <1>0, <2>1, <3>1 DEF CaseInv, Undecided, PendingRow
    <3>3. appr' = [appr EXCEPT ![1] = review]
      BY <2>3, <3>1 DEF InsertReview
    <3> HIDE DEF review
    <3>4. appr'[1].stage = run.stage
      BY <1>0, <3>2, <3>3
    <3> QED BY <1>0, <2>1, <3>2, <3>4 DEF FirstRead
  <2> QED BY <1>3, <2>2, <2>3 DEF HumanApprovalNode
<1>4. ASSUME NEW b \in BOOLEAN, RunResponseGovernance(b) PROVE FirstRead'
  <2>1. /\ run.node = "response_governance" /\ run'.node = "response"
        /\ UNCHANGED <<nAppr, appr, policyRows, responseRows>>
    BY <1>0, <1>4 DEF RunResponseGovernance, Running
  <2> QED BY <1>0, <2>1 DEF FirstRead
<1>5. CASE RunPersistResponse
  <2>1. /\ run.node = "response" /\ responseRows' = {[claim |-> NoClaim, blocked |-> run.blocked]}
        /\ run'.node = (IF run.blocked THEN "human_approval" ELSE "verify")
        /\ UNCHANGED <<nAppr, appr, policyRows>>
    BY <1>0, <1>5 DEF RunPersistResponse, Running, Proceed
  <2> QED BY <1>0, <2>1 DEF FirstRead, HeldDraft
<1> QED BY <1>1, <1>2, <1>3, <1>4, <1>5 DEF InitialRun

LEMMA FirstReadStep == CaseInv /\ FirstRead /\ [CaseNext]_caseVars => FirstRead'
<1> SUFFICES ASSUME CaseInv, FirstRead, [CaseNext]_caseVars PROVE FirstRead'
  OBVIOUS
<1>1. CASE [Next]_vars /\ UNCHANGED run
  BY <1>1, QuietStep DEF FirstRead
<1>2. ([Next]_vars /\ UNCHANGED run) \/ InitialRun
  BY DEF CaseNext, Continuation, Next, caseVars
<1> QED BY <1>1, <1>2, FirstReadRun

LEMMA UndecidedReads == CaseInv /\ FirstRead /\ claim = NoClaim => ReadInv
<1> SUFFICES ASSUME CaseInv, FirstRead, claim = NoClaim PROVE ReadInv
  OBVIOUS
<1>1. Stamped(policyRows) /\ Stamped(responseRows) /\ OwnNewest
  BY DEF CaseInv, Undecided, FirstRead, Stamped, OwnNewest
<1>2. \A w \in Workers : ~Owner(w)
  BY DEF CaseInv, Undecided, Owner, Held, Idle
<1> QED BY <1>1, <1>2 DEF ReadInv, PolicyAsked

LEMMA UndecidedReadsNext == (CaseInv /\ FirstRead /\ claim = NoClaim)' => ReadInv'
BY UndecidedReads, PTL

LEMMA OrderlyReadStep ==
  CaseInv /\ FirstRead /\ Orderly /\ OrderlyReads /\ [StatusNext]_statusVars => OrderlyReads'
<1> SUFFICES ASSUME CaseInv, FirstRead, Orderly, OrderlyReads, [StatusNext]_statusVars, ~early'
             PROVE  ReadInv'
  BY DEF OrderlyReads
<1>1. CaseInv' /\ FirstRead'
  BY StatusIsCase, CaseStep, FirstReadStep
<1>2. CASE claim' = NoClaim
  BY <1>1, <1>2, UndecidedReadsNext
<1>3. CASE [Next]_vars /\ run' = run
  BY <1>3, OrderlySteps, ReadStep DEF OrderlyReads
<1> QED BY <1>2, <1>3, OrderlySteps

LEMMA ReadsHold == StatusSpec => []FirstRead /\ []OrderlyReads
<1>1. StatusInit => CaseInv /\ FirstRead /\ OrderlyReads
  <2>1. StatusInit => CaseInv
    BY InitCase DEF StatusInit
  <2>2. StatusInit => FirstRead /\ claim = NoClaim
    BY DEF StatusInit, CaseInit, FirstRead
  <2> QED BY <2>1, <2>2, UndecidedReads DEF OrderlyReads
<1>2. CaseInv /\ FirstRead /\ Orderly /\ OrderlyReads /\ [StatusNext]_statusVars =>
        (FirstRead /\ OrderlyReads)'
  BY StatusIsCase, FirstReadStep, OrderlyReadStep
<1> QED BY <1>1, <1>2, StatusInvHolds, PTL DEF StatusSpec

------------------------------------------------------------------------------------
(* What a decision is applied to: the theorem.                                      *)

\* The newest row is the one all others are older than.
LEMMA LatestIs ==
  ASSUME NEW rows, NEW r \in rows,
         \A s \in rows : s.claim.seq \in Nat /\ s.claim.seq <= r.claim.seq,
         \A s \in rows : s.claim.seq = r.claim.seq => s = r
  PROVE  Latest(rows) = r
<1>1. \A x \in rows : (\A s \in rows : s.claim.seq <= x.claim.seq) => x = r
  <2> SUFFICES ASSUME NEW x \in rows, \A s \in rows : s.claim.seq <= x.claim.seq PROVE x = r
    OBVIOUS
  <2>1. r.claim.seq <= x.claim.seq /\ x.claim.seq <= r.claim.seq
    OBVIOUS
  <2> QED BY <2>1
<1> QED BY <1>1 DEF Latest

\* While no review but a newer one was decided, all rows are in scope of an undecided one.
LEMMA AllInScope ==
  ASSUME CaseInv, SafeInv, ReadInv, NEW a \in Decidable
  PROVE  Scope(policyRows, a) = policyRows /\ Scope(responseRows, a) = responseRows
<1>0. /\ TypeInv /\ a \in Approvals /\ a \notin Resolved /\ a # 0
      /\ ParentContinuationComplete(a) /\ a \in Pending
  BY NoClaimType DEF CaseInv, CaseTypes, Decidable, Pending, Resolved
<1>1. claim \in Claims /\ claim.seq \in Nat
  BY <1>0 DEF TypeInv, TypeOK, Claims
<1>2. \A r \in policyRows \cup responseRows :
        /\ r.claim.seq \in Nat /\ r.claim.seq <= claim.seq /\ r.claim.appr # a
  BY <1>0, NoClaimType DEF TypeInv, TypeOK, RowsOrdered, Claims, ReadInv, Stamped
<1>3. Origin(a) = claim.seq
  <2>1. CASE claim = NoClaim
    BY <1>0, <2>1, NoClaimType DEF SafeInv, Lineage, Origin
  <2>2. CASE claim # NoClaim
    <3>1. /\ appr[a].trigger # NoClaim /\ appr[a].trigger.appr = claim.appr
          /\ appr[a].trigger.seq <= claim.seq
      BY <1>0, <2>2 DEF SafeInv, Lineage
    <3>2. claim.appr \in Finished
      BY <1>0, <2>2, <3>1 DEF ParentContinuationComplete, Finished, TypeInv, ClaimOK
    <3>3. done[claim.appr].claim = claim
      BY <2>2, <3>2 DEF SafeInv, Lineage
    <3> QED BY <3>1, <3>3 DEF Origin
  <2> QED BY <2>1, <2>2
<1> QED BY <1>2, <1>3 DEF Scope, InScope

LEMMA ReadsReviewed == CaseInv /\ FirstRead /\ Orderly /\ OrderlyReads => ReadsWhatWasReviewed
<1> SUFFICES ASSUME CaseInv, FirstRead, SafeInv, ReadInv, NEW a \in Decidable
             PROVE  /\ policyRows # {} => ReadBack(policyRows, a) = Latest(policyRows)
                    /\ appr[a].stage = "policy" =>
                         ReadBack(policyRows, a).decision = appr[a].policy
                    /\ appr[a].stage = "response" =>
                         /\ ReadBack(responseRows, a) = Latest(responseRows)
                         /\ ReadBack(responseRows, a).blocked
  BY DEF Orderly, OrderlyReads, ReadsWhatWasReviewed
<1>0. /\ TypeInv /\ a \in Approvals /\ a \in Pending /\ ParentContinuationComplete(a)
      /\ \A r \in policyRows \cup responseRows : r.claim.seq \in Nat
      /\ nAppr \in Nat
  BY DEF CaseInv, CaseTypes, Decidable, Pending, TypeInv, TypeOK, Claims
<1>1. /\ ReadBack(policyRows, a) = Latest(policyRows)
      /\ ReadBack(responseRows, a) = Latest(responseRows)
  BY AllInScope DEF ReadBack
<1>2. CASE claim = NoClaim
  <2>1. a = 1 /\ nAppr # 0
    <3>1. appr[a] # AbsentRow
      BY <1>0 DEF Pending, AbsentRow
    <3>2. ~(a > nAppr) /\ (nAppr # 0 => nAppr = 1)
      BY <1>0, <1>2, <3>1 DEF CaseInv, Undecided
    <3> QED BY <1>0, <3>2 DEF Approvals
  <2>2. ASSUME appr[a].stage = "policy" PROVE Latest(policyRows).decision = appr[a].policy
    <3>1. PICK r \in policyRows : r.decision = appr[a].policy
      BY <1>2, <2>1, <2>2 DEF FirstRead
    <3>2. \A s \in policyRows : s = r
      BY <1>2 DEF CaseInv, Undecided
    <3>3. Latest(policyRows) = r
      BY <1>0, <3>2, LatestIs
    <3> QED BY <3>1, <3>3
  <2>3. ASSUME appr[a].stage = "response" PROVE Latest(responseRows).blocked
    <3>1. responseRows = {HeldDraft}
      BY <1>2, <2>1, <2>3 DEF FirstRead
    <3>2. PICK r \in responseRows : r = HeldDraft
      BY <3>1
    <3>3. \A s \in responseRows : s = r
      BY <3>1, <3>2
    <3>4. Latest(responseRows) = r
      BY <1>0, <3>3, LatestIs
    <3> QED BY <3>2, <3>4 DEF HeldDraft
  <2> QED BY <1>1, <2>2, <2>3
<1>3. CASE claim # NoClaim
  <2>1. /\ appr[a].trigger # NoClaim /\ appr[a].trigger.appr = claim.appr
        /\ \A b \in Pending : b = a
    BY <1>0, <1>3 DEF SafeInv, Lineage
  <2>2. claim.appr \in Finished /\ done[claim.appr].status = "pending_human"
    BY <1>0, <1>3, <2>1 DEF ParentContinuationComplete, Finished, TypeInv, ClaimOK
  <2>3. wf.status = "pending_human"
    BY <2>2 DEF SafeInv, Lineage, TerminalAgreement, TerminalWorkflowState
  <2>4. Awaited
    BY <1>3, <2>3 DEF ReadInv
  <2>5. ASSUME appr[a].stage = "policy" PROVE Latest(policyRows).decision = appr[a].policy
    <3>1. PICK r \in OwnRows(policyRows, claim.appr) : r.decision = appr[a].policy
      BY <1>0, <1>3, <2>5 DEF ReadInv, PolicyAsked
    <3>2. r \in policyRows /\ r.claim.appr = claim.appr
      BY DEF OwnRows
    <3>3. \A s \in policyRows : s.claim.seq <= r.claim.seq
      <4> SUFFICES ASSUME NEW s \in policyRows PROVE s.claim.seq <= r.claim.seq
        OBVIOUS
      <4>1. CASE s.claim.appr = claim.appr
        <5>1. s = r
          BY <3>2, <4>1 DEF SafeInv, Progress, PolicyOnce
        <5> QED BY <1>0, <3>2, <5>1
      <4>2. CASE s.claim.appr # claim.appr
        BY <1>0, <3>2, <4>2 DEF ReadInv, OwnNewest
      <4> QED BY <4>1, <4>2
    <3>4. \A s \in policyRows : s.claim.seq = r.claim.seq => s = r
      BY <3>2 DEF ReadInv, Stamped
    <3>5. Latest(policyRows) = r
      BY <1>0, <3>2, <3>3, <3>4, LatestIs
    <3> QED BY <3>1, <3>5
  <2>6. ASSUME appr[a].stage = "response" PROVE Latest(responseRows).blocked
    <3>1. ~\E r \in OwnRows(policyRows, claim.appr) : r.route = "human_approval"
      BY <1>3, <2>1, <2>6 DEF ReadInv, PolicyAsked
    <3>2. PICK r \in OwnRows(responseRows, claim.appr) :
                 r.blocked /\ \A s \in responseRows : s.claim.seq <= r.claim.seq
      BY <2>4, <3>1 DEF Awaited
    <3>3. r \in responseRows
      BY DEF OwnRows
    <3>4. \A s \in responseRows : s.claim.seq = r.claim.seq => s = r
      BY <3>3 DEF ReadInv, Stamped
    <3>5. Latest(responseRows) = r
      BY <1>0, <3>2, <3>3, <3>4, LatestIs
    <3> QED BY <3>2, <3>5
  <2> QED BY <1>1, <2>5, <2>6
<1> QED BY <1>2, <1>3

\* A decision is applied to what its reviewer saw, over any number of runs, reviews and
\* attempts: the state rebuilt for a review that may be decided has the newest rows of the
\* trace, the Policy decision it was opened for and the draft it holds back.
THEOREM DecisionsReadTheirReview == StatusSpec => []ReadsWhatWasReviewed
BY ReadsReviewed, StatusInvHolds, ReadsHold, PTL

------------------------------------------------------------------------------------
(* What holds a case back.                                                          *)

ResponseClaims == {b.claim : b \in {e \in blocks : e.stage = "response"}} \cup allowed

\* No event is newer than the claim, and Policy writes one only with a row.
Marked ==
  /\ \A b \in blocks :
       /\ b.claim.seq <= claim.seq
       /\ b.stage = "triage" => b.claim = NoClaim
       /\ b.stage = "policy" => \E r \in policyRows : r.claim = b.claim
  /\ \A c \in allowed : c.seq <= claim.seq

\* A decided review was opened by an earlier one, and the pending one alone by the last; a
\* Policy review by the row that asked for it.
Chained ==
  /\ \A s \in Resolved :
       /\ appr[s].trigger = NoClaim \/ appr[s].trigger.appr \in Resolved
       /\ claim # NoClaim => appr[s].trigger.appr # claim.appr
  /\ claim # NoClaim => \A a \in Pending : appr[a].stage = "policy" =>
                          \E r \in OwnRows(policyRows, claim.appr) : r.claim = appr[a].trigger

\* The newest verdict on a draft of the continuation under way holds it back.
DraftHeld ==
  \E b \in blocks : /\ b.stage = "response" /\ b.claim.appr = claim.appr
                    /\ \A c \in ResponseClaims : c.seq <= b.claim.seq

HeldBack == (\E r \in OwnRows(policyRows, claim.appr) : r.route = "human_approval") \/ DraftHeld

\* A pause is recorded only of what is held back, and the verdict comes before the draft.
Recording(w) ==
  /\ req[w].pc \in ReviewPcs => HeldBack
  /\ (req[w].pc \in {"persist_response", "mark", "recover_mark"}
        /\ req[w].status = "pending_human") => HeldBack
  /\ req[w].pc \in {"enter_refund", "refund", "enter_response", "response"} =>
       req[w].status # "pending_human"
  /\ req[w].pc \in UnansweredPcs => wf.status # "pending_human"

EventInv ==
  /\ Marked /\ Chained
  /\ (claim # NoClaim /\ wf.status = "pending_human") => HeldBack
  /\ \A w \in Workers : Owner(w) => Recording(w)

OrderlyEvents == ~early => EventInv

\* Before the first decision the events are the run's too.
FirstEvents ==
  claim = NoClaim =>
    /\ allowed \subseteq {NoClaim}
    /\ \A b \in blocks : b.stage = "policy" => policyRows # {}

LEMMA HeldBackKept ==
  ASSUME UNCHANGED <<policyRows, blocks, allowed>>, claim'.appr = claim.appr
  PROVE  HeldBack' <=> HeldBack
<1>1. OwnRows(policyRows, claim.appr)' = OwnRows(policyRows, claim.appr)
  BY DEF OwnRows
<1>2. ResponseClaims' = ResponseClaims
  BY DEF ResponseClaims
<1> QED BY <1>1, <1>2 DEF HeldBack, DraftHeld

LEMMA MarkedKept ==
  ASSUME Marked, UNCHANGED <<claim, policyRows, blocks, allowed>>
  PROVE  Marked'
BY DEF Marked

LEMMA ChainedKept ==
  ASSUME Chained, UNCHANGED <<claim, policyRows, appr>>
  PROVE  Chained'
<1>1. Resolved' = Resolved /\ Pending' = Pending
  BY DEF Resolved, Pending
<1> QED BY <1>1 DEF Chained, OwnRows

LEMMA MovedEvents ==
  ASSUME IInv, EventInv,
         UNCHANGED <<wf, nAppr, appr, claim, revoked, done, policyRows, blocks, allowed>>,
         \A v \in Workers : req'[v] = req[v] \/ req'[v].pc \in {"failing", "idle"}
  PROVE  EventInv'
<1>1. ASSUME NEW v \in Workers, Owner(v)' PROVE Recording(v)'
  <2>1. CASE req'[v] = req[v]
    <3>1. Owner(v)
      BY <1>1, <2>1 DEF Owner, Held, ActiveApprovalClaim, Token
    <3>2. Recording(v)
      BY <3>1 DEF EventInv
    <3> QED BY <2>1, <3>2, HeldBackKept DEF Recording
  <2>2. CASE req'[v].pc \in {"failing", "idle"}
    BY <2>2 DEF Recording, ReviewPcs, UnansweredPcs
  <2> QED BY <2>1, <2>2
<1>2. Marked' /\ Chained'
  BY MarkedKept, ChainedKept DEF EventInv
<1> QED BY <1>1, <1>2, HeldBackKept DEF EventInv

LEMMA OwnerStepEvents ==
  ASSUME IInv, EventInv, NEW w \in Workers, Owner(w), NEW r, UNCHANGED claim,
         req' = [req EXCEPT ![w] = r], Marked', Chained',
         wf'.status = "pending_human" => HeldBack',
         Owner(w)' => Recording(w)'
  PROVE  EventInv'
<1>0. req \in [Workers -> Requests] /\ TypeInv /\ Holders
  BY DEF IInv, SafeInv, TypeInv, TypeOK
<1>1. ASSUME NEW v \in Workers, Owner(v)' PROVE v = w
  <2>1. CASE v # w
    <3>1. req'[v] = req[v]
      BY <1>0, <2>1
    <3> QED BY <1>0, <1>1, <3>1, OthersKept
  <2> QED BY <2>1
<1> QED BY <1>1 DEF EventInv

\* Only a draft that governance lets pass is recorded as allowed.
LEMMA OnlyDraftsAllow ==
  ASSUME TypeInv, NEW w \in Workers, DraftAllowed(w), Resolve(w) \/ RunStage(w) \/ Fail(w)
  PROVE  \E b \in BOOLEAN : SaveResponseGovernance(w, b)
<1>0. req[w].pc = "response" /\ req'[w].pc = "persist_response"
  BY DEF DraftAllowed
<1>1. ~Resolve(w)
  BY <1>0 DEF Resolve, DecideReview, RetryContinuation, AppendClaim
<1>2. ~(EnterStep(w) \/ PersistRefund(w) \/ PersistResponse(w) \/ MarkContinuation(w))
  BY <1>0 DEF EnterStep, PersistRefund, PersistResponse, MarkContinuation, AtStage, EnterPcs
<1>3. ~(EnsurePolicyReview(w) \/ EnsureResponseReview(w) \/ EnsureRecoveredReview(w))
  BY <1>0 DEF EnsurePolicyReview, EnsureResponseReview, EnsureRecoveredReview, AtStage
<1>4. ~(Heartbeat(w) \/ \E d \in PolicyDecisions, b \in BOOLEAN : PersistPolicy(w, d, b))
  BY <1>0 DEF Heartbeat, PersistPolicy, AtStage
<1>5. ~RecordFailure(w)
  BY <1>0 DEF RecordFailure, AtStage
<1>6. ~(StepFails(w) \/ RequestEnds(w))
  BY <1>0 DEF StepFails, RequestEnds, Goto, Idle, TypeInv, TypeOK, Requests
<1> QED BY <1>1, <1>2, <1>3, <1>4, <1>5, <1>6 DEF RunStage, Fail

LEMMA EnterStepEvents ==
  ASSUME IInv, EventInv, NEW w \in Workers, EnterStep(w), UNCHANGED allowed
  PROVE  EventInv'
<1> DEFINE pc == [enter_policy |-> "policy", enter_policy_review |-> "policy_review",
                  enter_refund |-> "refund", enter_response |-> "response",
                  enter_recover_review |-> "recover_review"][req[w].pc]
<1>1. /\ Owner(w) /\ req[w].pc \in EnterPcs /\ req' = [req EXCEPT ![w].pc = pc]
      /\ UNCHANGED <<wf, appr, claim, policyRows, blocks, allowed>>
  BY DEF EnterStep, Goto, Owner, Held, EnterPcs
<1>2. /\ pc \in ReviewPcs => req[w].pc \in ReviewPcs
      /\ pc \in UnansweredPcs => req[w].pc \in UnansweredPcs
      /\ pc \in {"refund", "response"} => req[w].pc \in {"enter_refund", "enter_response"}
      /\ pc \notin {"persist_response", "mark", "recover_mark", "enter_refund", "enter_response"}
  BY <1>1 DEF EnterPcs, ReviewPcs, UnansweredPcs
<1>3. /\ req'[w].pc = pc /\ req'[w].status = req[w].status
      /\ req' = [req EXCEPT ![w] = [req[w] EXCEPT !.pc = pc]]
  BY <1>1 DEF IInv, TypeInv, TypeOK, Requests
<1> HIDE DEF pc
<1>4. Marked' /\ Chained' /\ (HeldBack' <=> HeldBack)
  BY <1>1, MarkedKept, ChainedKept, HeldBackKept DEF EventInv
<1>5. Recording(w)'
  <2>1. Recording(w)
    BY <1>1 DEF EventInv
  <2> QED BY <1>1, <1>2, <1>3, <1>4, <2>1 DEF Recording
<1>6. wf'.status = "pending_human" => HeldBack'
  <2>1. claim # NoClaim
    BY <1>1, OwnerFacts DEF IInv, SafeInv
  <2> QED BY <1>1, <1>4, <2>1 DEF EventInv
<1> QED BY <1>1, <1>3, <1>4, <1>5, <1>6, OwnerStepEvents

LEMMA PersistRefundEvents ==
  ASSUME IInv, EventInv, NEW w \in Workers, PersistRefund(w), UNCHANGED allowed
  PROVE  EventInv'
<1>1. /\ Owner(w) /\ req[w].pc = "refund"
      /\ req' = [req EXCEPT ![w].pc = "enter_response"]
      /\ wf'.status = "running"
      /\ UNCHANGED <<appr, claim, policyRows, blocks, allowed>>
  BY DEF PersistRefund, AtStage, Goto, Owner, Held
<1>2. /\ req'[w].pc = "enter_response" /\ req'[w].status = req[w].status
      /\ req' = [req EXCEPT ![w] = [req[w] EXCEPT !.pc = "enter_response"]]
  BY <1>1 DEF IInv, TypeInv, TypeOK, Requests
<1>3. Marked' /\ Chained'
  BY <1>1, MarkedKept, ChainedKept DEF EventInv
<1>4. Recording(w)'
  BY <1>1, <1>2 DEF EventInv, Recording, ReviewPcs, UnansweredPcs
<1> QED BY <1>1, <1>2, <1>3, <1>4, OwnerStepEvents

LEMMA PersistResponseEvents ==
  ASSUME IInv, EventInv, NEW w \in Workers, PersistResponse(w), UNCHANGED allowed
  PROVE  EventInv'
<1> DEFINE pc == IF req[w].status = "pending_human" THEN "response_review" ELSE "mark"
<1>1. /\ Owner(w) /\ req[w].pc = "persist_response"
      /\ req' = [req EXCEPT ![w].pc = pc]
      /\ wf' = TerminalWorkflowState(req[w].status)
      /\ UNCHANGED <<appr, claim, policyRows, blocks, allowed>>
  BY DEF PersistResponse, AtStage, Goto, Owner, Held
<1>2. /\ req'[w].pc = pc /\ req'[w].status = req[w].status
      /\ req' = [req EXCEPT ![w] = [req[w] EXCEPT !.pc = pc]]
  BY <1>1 DEF IInv, TypeInv, TypeOK, Requests
<1>3. Marked' /\ Chained' /\ (HeldBack' <=> HeldBack)
  BY <1>1, MarkedKept, ChainedKept, HeldBackKept DEF EventInv
<1>4. req[w].status = "pending_human" => HeldBack
  BY <1>1 DEF EventInv, Recording
<1>5. Recording(w)'
  BY <1>2, <1>3, <1>4 DEF Recording, ReviewPcs, UnansweredPcs
<1>6. wf'.status = "pending_human" => HeldBack'
  BY <1>1, <1>3, <1>4 DEF TerminalWorkflowState
<1> QED BY <1>1, <1>2, <1>3, <1>5, <1>6, OwnerStepEvents

LEMMA MarkContinuationEvents ==
  ASSUME IInv, EventInv, NEW w \in Workers, MarkContinuation(w), UNCHANGED allowed
  PROVE  EventInv'
<1>1. /\ Owner(w) /\ req[w].pc \in {"mark", "recover_mark"}
      /\ req' = [req EXCEPT ![w] = Idle]
      /\ wf' = TerminalWorkflowState(req[w].status)
      /\ UNCHANGED <<appr, claim, policyRows, blocks, allowed>>
  BY DEF MarkContinuation, Owner, Held
<1>2. req'[w] = Idle
  BY <1>1 DEF IInv, TypeInv, TypeOK
<1>3. Marked' /\ Chained' /\ (HeldBack' <=> HeldBack)
  BY <1>1, MarkedKept, ChainedKept, HeldBackKept DEF EventInv
<1>4. Recording(w)'
  BY <1>2 DEF Idle, Recording, ReviewPcs, UnansweredPcs
<1>5. wf'.status = "pending_human" => HeldBack'
  BY <1>1, <1>3 DEF TerminalWorkflowState, EventInv, Recording
<1> QED BY <1>1, <1>3, <1>4, <1>5, OwnerStepEvents

\* The verdict on a draft: the newest event of its stage.
LEMMA SaveResponseGovernanceEvents ==
  ASSUME IInv, EventInv, NEW w \in Workers, NEW b \in BOOLEAN, SaveResponseGovernance(w, b),
         allowed' = allowed \/ (~b /\ allowed' = allowed \cup {claim})
  PROVE  EventInv'
<1> DEFINE r == [req[w] EXCEPT !.pc = "persist_response",
                               !.status = IF b THEN "pending_human" ELSE @]
           event == [stage |-> "response", claim |-> claim]
<1>0. claim.seq \in Nat
  BY DEF IInv, TypeInv, TypeOK, Claims
<1>1. /\ Owner(w) /\ req[w].pc = "response"
      /\ req' = [req EXCEPT ![w].pc = "persist_response",
                            ![w].status = IF b THEN "pending_human" ELSE @]
      /\ blocks' = IF b THEN blocks \cup {event} ELSE blocks
      /\ UNCHANGED <<wf, appr, claim, policyRows>>
  BY DEF SaveResponseGovernance, AtStage, Owner, Held
<1>2. /\ req'[w].pc = "persist_response"
      /\ req'[w].status = (IF b THEN "pending_human" ELSE req[w].status)
      /\ req' = [req EXCEPT ![w] = r]
  BY <1>1 DEF IInv, TypeInv, TypeOK, Requests
<1>3. event.stage = "response" /\ event.claim = claim
  OBVIOUS
<1> HIDE DEF r, event
<1>4. Chained'
  BY <1>1, ChainedKept DEF EventInv
<1>5. Marked'
  BY <1>0, <1>1, <1>3 DEF EventInv, Marked
<1>6. b => HeldBack'
  <2> SUFFICES ASSUME b PROVE DraftHeld'
    BY DEF HeldBack
  <2>1. \A c \in ResponseClaims' : c.seq <= claim'.seq
    BY <1>5 DEF Marked, ResponseClaims
  <2>2. event \in blocks'
    BY <1>1
  <2> QED BY <1>1, <1>3, <2>1, <2>2 DEF DraftHeld
<1>7. /\ wf.status # "pending_human" /\ req[w].status # "pending_human"
  BY <1>1 DEF EventInv, Recording, UnansweredPcs
<1>8. Recording(w)'
  BY <1>1, <1>2, <1>6, <1>7 DEF Recording, ReviewPcs, UnansweredPcs
<1> QED BY <1>1, <1>2, <1>4, <1>5, <1>7, <1>8, OwnerStepEvents

\* A review is opened for what is held back.
LEMMA EnsureEvents ==
  ASSUME IInv, ReadInv, EventInv, NEW w \in Workers, NEW stage \in {"policy", "response"},
         NEW marker \in Claims, NEW pc \in {"mark", "recover_mark"},
         EnsureHumanApproval(w, stage, marker, pc), Owner(w), UNCHANGED allowed, HeldBack,
         stage = "policy" => \E r \in OwnRows(policyRows, claim.appr) : r.route = "human_approval"
  PROVE  EventInv'
<1> DEFINE row == PendingRow(stage, FALSE, "none", marker)
<1>0. /\ req \in [Workers -> Requests] /\ appr \in [Approvals -> ApprovalRows] /\ nAppr \in Nat
      /\ claim # NoClaim
  BY OwnerFacts, BoundsAssumption DEF IInv, SafeInv, TypeInv, TypeOK
<1>1. /\ UNCHANGED <<claim, policyRows, blocks, allowed>>
      /\ \E x : req' = [req EXCEPT ![w].pc = pc, ![w].child = x]
      /\ \/ UNCHANGED <<wf, appr>>
         \/ Pending = {} /\ appr' = [appr EXCEPT ![nAppr + 1] = row]
  BY DEF EnsureHumanApproval, InsertReview
<1>2. Resolved' = Resolved /\ \A s \in Resolved : appr'[s] = appr[s]
  <2>1. stage \in Stages
    BY DEF Stages
  <2> QED BY <2>1, EnsureDecidesNone
<1>3. \E r : req' = [req EXCEPT ![w] = r]
  BY <1>1
<1>4. Marked' /\ HeldBack'
  BY <1>1, MarkedKept, HeldBackKept DEF EventInv
<1>5. Recording(w)'
  <2>1. req'[w].pc = pc
    BY <1>0, <1>1 DEF Requests
  <2> QED BY <1>4, <2>1 DEF Recording, UnansweredPcs
<1>6. Chained'
  <2>1. CASE UNCHANGED appr
    BY <1>1, <2>1, ChainedKept DEF EventInv
  <2>2. CASE Pending = {} /\ appr' = [appr EXCEPT ![nAppr + 1] = row]
    <3>1. ~\E r \in OwnRows(policyRows, claim.appr) : r.route = "human_approval"
      BY <1>0, <2>2 DEF ReadInv, PolicyAsked
    <3>2. stage = "response" /\ row.stage = "response"
      BY <3>1 DEF PendingRow
    <3> HIDE DEF row
    <3>3. \A a \in Approvals : appr'[a] = appr[a] \/ appr'[a] = row
      BY <1>0, <2>2
    <3>4. \A a \in Pending' : appr'[a].stage = "response"
      BY <2>2, <3>2, <3>3 DEF Pending
    <3> QED BY <1>1, <1>2, <3>4 DEF EventInv, Chained
  <2> QED BY <1>1, <2>1, <2>2
<1> QED BY <1>1, <1>3, <1>4, <1>5, <1>6, OwnerStepEvents

LEMMA EnsureReviewEvents ==
  ASSUME IInv, ReadInv, EventInv, NEW w \in Workers, UNCHANGED allowed,
         EnsurePolicyReview(w) \/ EnsureResponseReview(w) \/ EnsureRecoveredReview(w)
  PROVE  EventInv'
<1>1. /\ Owner(w) /\ req[w].pc \in {"policy_review", "response_review", "recover_review"}
      /\ claim \in Claims /\ req[w].marker \in Claims
  BY DEF EnsurePolicyReview, EnsureResponseReview, EnsureRecoveredReview, AtStage, Owner, Held,
         IInv, TypeInv, TypeOK, Requests
<1>2. HeldBack
  BY <1>1 DEF EventInv, Recording, ReviewPcs
<1>3. CASE EnsurePolicyReview(w)
  <2>1. \E r \in OwnRows(policyRows, claim.appr) : r.route = "human_approval"
    BY <1>1, <1>3 DEF IInv, SafeInv, Progress, Placed, EnsurePolicyReview, AtStage
  <2> QED BY <1>1, <1>2, <1>3, <2>1, EnsureEvents DEF EnsurePolicyReview
<1>4. CASE EnsureResponseReview(w)
  BY <1>1, <1>2, <1>4, EnsureEvents DEF EnsureResponseReview
<1>5. CASE EnsureRecoveredReview(w)
  BY <1>1, <1>2, <1>5, EnsureEvents DEF EnsureRecoveredReview
<1> QED BY <1>3, <1>4, <1>5

LEMMA PersistPolicyEvents ==
  ASSUME IInv, EventInv, NEW w \in Workers, NEW d \in PolicyDecisions, NEW b \in BOOLEAN,
         PersistPolicy(w, d, b), UNCHANGED allowed
  PROVE  EventInv'
<1> DEFINE route == PolicyNextAgent(d, b)
           row == [claim |-> claim, decision |-> d, route |-> route]
           event == [stage |-> "policy", claim |-> claim]
           review == PendingRow("policy", TRUE, d, claim)
           status == IF route = "human_approval" THEN "pending_human"
                     ELSE ResponseStatus(appr[claim.appr], route, d)
<1>0. req \in [Workers -> Requests] /\ claim.seq \in Nat
  BY DEF IInv, TypeInv, TypeOK, Claims
<1>1. /\ Owner(w) /\ policyRows' = policyRows \cup {row}
      /\ blocks' = IF b THEN blocks \cup {event} ELSE blocks
      /\ wf' = PolicyWorkflowState(route)
      /\ req' = [req EXCEPT ![w].pc = EntryOf(route, req[w].refunded), ![w].status = status]
      /\ UNCHANGED <<claim, allowed>>
  BY DEF PersistPolicy, AtStage, Owner, Held
<1>2. row.claim = claim /\ row.route = route /\ event.stage = "policy" /\ event.claim = claim
  OBVIOUS
<1>3. review.trigger = claim
  BY DEF PendingRow
<1> HIDE DEF row, event, review
<1>4. Resolved' = Resolved /\ \A s \in Resolved : appr'[s] = appr[s]
  BY PersistPolicyDecidesNone
<1>5. row \in OwnRows(policyRows, claim.appr)'
  BY <1>1, <1>2 DEF OwnRows
<1>6. \A a \in Pending' : appr'[a] = review
  BY PersistPolicyOpens DEF review
<1>7. Marked'
  BY <1>0, <1>1, <1>2 DEF EventInv, Marked
<1>8. Chained'
  BY <1>1, <1>2, <1>3, <1>4, <1>5, <1>6 DEF EventInv, Chained
<1>9. route = "human_approval" => HeldBack'
  BY <1>2, <1>5 DEF HeldBack
<1>10. route \in PolicyRoutes /\ (route # "human_approval" => status # "pending_human")
  BY RoutingTypes DEF ResponseStatus
<1>11. wf'.status = "pending_human" <=> route = "human_approval"
  BY <1>1 DEF PolicyWorkflowState
<1> HIDE DEF route, status
<1>12. /\ req'[w].pc = EntryOf(route, req[w].refunded) /\ req'[w].status = status
       /\ \E r : req' = [req EXCEPT ![w] = r]
  BY <1>0, <1>1 DEF Requests
<1>13. Recording(w)'
  BY <1>9, <1>10, <1>11, <1>12 DEF EntryOf, PolicyRoutes, Recording, ReviewPcs, UnansweredPcs
<1> QED BY <1>1, <1>7, <1>8, <1>9, <1>11, <1>12, <1>13, OwnerStepEvents

LEMMA DecideReviewEvents ==
  ASSUME IInv, ReadInv, EventInv, IInv', allowed \subseteq Claims, UNCHANGED allowed,
         NEW w \in Workers, NEW a \in Approvals, NEW d \in ReviewDecisions, DecideReview(w, a, d)
  PROVE  EventInv'
<1> DEFINE new == [appr[a] EXCEPT !.status = ResolutionStatus(d), !.decision = d]
<1>0. /\ TypeInv /\ req \in [Workers -> Requests] /\ appr \in [Approvals -> ApprovalRows]
      /\ claim.seq \in Nat /\ \A b \in blocks : b.claim.seq \in Nat
      /\ \A c \in allowed : c.seq \in Nat
  BY DEF IInv, TypeInv, TypeOK, Claims
<1>1. /\ a \in Pending /\ AppendClaim(w, a) /\ appr' = [appr EXCEPT ![a] = new]
      /\ wf' = IF NextAgent(new) = "end" THEN TerminalWorkflowState("completed")
               ELSE [status |-> "running", agent |-> NextAgent(new)]
      /\ req' = [req EXCEPT ![w] = Continue(new, claim')]
      /\ UNCHANGED <<policyRows, responseRows, blocks, refunds>>
  BY DEF DecideReview
<1>2. /\ claim' \in Claims /\ claim'.appr = a /\ claim'.seq = claim.seq + 1
  BY <1>0, <1>1, NewClaim
<1>3. new \in ApprovalRows /\ new.status \in {"approved", "rejected"} /\ new.trigger = appr[a].trigger
  BY <1>0, RoutingTypes DEF ApprovalRows
<1> HIDE DEF new
<1>4. \A b \in Approvals : appr'[b] = IF b = a THEN new ELSE appr[b]
  BY <1>0, <1>1
<1>5. /\ Pending' = {} /\ Resolved' = Resolved \cup {a} /\ a \notin Resolved
  <2>1. Pending = {a} /\ a \in Approvals
    BY <1>1 DEF IInv, SafeInv, Lineage
  <2> QED BY <1>3, <1>4, <2>1 DEF Pending, Resolved
<1>6. Marked'
  BY <1>0, <1>1, <1>2 DEF EventInv, Marked
<1>7. Chained'
  <2>1. \A s \in Resolved : appr'[s].trigger = appr[s].trigger
    BY <1>4, <1>5 DEF Resolved
  <2>2. \A s \in Resolved : /\ appr[s].trigger = NoClaim \/ appr[s].trigger.appr \in Resolved
                            /\ appr[s].trigger.appr # a
    BY <1>5, NoClaimType DEF EventInv, Chained
  <2>3. /\ appr[a].trigger = NoClaim \/ appr[a].trigger.appr \in Resolved
        /\ appr[a].trigger.appr # a
    BY <1>1, <1>5, NoClaimType DEF IInv, SafeInv, Lineage
  <2>4. appr'[a].trigger = appr[a].trigger
    BY <1>3, <1>4
  <2> QED BY <1>2, <1>5, <2>1, <2>2, <2>3, <2>4 DEF Chained
<1>8. wf'.status # "pending_human"
  BY <1>1 DEF TerminalWorkflowState
<1>9. ASSUME NEW v \in Workers, Owner(v)' PROVE Recording(v)'
  <2>1. \A u \in Workers : req'[u] = IF u = w THEN Continue(new, claim') ELSE req[u]
    BY <1>0, <1>1
  <2>2. v = w
    BY <1>2, <1>9, <2>1, NewClaimOwner
  <2>3. OwnRows(policyRows, a) = {}
    BY <1>0, <1>5, NoClaimType DEF ReadInv, Stamped, OwnRows
  <2>4. /\ Continue(new, claim').pc \notin ReviewPcs
        /\ Continue(new, claim').status # "pending_human"
    BY <1>0, <1>2, <1>3, <2>3, ContinueStands
  <2>5. req'[v] = Continue(new, claim')
    BY <2>1, <2>2
  <2> QED BY <1>8, <2>4, <2>5 DEF Recording
<1> QED BY <1>6, <1>7, <1>8, <1>9 DEF EventInv

LEMMA RetryContinuationEvents ==
  ASSUME IInv, EventInv, IInv', allowed \subseteq Claims, UNCHANGED allowed,
         NEW w \in Workers, NEW a \in Approvals, RetryContinuation(w, a)
  PROVE  EventInv'
<1> DEFINE new == IF wf.status \in TerminalStatuses THEN Recovery(claim')
                  ELSE Continue(appr[a], claim')
<1>0. /\ TypeInv /\ req \in [Workers -> Requests] /\ appr \in [Approvals -> ApprovalRows]
      /\ claim.seq \in Nat /\ \A b \in blocks : b.claim.seq \in Nat
      /\ \A c \in allowed : c.seq \in Nat
  BY DEF IInv, TypeInv, TypeOK, Claims
<1>1. /\ a \in Resolved /\ a \notin Finished /\ AppendClaim(w, a)
      /\ req' = [req EXCEPT ![w] = new]
      /\ UNCHANGED <<wf, appr, policyRows, responseRows, blocks, refunds>>
  BY DEF RetryContinuation
<1>2. claim # NoClaim /\ claim.appr = a
  BY <1>1 DEF IInv, SafeInv, Lineage
<1>3. claim' \in Claims /\ claim'.appr = a /\ claim'.seq = claim.seq + 1
  BY <1>0, <1>1, NewClaim
<1>4. Pending' = Pending /\ Resolved' = Resolved
  BY <1>1 DEF Pending, Resolved
<1>5. Marked'
  BY <1>0, <1>1, <1>3 DEF EventInv, Marked
<1>6. Chained'
  BY <1>1, <1>2, <1>3, <1>4 DEF EventInv, Chained, OwnRows
<1>7. HeldBack' <=> HeldBack
  BY <1>1, <1>2, <1>3, HeldBackKept
<1>8. ASSUME NEW v \in Workers, Owner(v)' PROVE Recording(v)'
  <2>1. \A u \in Workers : req'[u] = IF u = w THEN new ELSE req[u]
    BY <1>0, <1>1
  <2>2. v = w
    BY <1>3, <1>8, <2>1, NewClaimOwner
  <2>3. req'[v] = new
    BY <2>1, <2>2
  <2>4. CASE wf.status \in TerminalStatuses
    <3>1. /\ Recovery(claim').pc = IF wf.status = "pending_human" THEN "enter_recover_review"
                                   ELSE "recover_mark"
          /\ Recovery(claim').status = wf.status
      BY DEF Recovery
    <3>2. wf.status = "pending_human" => HeldBack'
      BY <1>2, <1>7 DEF EventInv
    <3> QED BY <2>3, <2>4, <3>1, <3>2 DEF Recording, ReviewPcs, UnansweredPcs
  <2>5. CASE wf.status \notin TerminalStatuses
    <3>1. appr[a] \in ApprovalRows
      BY <1>0
    <3>2. (\/ Continue(appr[a], claim').pc \in ReviewPcs
           \/ Continue(appr[a], claim').status = "pending_human") =>
             /\ Continue(appr[a], claim').pc = "enter_policy_review"
             /\ \E r \in OwnRows(policyRows, a) : r.route = "human_approval"
      BY <1>0, <1>3, <3>1, ContinueStands
    <3>3. (\E r \in OwnRows(policyRows, a) : r.route = "human_approval") => HeldBack'
      BY <1>2, <1>7 DEF HeldBack
    <3>4. wf'.status # "pending_human"
      BY <1>1, <2>5 DEF TerminalStatuses
    <3> QED BY <2>3, <2>5, <3>2, <3>3, <3>4 DEF Recording
  <2> QED BY <2>4, <2>5
<1>9. (claim' # NoClaim /\ wf'.status = "pending_human") => HeldBack'
  BY <1>1, <1>2, <1>7 DEF EventInv
<1> QED BY <1>5, <1>6, <1>8, <1>9 DEF EventInv

LEMMA EventStep ==
  ASSUME IInv, ReadInv, EventInv, allowed \subseteq Claims, NEW w \in Workers, Continuation(w)
  PROVE  EventInv'
<1>0. [Next]_vars /\ (Resolve(w) \/ RunStage(w) \/ Fail(w)) /\ TypeInv
      /\ req \in [Workers -> Requests]
  BY DEF Continuation, Next, IInv, TypeInv, TypeOK
<1>1. IInv'
  BY <1>0, InvStep
<1>2. ASSUME NEW b \in BOOLEAN, SaveResponseGovernance(w, b) PROVE EventInv'
  <2>1. b => req'[w].status = "pending_human"
    BY <1>0, <1>2 DEF SaveResponseGovernance, Requests
  <2>2. allowed' = allowed \/ (~b /\ allowed' = allowed \cup {claim})
    BY <2>1 DEF Continuation, DraftAllowed
  <2> QED BY <1>2, <2>2, SaveResponseGovernanceEvents
<1>3. CASE ~\E b \in BOOLEAN : SaveResponseGovernance(w, b)
  <2>0. UNCHANGED allowed
    BY <1>0, <1>3, OnlyDraftsAllow DEF Continuation
  <2>1. CASE Resolve(w)
    BY <1>1, <2>0, <2>1, DecideReviewEvents, RetryContinuationEvents DEF Resolve
  <2>2. CASE EnterStep(w)
    BY <2>0, <2>2, EnterStepEvents
  <2>3. CASE Heartbeat(w)
    BY <2>0, <2>3, MovedEvents DEF Heartbeat
  <2>4. CASE \E d \in PolicyDecisions, b \in BOOLEAN : PersistPolicy(w, d, b)
    BY <2>0, <2>4, PersistPolicyEvents
  <2>5. CASE EnsurePolicyReview(w) \/ EnsureResponseReview(w) \/ EnsureRecoveredReview(w)
    BY <2>0, <2>5, EnsureReviewEvents
  <2>6. CASE PersistRefund(w)
    BY <2>0, <2>6, PersistRefundEvents
  <2>7. CASE PersistResponse(w)
    BY <2>0, <2>7, PersistResponseEvents
  <2>8. CASE MarkContinuation(w)
    BY <2>0, <2>8, MarkContinuationEvents
  <2>9. CASE StepFails(w) \/ RequestEnds(w)
    <3>1. \A v \in Workers : req'[v] = req[v] \/ req'[v].pc \in {"failing", "idle"}
      BY <1>0, <2>9 DEF StepFails, RequestEnds, Goto, Requests, Idle
    <3> QED BY <2>0, <2>9, <3>1, MovedEvents DEF StepFails, RequestEnds, dbVars
  <2>10. CASE RecordFailure(w)
    <3>1. /\ Owner(w) /\ req' = [req EXCEPT ![w] = Idle] /\ wf'.status = "failed"
          /\ UNCHANGED <<appr, claim, policyRows, blocks>>
      BY <2>10 DEF RecordFailure, AtStage, Owner, Held
    <3>2. Marked' /\ Chained'
      BY <2>0, <3>1, MarkedKept, ChainedKept DEF EventInv
    <3>3. Recording(w)'
      BY <1>0, <3>1 DEF Idle, Recording, ReviewPcs, UnansweredPcs
    <3> QED BY <3>1, <3>2, <3>3, OwnerStepEvents
  <2>11. \/ Resolve(w) \/ EnterStep(w) \/ Heartbeat(w) \/ PersistRefund(w) \/ PersistResponse(w)
         \/ \E d \in PolicyDecisions, b \in BOOLEAN : PersistPolicy(w, d, b)
         \/ EnsurePolicyReview(w) \/ EnsureResponseReview(w) \/ EnsureRecoveredReview(w)
         \/ MarkContinuation(w) \/ StepFails(w) \/ RequestEnds(w) \/ RecordFailure(w)
    BY <1>0, <1>3 DEF RunStage, Fail
  <2> QED BY <2>1, <2>2, <2>3, <2>4, <2>5, <2>6, <2>7, <2>8, <2>9, <2>10, <2>11
<1> QED BY <1>2, <1>3

LEMMA FirstEventsRun ==
  ASSUME CaseInv, FirstEvents, InitialRun
  PROVE  FirstEvents'
<1> SUFFICES ASSUME claim' = NoClaim PROVE FirstEvents'
  BY DEF FirstEvents
<1>0. claim = NoClaim
  BY RunIsRunning
<1>1. CASE (\E n \in {"policy_agent", "response_agent", "human_approval"} : PersistTriage(n))
           \/ RunRefund \/ HumanApprovalNode \/ RunPersistResponse \/ VerifyPersisted \/ RunRaises
           \/ RecordWorkflowFailure \/ RunDies
  <2>1. UNCHANGED <<blocks, allowed, policyRows>>
    BY <1>1 DEF PersistTriage, RunRefund, HumanApprovalNode, RunPersistResponse, VerifyPersisted,
                RunRaises, RecordWorkflowFailure, RunDies, vars, dbVars
  <2> QED BY <1>0, <2>1 DEF FirstEvents
<1>2. ASSUME NEW b \in BOOLEAN, TriageGovernance(b) PROVE FirstEvents'
  BY <1>0, <1>2 DEF TriageGovernance, FirstEvents
<1>3. ASSUME NEW d \in PolicyDecisions, NEW b \in BOOLEAN, RunPolicy(d, b) PROVE FirstEvents'
  BY <1>0, <1>3 DEF RunPolicy, FirstEvents
<1>4. ASSUME NEW b \in BOOLEAN, RunResponseGovernance(b) PROVE FirstEvents'
  <2>1. /\ allowed' \subseteq {NoClaim} /\ UNCHANGED policyRows
        /\ \A e \in blocks' : e.stage = "policy" => e \in blocks
    BY <1>4 DEF RunResponseGovernance
  <2> QED BY <1>0, <2>1 DEF FirstEvents
<1> QED BY <1>1, <1>2, <1>3, <1>4 DEF InitialRun

LEMMA FirstEventsStep == CaseInv /\ FirstEvents /\ [CaseNext]_caseVars => FirstEvents'
<1> SUFFICES ASSUME CaseInv, FirstEvents, [CaseNext]_caseVars, claim' = NoClaim PROVE FirstEvents'
  BY DEF FirstEvents
<1>1. CASE InitialRun
  BY <1>1, FirstEventsRun
<1>2. CASE (LeaseExpires /\ UNCHANGED <<run, allowed>>) \/ UNCHANGED caseVars
  <2>1. UNCHANGED <<claim, blocks, allowed, policyRows>>
    BY <1>2 DEF LeaseExpires, caseVars, vars, dbVars
  <2> QED BY <2>1 DEF FirstEvents
<1>3. ASSUME NEW w \in Workers, Continuation(w) PROVE FirstEvents'
  <2>1. [Next]_vars
    BY <1>3 DEF Continuation, Next
  <2>2. UNCHANGED <<claim, blocks, policyRows, req>>
    BY <2>1, QuietStep
  <2>3. UNCHANGED allowed
    BY <1>3, <2>2 DEF Continuation, DraftAllowed
  <2> QED BY <2>2, <2>3 DEF FirstEvents
<1> QED BY <1>1, <1>2, <1>3 DEF CaseNext

LEMMA UndecidedEvents == CaseInv /\ FirstEvents /\ claim = NoClaim => EventInv
<1> SUFFICES ASSUME CaseInv, FirstEvents, claim = NoClaim PROVE EventInv
  OBVIOUS
<1>1. Resolved = {}
  <2>1. Finished = {}
    BY DEF CaseInv, Undecided, Finished
  <2> QED BY <2>1, UndecidedSafe DEF SafeInv, Lineage
<1>2. Chained
  BY <1>1 DEF Chained
<1>3. Marked
  BY NoClaimType DEF CaseInv, Undecided, FirstEvents, Marked
<1>4. \A w \in Workers : ~Owner(w)
  BY DEF CaseInv, Undecided, Owner, Held, Idle
<1> QED BY <1>2, <1>3, <1>4 DEF EventInv

LEMMA UndecidedEventsNext == (CaseInv /\ FirstEvents /\ claim = NoClaim)' => EventInv'
BY UndecidedEvents, PTL

LEMMA OrderlyEventStep ==
  CaseInv /\ FirstEvents /\ Orderly /\ OrderlyReads /\ OrderlyEvents /\ [StatusNext]_statusVars =>
    OrderlyEvents'
<1> SUFFICES ASSUME CaseInv, FirstEvents, Orderly, OrderlyReads, OrderlyEvents,
                    [StatusNext]_statusVars, ~early'
             PROVE  EventInv'
  BY DEF OrderlyEvents
<1>0. /\ ~early /\ IInv /\ ReadInv /\ EventInv /\ (claim # NoClaim => run.node = "end")
      /\ [CaseNext]_caseVars /\ CaseInv' /\ FirstEvents' /\ allowed \subseteq Claims
  BY OrderlySteps, StatusIsCase, CaseStep, FirstEventsStep
     DEF Orderly, OrderlyReads, OrderlyEvents, CaseInv, CaseTypes
<1>1. CASE claim' = NoClaim
  BY <1>0, <1>1, UndecidedEventsNext
<1>2. CASE InitialRun
  BY <1>0, <1>1, <1>2, RunIsRunning
<1>3. CASE (LeaseExpires /\ UNCHANGED <<run, allowed>>) \/ UNCHANGED caseVars
  <2>1. UNCHANGED <<wf, nAppr, appr, claim, revoked, done, policyRows, blocks, allowed, req>>
    BY <1>3 DEF LeaseExpires, caseVars, vars, dbVars
  <2> QED BY <1>0, <2>1, MovedEvents
<1>4. CASE \E w \in Workers : Continuation(w) /\ UNCHANGED run
  BY <1>0, <1>4, EventStep
<1> QED BY <1>0, <1>2, <1>3, <1>4 DEF CaseNext

LEMMA EventsHold == StatusSpec => []FirstEvents /\ []OrderlyEvents
<1>1. StatusInit => FirstEvents /\ OrderlyEvents
  <2>1. StatusInit => CaseInv
    BY InitCase DEF StatusInit
  <2>2. StatusInit => FirstEvents /\ claim = NoClaim
    BY DEF StatusInit, CaseInit, FirstEvents
  <2> QED BY <2>1, <2>2, UndecidedEvents DEF OrderlyEvents
<1>2. CaseInv /\ FirstEvents /\ Orderly /\ OrderlyReads /\ OrderlyEvents
        /\ [StatusNext]_statusVars => (FirstEvents /\ OrderlyEvents)'
  BY StatusIsCase, FirstEventsStep, OrderlyEventStep
<1> QED BY <1>1, <1>2, StatusInvHolds, ReadsHold, PTL DEF StatusSpec

\* An event that no decision has answered and none of its stage follows is shown.
LEMMA BlockIsShown ==
  ASSUME NEW b \in blocks, Pending # {},
         \A s \in Resolved : ~Triggered(s, [stage |-> b.stage, claim |-> b.claim, action |-> "block"]),
         \A c \in blocks : c.stage = b.stage => c.claim.seq <= b.claim.seq,
         b.stage = "response" => \A c \in allowed : c.seq <= b.claim.seq,
         b.claim.seq \in Nat,
         b.stage = "policy" => ~(Latest(policyRows).claim.seq > b.claim.seq)
  PROVE  Status = "quarantined"
<1> DEFINE e == [stage |-> b.stage, claim |-> b.claim, action |-> "block"]
<1>1. e.stage = b.stage /\ e.claim = b.claim /\ e.action = "block"
  OBVIOUS
<1>2. e \in GovernanceEvents
  BY DEF GovernanceEvents
<1>3. \A f \in GovernanceEvents :
        \/ \E c \in blocks : f.stage = c.stage /\ f.claim = c.claim
        \/ \E c \in allowed : f.stage = "response" /\ f.claim = c
  BY DEF GovernanceEvents
<1>4. \A s \in Resolved : ~Triggered(s, e)
  OBVIOUS
<1> HIDE DEF e
<1>5. e \in CurrentEvents
  BY <1>2, <1>4 DEF CurrentEvents
<1>6. \A f \in CurrentEvents : f.stage = e.stage => f.claim.seq <= e.claim.seq
  BY <1>1, <1>3 DEF CurrentEvents
<1>7. ~SupersededByAllowance(e)
  BY <1>1 DEF SupersededByAllowance
<1>8. Blocked
  BY <1>1, <1>5, <1>6, <1>7 DEF Blocked, EffectiveEvents
<1> QED BY <1>8 DEF Status

LEMMA OwnIsNewest ==
  ASSUME IInv, ReadInv, NEW r \in policyRows, r.claim.appr = claim.appr
  PROVE  (\A s \in policyRows : s.claim.seq <= r.claim.seq) /\ Latest(policyRows) = r
<1>0. \A s \in policyRows : s.claim.seq \in Nat
  BY DEF IInv, TypeInv, TypeOK, Claims
<1>1. \A s \in policyRows : s.claim.seq <= r.claim.seq
  <2> SUFFICES ASSUME NEW s \in policyRows PROVE s.claim.seq <= r.claim.seq
    OBVIOUS
  <2>1. CASE s.claim.appr = claim.appr
    <3>1. s = r
      BY <2>1 DEF IInv, SafeInv, Progress, PolicyOnce
    <3> QED BY <1>0, <3>1
  <2>2. CASE s.claim.appr # claim.appr
    BY <1>0, <2>2 DEF ReadInv, OwnNewest
  <2> QED BY <2>1, <2>2
<1>2. \A s \in policyRows : s.claim.seq = r.claim.seq => s = r
  BY DEF ReadInv, Stamped
<1> QED BY <1>0, <1>1, <1>2, LatestIs

LEMMA HeldShown == CaseInv /\ FirstEvents /\ Orderly /\ OrderlyReads /\ OrderlyEvents => HeldIsBlocked
<1> SUFFICES ASSUME CaseInv, FirstEvents, Orderly, OrderlyReads, OrderlyEvents, ~early,
                    NEW a \in Decidable, NEW b \in blocks,
                    b.stage = appr[a].stage, b.claim = appr[a].trigger
             PROVE  Status = "quarantined"
  BY DEF HeldIsBlocked
<1>0. /\ IInv /\ ReadInv /\ EventInv /\ a \in Approvals /\ a \in Pending /\ Pending # {}
      /\ ParentContinuationComplete(a)
      /\ \A r \in policyRows : r.claim.seq \in Nat
      /\ \A c \in blocks : c.claim.seq \in Nat
  BY DEF Orderly, OrderlyReads, OrderlyEvents, IInv, CaseInv, CaseTypes, TypeInv, TypeOK, Claims,
         Decidable, Pending
<1>1. CASE claim = NoClaim
  <2>1. Resolved = {}
    <3>1. Finished = {}
      BY <1>1 DEF CaseInv, Undecided, Finished
    <3> QED BY <1>0, <1>1, <3>1 DEF IInv, SafeInv, Lineage
  <2>2. \A c \in blocks : c.claim = NoClaim
    BY <1>1 DEF CaseInv, Undecided
  <2>3. \A c \in allowed : c = NoClaim
    BY <1>1 DEF FirstEvents
  <2>4. b.stage = "policy" => ~(Latest(policyRows).claim.seq > b.claim.seq)
    <3> SUFFICES ASSUME b.stage = "policy" PROVE ~(Latest(policyRows).claim.seq > b.claim.seq)
      OBVIOUS
    <3>1. PICK r \in policyRows : TRUE
      BY <1>1 DEF FirstEvents
    <3>2. (\A s \in policyRows : s = r) /\ r.claim = NoClaim
      BY <1>1 DEF CaseInv, Undecided
    <3>3. Latest(policyRows) = r
      BY <1>0, <3>2, LatestIs
    <3> QED BY <2>2, <3>2, <3>3, NoClaimType
  <2> QED BY <1>0, <2>1, <2>2, <2>3, <2>4, NoClaimType, BlockIsShown
<1>2. CASE claim # NoClaim
  <2>1. /\ appr[a].trigger # NoClaim /\ appr[a].trigger.appr = claim.appr /\ claim.appr \in Approvals
        /\ \A c \in Pending : c = a
    BY <1>0, <1>2 DEF IInv, SafeInv, Lineage, TypeInv, ClaimOK
  <2>2. ASSUME NEW c \in blocks, c.claim.appr = claim.appr, NEW s \in Resolved
        PROVE  ~Triggered(s, [stage |-> c.stage, claim |-> c.claim, action |-> "block"])
    <3>1. c.claim # NoClaim /\ c.claim # appr[s].trigger
      BY <1>0, <1>2, <2>1, <2>2, NoClaimType DEF EventInv, Chained
    <3> QED BY <3>1 DEF Triggered
  <2>3. CASE appr[a].stage = "policy"
    <3>1. PICK r \in policyRows : r.claim.appr = claim.appr /\ r.claim = b.claim
      BY <1>0, <1>2, <2>3 DEF EventInv, Chained, OwnRows
    <3>2. (\A s \in policyRows : s.claim.seq <= r.claim.seq) /\ Latest(policyRows) = r
      BY <1>0, <3>1, OwnIsNewest
    <3>3. \A c \in blocks : c.stage = b.stage => c.claim.seq <= b.claim.seq
      BY <1>0, <2>3, <3>1, <3>2 DEF EventInv, Marked
    <3>4. ~(Latest(policyRows).claim.seq > b.claim.seq)
      BY <1>0, <3>1, <3>2
    <3> QED BY <1>0, <2>1, <2>2, <2>3, <3>3, <3>4, BlockIsShown
  <2>4. CASE appr[a].stage = "response"
    <3>1. claim.appr \in Finished /\ done[claim.appr].status = "pending_human"
      BY <1>0, <1>2, <2>1 DEF ParentContinuationComplete, Finished
    <3>2. wf.status = "pending_human"
      BY <1>0, <3>1 DEF IInv, SafeInv, Lineage, TerminalAgreement, TerminalWorkflowState
    <3>3. ~\E r \in OwnRows(policyRows, claim.appr) : r.route = "human_approval"
      BY <1>0, <1>2, <2>1, <2>4 DEF ReadInv, PolicyAsked
    <3>4. PICK c \in blocks : /\ c.stage = "response" /\ c.claim.appr = claim.appr
                              /\ \A x \in ResponseClaims : x.seq <= c.claim.seq
      BY <1>0, <1>2, <3>2, <3>3 DEF EventInv, HeldBack, DraftHeld
    <3>5. /\ \A x \in blocks : x.stage = c.stage => x.claim.seq <= c.claim.seq
          /\ \A x \in allowed : x.seq <= c.claim.seq
      BY <3>4 DEF ResponseClaims
    <3> QED BY <1>0, <2>2, <3>4, <3>5, BlockIsShown
  <2>5. CASE appr[a].stage = "triage"
    BY <1>0, <2>1, <2>5 DEF EventInv, Marked
  <2>6. appr[a].stage \in Stages
    BY <1>0 DEF IInv, TypeInv, TypeOK, ApprovalRows
  <2> QED BY <2>3, <2>4, <2>5, <2>6 DEF Stages
<1> QED BY <1>1, <1>2

\* A case that waits for a reviewer because governance or Policy held it back is shown so:
\* over any number of runs, reviews and attempts, neither a decided review nor a newer
\* generation of the rows hides what the reviewer is asked about.
THEOREM HeldCasesAreShown == StatusSpec => []HeldIsBlocked
BY HeldShown, StatusInvHolds, ReadsHold, EventsHold, PTL

------------------------------------------------------------------------------------
(* What a completed case was told.                                                  *)

\* Every Response row was told with an answer of its own.
StatusTypes ==
  /\ outcomes \subseteq [claim : Claims, outcome : Outcomes]
  /\ {o.claim : o \in outcomes} = {r.claim : r \in responseRows}
  /\ early \in BOOLEAN

Newest(rows, r) == r \in rows /\ \A s \in rows : s.claim.seq <= r.claim.seq

Ruling(decisions) == \E r \in policyRows : Newest(policyRows, r) /\ r.decision \in decisions

\* The hand-over of a review is that of its stage and of the decision it was opened for.
Handed ==
  \A a \in Approvals : appr[a].status # "absent" =>
    /\ appr[a].approved_next = ApprovedNextAgent(appr[a].stage, appr[a].policy)
    /\ appr[a].policy # "none" => appr[a].stage = "policy"

\* Policy routes a case past the reviewer only by what it decided.
Ruled ==
  \A r \in policyRows : /\ r.route = "refund_agent" => r.decision = "approve"
                        /\ r.route = "response_agent" => r.decision \in {"deny", "request_info"}

Matched == \A o, p \in outcomes : o.claim = p.claim => o = p

\* What was paid was ruled payable, and a Policy review decides the newest ruling.
PaidAsRuled == refunds # {} => Ruling({"approve", "manual_review"})

DecidedAsRuled ==
  (claim # NoClaim /\ appr[claim.appr].stage = "policy") => Ruling({appr[claim.appr].policy})

\* An answer that fits the money and the rulings.
Warranted(outcome) ==
  /\ outcome = "approved" => refunds # {}
  /\ outcome = "denied" => /\ refunds = {} \/ ResponseReviewWas("rejected")
                           /\ (\E a \in Resolved : appr[a].status = "rejected") \/ Ruling({"deny"})
  /\ outcome # "manual_review"

NewestWarranted == \E o \in outcomes : Newest(outcomes, o) /\ Warranted(o.outcome)

OwnAnswered == OwnRows(responseRows, claim.appr) # {}

\* A continuation is completed by a release, or by an answer that asks nothing.
Closed ==
  \/ appr[claim.appr].status = "approved" /\ appr[claim.appr].stage = "response"
  \/ \E o \in outcomes : /\ Newest(outcomes, o) /\ o.claim.appr = claim.appr
                         /\ o.outcome # "need_info"

Accounts ==
  /\ Handed /\ Ruled /\ Matched /\ PaidAsRuled /\ DecidedAsRuled
  /\ claim # NoClaim =>
       /\ OwnAnswered => ~PolicyOwed /\ ~RefundOwed
       /\ (OwnAnswered \/ appr[claim.appr].stage = "response") => NewestWarranted
       /\ wf.status = "completed" => Closed

AnswerPcs == {"enter_refund", "refund", "enter_response", "response", "persist_response"}

\* A request on its way to an answer will not ask the customer and call that completed.
Answering(w) ==
  /\ (req[w].pc \in {"mark", "recover_mark"} /\ req[w].status = "completed") => Closed
  /\ req[w].pc \in ReviewPcs => req[w].status = "pending_human"
  /\ req[w].pc \in AnswerPcs =>
       /\ req[w].status = "completed" => ContinuationOutcome(claim) # "need_info"
       /\ \A r \in OwnRows(policyRows, claim.appr) : r.route # "human_approval"
       /\ NextAgent(appr[claim.appr]) # "end"

AnswerInv == Accounts /\ \A w \in Workers : Owner(w) => Answering(w)

OrderlyAnswers == ~early => AnswerInv

\* The run's answer, until a reviewer decides.
Plain ==
  \/ run.decision = "none"
  \/ run.decision = "approve" /\ 0 \in refunds
  \/ run.decision \in {"deny", "request_info"} /\ 0 \notin refunds

FirstAnswer ==
  claim = NoClaim =>
    /\ Ruled
    /\ \A o, p \in outcomes : o = p
    /\ refunds # {} => \E r \in policyRows : r.decision = "approve"
    /\ run.node \in {"triage_governance", "triage"} => run.decision = "none"
    /\ run.node = "refund" => run.decision = "approve"
    /\ (run.node \in {"refund", "human_approval", "response_governance", "response"}
          /\ run.decision # "none") => \E r \in policyRows : r.decision = run.decision
    /\ run.paused => nAppr # 0
    /\ (run.node \in {"response_governance", "response"} /\ ~run.paused) => Plain
    /\ (run.node \notin {"human_approval", "verify", "failing", "end"}
          \/ (run.node = "human_approval" /\ run.stage # "response")) => outcomes = {}
    /\ (nAppr = 0 \/ appr[1].stage = "response") => \A o \in outcomes : Warranted(o.outcome)
    /\ wf.status = "completed" =>
         /\ run.node \in {"verify", "failing", "end"}
         /\ \E o \in outcomes : o.outcome # "need_info"
------------------------------------------------------------------------------------
(* Who tells the outcome.                                                           *)

\* The run tells one when it persists its answer.
LEMMA TellsRun ==
  ASSUME CaseInv, InitialRun, TellOutcome
  PROVE  \/ /\ RunPersistResponse
            /\ \E o \in InitialOutcomes(run) : outcomes' = {[claim |-> NoClaim, outcome |-> o]}
         \/ ~RunPersistResponse /\ UNCHANGED <<outcomes, responseRows>>
<1>0. UNCHANGED req /\ run \in [node : RunNodes, decision : PolicyDecisions \cup {"none"},
                                stage : Stages, blocked : BOOLEAN, paused : BOOLEAN]
  BY DEF InitialRun, TriageGovernance, PersistTriage, RunPolicy, RunRefund, HumanApprovalNode,
         RunResponseGovernance, RunPersistResponse, VerifyPersisted, RunRaises,
         RecordWorkflowFailure, RunDies, vars, dbVars, CaseInv, CaseTypes
<1>1. \A w \in Workers : ~AnsweredUnder(w)
  BY <1>0 DEF AnsweredUnder
<1>2. CASE RunPersistResponse
  <2>1. Answered
    BY <1>0, <1>2 DEF RunPersistResponse, Answered, Running, Proceed
  <2> QED BY <1>1, <1>2, <2>1 DEF TellOutcome
<1>3. CASE ~RunPersistResponse
  <2>1. UNCHANGED responseRows
    BY <1>3 DEF InitialRun, TriageGovernance, PersistTriage, RunPolicy, RunRefund,
                HumanApprovalNode, RunResponseGovernance, VerifyPersisted, RunRaises,
                RecordWorkflowFailure, RunDies, vars, dbVars
  <2>2. CASE RunRaises \/ RunDies
    <3>1. run'.node \in {"failing", "end"}
      BY <1>0, <2>2 DEF RunRaises, RunDies, Proceed
    <3> QED BY <1>1, <1>3, <2>1, <3>1 DEF TellOutcome, Answered
  <2>3. CASE ~(RunRaises \/ RunDies)
    <3>1. ~Running("response")
      BY <1>3, <2>3 DEF InitialRun, TriageGovernance, PersistTriage, RunPolicy, RunRefund,
                        HumanApprovalNode, RunResponseGovernance, VerifyPersisted,
                        RecordWorkflowFailure, Running
    <3> QED BY <1>1, <1>3, <2>1, <3>1 DEF TellOutcome, Answered
  <2> QED BY <2>2, <2>3
<1> QED BY <1>2, <1>3

\* A step of a request leaves the others alone, and only one of its steps writes an answer.
LEMMA StepFrame ==
  ASSUME TypeInv, NEW w \in Workers, Resolve(w) \/ RunStage(w) \/ Fail(w)
  PROVE  /\ \A v \in Workers : v # w => req'[v] = req[v]
         /\ responseRows' = responseRows \/ PersistResponse(w)
<1>0. req \in [Workers -> Requests]
  BY DEF TypeInv, TypeOK
<1>1. CASE Resolve(w)
  <2>1. UNCHANGED responseRows /\ \E r : req' = [req EXCEPT ![w] = r]
    BY <1>1 DEF Resolve, DecideReview, RetryContinuation
  <2> QED BY <1>0, <2>1
<1>2. CASE EnterStep(w) \/ PersistRefund(w) \/ PersistResponse(w) \/ MarkContinuation(w)
  BY <1>0, <1>2 DEF EnterStep, PersistRefund, PersistResponse, MarkContinuation, Goto
<1>3. CASE \/ Heartbeat(w) \/ \E b \in BOOLEAN : SaveResponseGovernance(w, b)
           \/ \E d \in PolicyDecisions, b \in BOOLEAN : PersistPolicy(w, d, b)
  BY <1>0, <1>3 DEF Heartbeat, SaveResponseGovernance, PersistPolicy
<1>4. CASE EnsurePolicyReview(w) \/ EnsureResponseReview(w) \/ EnsureRecoveredReview(w)
  <2>1. \E stage, marker, pc : EnsureHumanApproval(w, stage, marker, pc)
    BY <1>4 DEF EnsurePolicyReview, EnsureResponseReview, EnsureRecoveredReview
  <2> QED BY <1>0, <2>1 DEF EnsureHumanApproval
<1>5. CASE Fail(w)
  BY <1>0, <1>5 DEF Fail, StepFails, RecordFailure, RequestEnds, Goto, dbVars
<1> QED BY <1>1, <1>2, <1>3, <1>4, <1>5 DEF RunStage

\* Of the service's steps only the one that persists an answer leads on from it.
LEMMA OnlyAnswersLeadOn ==
  ASSUME TypeInv, NEW w \in Workers, AnsweredUnder(w), Resolve(w) \/ RunStage(w) \/ Fail(w)
  PROVE  PersistResponse(w)
<1>0. req[w].pc = "persist_response" /\ req'[w].pc \in {"response_review", "mark"}
  BY DEF AnsweredUnder
<1>1. ~Resolve(w)
  BY <1>0 DEF Resolve, DecideReview, RetryContinuation, AppendClaim
<1>2. ~(EnterStep(w) \/ PersistRefund(w) \/ MarkContinuation(w))
  BY <1>0 DEF EnterStep, PersistRefund, MarkContinuation, AtStage, EnterPcs
<1>3. ~(EnsurePolicyReview(w) \/ EnsureResponseReview(w) \/ EnsureRecoveredReview(w))
  BY <1>0 DEF EnsurePolicyReview, EnsureResponseReview, EnsureRecoveredReview, AtStage
<1>4. /\ ~Heartbeat(w)
      /\ ~\E d \in PolicyDecisions, b \in BOOLEAN : PersistPolicy(w, d, b)
      /\ ~\E b \in BOOLEAN : SaveResponseGovernance(w, b)
  BY <1>0 DEF Heartbeat, PersistPolicy, SaveResponseGovernance, AtStage
<1>5. ~RecordFailure(w)
  BY <1>0 DEF RecordFailure, AtStage
<1>6. ~(StepFails(w) \/ RequestEnds(w))
  BY <1>0 DEF StepFails, RequestEnds, Goto, Idle, TypeInv, TypeOK, Requests
<1> QED BY <1>1, <1>2, <1>3, <1>4, <1>5, <1>6 DEF RunStage, Fail

LEMMA TellsService ==
  ASSUME TypeInv, NEW w \in Workers, Continuation(w), UNCHANGED run, TellOutcome
  PROVE  \/ /\ PersistResponse(w)
            /\ outcomes' = outcomes \cup
                              {[claim |-> claim, outcome |-> ContinuationOutcome(claim)]}
         \/ ~PersistResponse(w) /\ UNCHANGED <<outcomes, responseRows>>
<1>0. /\ Resolve(w) \/ RunStage(w) \/ Fail(w)
      /\ req \in [Workers -> Requests] /\ ~Answered
  BY DEF Continuation, TypeInv, TypeOK, Answered, Running
<1>1. CASE PersistResponse(w)
  <2>1. AnsweredUnder(w)
    BY <1>0, <1>1 DEF PersistResponse, AtStage, AnsweredUnder, Goto, Requests
  <2> QED BY <1>0, <1>1, <2>1 DEF TellOutcome
<1>2. CASE ~PersistResponse(w)
  <2>1. ~AnsweredUnder(w)
    BY <1>0, <1>2, OnlyAnswersLeadOn
  <2>2. \A v \in Workers : v # w => req'[v] = req[v]
    BY <1>0, StepFrame
  <2>3. \A v \in Workers : ~AnsweredUnder(v)
    BY <2>1, <2>2 DEF AnsweredUnder
  <2>4. UNCHANGED responseRows
    BY <1>0, <1>2, StepFrame
  <2> QED BY <1>0, <1>2, <2>3, <2>4 DEF TellOutcome
<1> QED BY <1>1, <1>2

LEMMA AnswersAreOutcomes ==
  ContinuationOutcome(claim) \in Outcomes /\ InitialOutcomes(run) \subseteq Outcomes
BY DEF ContinuationOutcome, InitialOutcomes, AnswerTo, Outcomes

LEMMA StatusTypesStep == CaseInv /\ StatusTypes /\ [StatusNext]_statusVars => StatusTypes'
<1> SUFFICES ASSUME CaseInv, StatusTypes, [StatusNext]_statusVars PROVE StatusTypes'
  OBVIOUS
<1>0. claim \in Claims /\ NoClaim \in Claims /\ TypeInv
  BY NoClaimType DEF CaseInv, CaseTypes, TypeInv, TypeOK
<1>1. CASE UNCHANGED statusVars
  BY <1>1 DEF statusVars, caseVars, vars, dbVars, StatusTypes
<1>2. CASE StatusNext
  <2>0. CaseNext /\ TellOutcome /\ early' \in BOOLEAN
    BY <1>2 DEF StatusNext, StatusTypes
  <2>1. CASE UNCHANGED <<outcomes, responseRows>>
    BY <2>0, <2>1 DEF StatusTypes
  <2>2. CASE InitialRun
    <3>1. CASE RunPersistResponse
      <4>1. PICK o \in InitialOutcomes(run) : outcomes' = {[claim |-> NoClaim, outcome |-> o]}
        BY <2>0, <2>2, <3>1, TellsRun
      <4>2. responseRows' = {[claim |-> NoClaim, blocked |-> run.blocked]}
        BY <3>1 DEF RunPersistResponse
      <4> QED BY <1>0, <2>0, <4>1, <4>2, AnswersAreOutcomes DEF StatusTypes
    <3> QED BY <2>0, <2>1, <2>2, <3>1, TellsRun
  <2>3. CASE LeaseExpires /\ UNCHANGED <<run, allowed>>
    <3>1. UNCHANGED <<req, run, responseRows>>
      BY <2>3 DEF LeaseExpires
    <3>2. ~Answered /\ \A w \in Workers : ~AnsweredUnder(w)
      BY <3>1 DEF Answered, Running, AnsweredUnder
    <3> QED BY <2>0, <2>1, <3>1, <3>2 DEF TellOutcome
  <2>4. ASSUME NEW w \in Workers, Continuation(w), UNCHANGED run PROVE StatusTypes'
    <3>1. CASE PersistResponse(w)
      <4> DEFINE o == [claim |-> claim, outcome |-> ContinuationOutcome(claim)]
                 r == [claim |-> claim, blocked |-> req[w].status = "pending_human"]
      <4>1. outcomes' = outcomes \cup {o} /\ responseRows' = responseRows \cup {r}
        BY <1>0, <2>0, <2>4, <3>1, TellsService DEF PersistResponse
      <4>2. o \in [claim : Claims, outcome : Outcomes] /\ o.claim = claim /\ r.claim = claim
        BY <1>0, AnswersAreOutcomes
      <4> HIDE DEF o, r
      <4> QED BY <2>0, <4>1, <4>2 DEF StatusTypes
    <3> QED BY <1>0, <2>0, <2>1, <2>4, <3>1, TellsService
  <2> QED BY <2>0, <2>2, <2>3, <2>4 DEF CaseNext
<1> QED BY <1>1, <1>2

LEMMA StatusTypesHold == StatusSpec => []StatusTypes
<1>1. StatusInit => StatusTypes
  BY DEF StatusInit, CaseInit, StatusTypes
<1> QED BY <1>1, StatusTypesStep, StatusInvHolds, PTL DEF StatusSpec

\* Every answer told is one of the outcomes and stands beside a Response row, and the queue
\* has one of its eight words for every case.
THEOREM StatusTypeCorrect == StatusSpec => []StatusTypeOK
<1>1. Status \in Shown
  BY DEF Status, Shown, ApprovedAs
<1>2. CaseInv /\ StatusTypes => StatusTypeOK
  BY <1>1 DEF CaseInv, CaseTypes, CaseTypeOK, TypeInv, StatusTypes, StatusTypeOK
<1> QED BY <1>2, StatusTypesHold, StatusInvHolds, PTL

------------------------------------------------------------------------------------
(* What a completed case was told: frames.                                          *)

\* The newest ruling is one row.
LEMMA OneRuling ==
  ASSUME IInv, ReadInv, NEW X, NEW Y, Ruling(X), Ruling(Y)
  PROVE  X \cap Y # {}
<1>1. PICK r : Newest(policyRows, r) /\ r.decision \in X
  BY DEF Ruling
<1>2. PICK s : Newest(policyRows, s) /\ s.decision \in Y
  BY DEF Ruling
<1>3. r.claim.seq \in Nat /\ s.claim.seq \in Nat
  BY <1>1, <1>2 DEF Newest, IInv, TypeInv, TypeOK, Claims
<1>4. r = s
  BY <1>1, <1>2, <1>3 DEF Newest, ReadInv, Stamped
<1> QED BY <1>1, <1>2, <1>4

LEMMA OwnRules ==
  ASSUME IInv, ReadInv, NEW r \in OwnRows(policyRows, claim.appr)
  PROVE  Newest(policyRows, r) /\ Latest(OwnRows(policyRows, claim.appr)) = r
         /\ \A s \in OwnRows(policyRows, claim.appr) : s = r
<1>1. r \in policyRows /\ r.claim.appr = claim.appr
  BY DEF OwnRows
<1>2. \A s \in OwnRows(policyRows, claim.appr) : s = r
  BY <1>1 DEF OwnRows, IInv, SafeInv, Progress, PolicyOnce
<1>3. r.claim.seq \in Nat
  BY <1>1 DEF IInv, TypeInv, TypeOK, Claims
<1>4. Latest(OwnRows(policyRows, claim.appr)) = r
  BY <1>2, <1>3 DEF Latest
<1> QED BY <1>1, <1>2, <1>4, OwnIsNewest DEF Newest

\* What the accounts of the continuation under way are read from.
LEMMA AccountsRead ==
  ASSUME IInv, claim # NoClaim, UNCHANGED <<policyRows, responseRows, refunds, outcomes>>,
         claim'.appr = claim.appr, \A s \in Resolved : s \in Resolved' /\ appr'[s] = appr[s]
  PROVE  /\ Closed' <=> Closed
         /\ ContinuationOutcome(claim)' = ContinuationOutcome(claim)
         /\ OwnRows(policyRows, claim.appr)' = OwnRows(policyRows, claim.appr)
         /\ OwnAnswered' <=> OwnAnswered
         /\ appr'[claim.appr] = appr[claim.appr]
<1>1. appr'[claim.appr] = appr[claim.appr]
  BY DEF IInv, SafeInv, Lineage
<1>2. \A rows : OwnRows(rows, claim'.appr) = OwnRows(rows, claim.appr)
  BY DEF OwnRows
<1>3. OwnRows(policyRows, claim.appr)' = OwnRows(policyRows, claim.appr)
  BY <1>2 DEF OwnRows
<1>4. OwnAnswered' <=> OwnAnswered
  BY DEF OwnAnswered, OwnRows
<1>5. ContinuationOutcome(claim)' = ContinuationOutcome(claim)
  BY <1>1, <1>3 DEF ContinuationOutcome
<1>6. Closed' <=> Closed
  BY <1>1 DEF Closed, Newest
<1> QED BY <1>1, <1>3, <1>4, <1>5, <1>6

\* A step that answers nothing, decides nothing and pays nothing.
LEMMA AccountsKept ==
  ASSUME IInv, Accounts, UNCHANGED <<policyRows, responseRows, refunds, outcomes>>,
         claim' = claim \/ (claim # NoClaim /\ claim'.appr = claim.appr),
         Handed', Resolved' = Resolved, \A s \in Resolved : appr'[s] = appr[s],
         Finished \subseteq Finished',
         wf'.status = "completed" => wf.status = "completed" \/ Closed
  PROVE  Accounts'
<1>1. Ruled' /\ Matched' /\ PaidAsRuled'
  BY DEF Accounts, Ruled, Matched, PaidAsRuled, Ruling, Newest
<1>2. CASE claim' = NoClaim
  BY <1>1, <1>2 DEF Accounts, DecidedAsRuled
<1>3. CASE claim' # NoClaim
  <2>0. claim # NoClaim /\ claim'.appr = claim.appr
    BY <1>3
  <2>1. /\ Closed' <=> Closed
        /\ OwnRows(policyRows, claim.appr)' = OwnRows(policyRows, claim.appr)
        /\ OwnAnswered' <=> OwnAnswered
        /\ appr'[claim.appr] = appr[claim.appr]
    BY <2>0, AccountsRead
  <2>2. DecidedAsRuled'
    BY <2>0, <2>1 DEF Accounts, DecidedAsRuled, Ruling, Newest
  <2>3. (PolicyOwed' => PolicyOwed) /\ (RefundOwed' => RefundOwed)
    BY <2>0, <2>1 DEF PolicyOwed, RefundOwed, RefundRoute
  <2>4. NewestWarranted => NewestWarranted'
    BY DEF NewestWarranted, Newest, Warranted, Ruling, ResponseReviewWas
  <2> QED BY <1>1, <2>0, <2>1, <2>2, <2>3, <2>4 DEF Accounts
<1> QED BY <1>2, <1>3

LEMMA HandedKept == ASSUME Handed, UNCHANGED appr PROVE Handed'
BY DEF Handed

LEMMA MovedAnswers ==
  ASSUME IInv, AnswerInv,
         UNCHANGED <<wf, appr, claim, revoked, done, policyRows, responseRows, refunds, outcomes>>,
         \A v \in Workers : req'[v] = req[v] \/ req'[v].pc \in {"failing", "idle"}
  PROVE  AnswerInv'
<1>0. Resolved' = Resolved /\ Finished' = Finished
  BY DEF Resolved, Finished
<1>1. Accounts'
  BY <1>0, HandedKept, AccountsKept DEF AnswerInv, Accounts
<1>2. ASSUME NEW v \in Workers, Owner(v)' PROVE Answering(v)'
  <2>1. CASE req'[v] = req[v]
    <3>1. Owner(v)
      BY <1>2, <2>1 DEF Owner, Held, ActiveApprovalClaim, Token
    <3>2. Answering(v) /\ claim # NoClaim
      BY <3>1, OwnerFacts DEF AnswerInv, IInv, SafeInv
    <3> QED BY <1>0, <2>1, <3>2, AccountsRead DEF Answering
  <2>2. CASE req'[v].pc \in {"failing", "idle"}
    BY <2>2 DEF Answering, ReviewPcs, AnswerPcs
  <2> QED BY <1>2, <2>1, <2>2
<1> QED BY <1>1, <1>2 DEF AnswerInv

LEMMA OwnerStepAnswers ==
  ASSUME IInv, NEW w \in Workers, Owner(w), NEW r, UNCHANGED claim,
         req' = [req EXCEPT ![w] = r], Accounts', Owner(w)' => Answering(w)'
  PROVE  AnswerInv'
<1>0. req \in [Workers -> Requests] /\ TypeInv /\ Holders
  BY DEF IInv, SafeInv, TypeInv, TypeOK
<1>1. ASSUME NEW v \in Workers, Owner(v)' PROVE v = w
  <2>1. CASE v # w
    <3>1. req'[v] = req[v]
      BY <1>0, <2>1
    <3> QED BY <1>0, <1>1, <3>1, OthersKept
  <2> QED BY <2>1
<1> QED BY <1>1 DEF AnswerInv

\* A step of the owner that leaves the accounts alone.
LEMMA QuietOwnerAnswers ==
  ASSUME IInv, AnswerInv, NEW w \in Workers, Owner(w), NEW r,
         UNCHANGED <<claim, policyRows, responseRows, refunds, outcomes>>,
         Handed', Resolved' = Resolved, \A s \in Resolved : appr'[s] = appr[s],
         Finished \subseteq Finished',
         wf'.status = "completed" => wf.status = "completed" \/ Closed,
         req' = [req EXCEPT ![w] = r],
         (r.pc \in {"mark", "recover_mark"} /\ r.status = "completed") => Closed,
         r.pc \in ReviewPcs => r.status = "pending_human",
         r.pc \in AnswerPcs =>
           /\ req[w].pc \in AnswerPcs /\ r.status \in {req[w].status, "pending_human"}
  PROVE  AnswerInv'
<1>0. req \in [Workers -> Requests] /\ claim # NoClaim /\ req'[w] = r
  BY OwnerFacts DEF IInv, SafeInv, TypeInv, TypeOK
<1>1. Accounts'
  BY AccountsKept DEF AnswerInv
<1>2. /\ Closed' <=> Closed
      /\ ContinuationOutcome(claim)' = ContinuationOutcome(claim)
      /\ OwnRows(policyRows, claim.appr)' = OwnRows(policyRows, claim.appr)
      /\ appr'[claim.appr] = appr[claim.appr]
  BY <1>0, AccountsRead
<1>3. Answering(w) /\ NextAgent(appr[claim.appr])' = NextAgent(appr[claim.appr])
  BY <1>2 DEF AnswerInv, NextAgent
<1>4. Answering(w)'
  BY <1>0, <1>2, <1>3 DEF Answering
<1> QED BY <1>1, <1>4, OwnerStepAnswers

------------------------------------------------------------------------------------
(* What a completed case was told: the steps of the service.                        *)

LEMMA HandedInserted ==
  ASSUME TypeInv, Handed, NEW row, row.approved_next = ApprovedNextAgent(row.stage, row.policy),
         row.policy # "none" => row.stage = "policy",
         appr' = [appr EXCEPT ![nAppr + 1] = row]
  PROVE  Handed'
<1>1. \A a \in Approvals : appr'[a] = appr[a] \/ appr'[a] = row
  BY DEF TypeInv, TypeOK
<1> QED BY <1>1 DEF Handed

LEMMA PendingHanded ==
  \A stage \in Stages, polApp \in BOOLEAN : \A d, m :
    LET row == PendingRow(stage, polApp, d, m)
    IN /\ row.approved_next = ApprovedNextAgent(row.stage, row.policy)
       /\ row.policy # "none" => row.stage = "policy"
BY DEF PendingRow, ApprovedNextAgent, Stages

LEMMA EnterStepAnswers ==
  ASSUME IInv, AnswerInv, NEW w \in Workers, EnterStep(w), UNCHANGED outcomes
  PROVE  AnswerInv'
<1> DEFINE pc == [enter_policy |-> "policy", enter_policy_review |-> "policy_review",
                  enter_refund |-> "refund", enter_response |-> "response",
                  enter_recover_review |-> "recover_review"][req[w].pc]
<1>1. /\ Owner(w) /\ req[w].pc \in EnterPcs /\ req' = [req EXCEPT ![w].pc = pc]
      /\ UNCHANGED <<wf, appr, claim, done, policyRows, responseRows, refunds>>
  BY DEF EnterStep, Goto, Owner, Held, EnterPcs
<1>2. /\ pc \in ReviewPcs => req[w].pc \in ReviewPcs
      /\ pc \in AnswerPcs => req[w].pc \in AnswerPcs
      /\ pc \notin {"mark", "recover_mark"}
  BY <1>1 DEF EnterPcs, ReviewPcs, AnswerPcs
<1> HIDE DEF pc
<1> DEFINE r == [req[w] EXCEPT !.pc = pc]
<1>3. req' = [req EXCEPT ![w] = r] /\ r.pc = pc /\ r.status = req[w].status
  BY <1>1 DEF IInv, TypeInv, TypeOK, Requests
<1>4. Handed' /\ Resolved' = Resolved /\ Finished' = Finished
  BY <1>1, HandedKept DEF AnswerInv, Accounts, Resolved, Finished
<1>5. Answering(w)
  BY <1>1 DEF AnswerInv
<1> HIDE DEF r
<1> QED BY <1>1, <1>2, <1>3, <1>4, <1>5, QuietOwnerAnswers DEF Answering

LEMMA SaveResponseGovernanceAnswers ==
  ASSUME IInv, AnswerInv, NEW w \in Workers, NEW b \in BOOLEAN, SaveResponseGovernance(w, b),
         UNCHANGED outcomes
  PROVE  AnswerInv'
<1> DEFINE r == [req[w] EXCEPT !.pc = "persist_response",
                               !.status = IF b THEN "pending_human" ELSE @]
<1>1. /\ Owner(w) /\ req[w].pc = "response"
      /\ UNCHANGED <<wf, appr, claim, done, policyRows, responseRows, refunds>>
      /\ req' = [req EXCEPT ![w] = r]
  BY DEF SaveResponseGovernance, AtStage, Owner, Held
<1>2. r.pc = "persist_response" /\ r.status \in {req[w].status, "pending_human"}
  BY DEF IInv, TypeInv, TypeOK, Requests
<1>3. Handed' /\ Resolved' = Resolved /\ Finished' = Finished
  BY <1>1, HandedKept DEF AnswerInv, Accounts, Resolved, Finished
<1> HIDE DEF r
<1> QED BY <1>1, <1>2, <1>3, QuietOwnerAnswers DEF ReviewPcs, AnswerPcs

LEMMA MarkContinuationAnswers ==
  ASSUME IInv, AnswerInv, NEW w \in Workers, MarkContinuation(w), UNCHANGED outcomes
  PROVE  AnswerInv'
<1>1. /\ Owner(w) /\ req[w].pc \in {"mark", "recover_mark"}
      /\ wf' = TerminalWorkflowState(req[w].status)
      /\ req' = [req EXCEPT ![w] = Idle]
      /\ UNCHANGED <<appr, claim, policyRows, responseRows, refunds>>
  BY DEF MarkContinuation, Owner, Held
<1>2. Handed' /\ Resolved' = Resolved
  BY <1>1, HandedKept DEF AnswerInv, Accounts, Resolved
<1>3. Finished \subseteq Finished'
  <2> DEFINE end == [status |-> req[w].status, child |-> req[w].child, claim |-> claim]
  <2>1. \A a \in Approvals : done'[a] = IF a = claim.appr THEN end ELSE done[a]
    BY DEF MarkContinuation, IInv, TypeInv, TypeOK
  <2>2. claim.appr \notin Finished
    BY <1>1, OwnerFacts DEF IInv, SafeInv
  <2> HIDE DEF end
  <2> QED BY <2>1, <2>2 DEF Finished
<1>4. wf'.status = "completed" => Closed
  BY <1>1 DEF TerminalWorkflowState, AnswerInv, Answering
<1> QED BY <1>1, <1>2, <1>3, <1>4, QuietOwnerAnswers DEF Idle, ReviewPcs, AnswerPcs

LEMMA RecordFailureAnswers ==
  ASSUME IInv, AnswerInv, NEW w \in Workers, RecordFailure(w), UNCHANGED outcomes
  PROVE  AnswerInv'
<1>1. /\ Owner(w) /\ req' = [req EXCEPT ![w] = Idle] /\ wf'.status = "failed"
      /\ UNCHANGED <<appr, claim, done, policyRows, responseRows, refunds>>
  BY DEF RecordFailure, AtStage, Owner, Held
<1>2. Handed' /\ Resolved' = Resolved /\ Finished' = Finished
  BY <1>1, HandedKept DEF AnswerInv, Accounts, Resolved, Finished
<1> QED BY <1>1, <1>2, QuietOwnerAnswers DEF Idle, ReviewPcs, AnswerPcs

LEMMA EnsureAnswers ==
  ASSUME IInv, ReadInv, AnswerInv, NEW w \in Workers, NEW stage \in {"policy", "response"},
         NEW marker \in Claims, NEW pc \in {"mark", "recover_mark"},
         EnsureHumanApproval(w, stage, marker, pc), Owner(w), req[w].pc \in ReviewPcs,
         UNCHANGED outcomes,
         stage = "policy" => \E r \in OwnRows(policyRows, claim.appr) : r.route = "human_approval"
  PROVE  AnswerInv'
<1>0. /\ req \in [Workers -> Requests] /\ claim # NoClaim /\ TypeInv
  BY OwnerFacts DEF IInv, SafeInv, TypeInv, TypeOK
<1>1. /\ UNCHANGED <<claim, done, policyRows, responseRows, refunds>>
      /\ \/ UNCHANGED <<wf, appr>>
         \/ /\ Pending = {}
            /\ appr' = [appr EXCEPT ![nAppr + 1] = PendingRow(stage, FALSE, "none", marker)]
            /\ wf' = TerminalWorkflowState("pending_human")
  BY DEF EnsureHumanApproval, InsertReview
<1>2. PICK x : req' = [req EXCEPT ![w].pc = pc, ![w].child = x]
  BY DEF EnsureHumanApproval
<1> DEFINE r == [req[w] EXCEPT !.pc = pc, !.child = x]
<1>3. req' = [req EXCEPT ![w] = r] /\ r.pc = pc /\ r.status = req[w].status
  BY <1>0, <1>2 DEF Requests
<1>4. Resolved' = Resolved /\ (\A s \in Resolved : appr'[s] = appr[s]) /\ Finished' = Finished
  <2>1. stage \in Stages
    BY DEF Stages
  <2> QED BY <1>1, <2>1, EnsureDecidesNone DEF Finished
<1>5. Handed'
  <2>0. Handed
    BY DEF AnswerInv, Accounts
  <2>1. CASE appr' = appr
    BY <2>0, <2>1, HandedKept
  <2>2. CASE appr' # appr
    <3> DEFINE review == PendingRow(stage, FALSE, "none", marker)
    <3>1. appr' = [appr EXCEPT ![nAppr + 1] = review]
      BY <1>1, <2>2
    <3>2. /\ review.approved_next = ApprovedNextAgent(review.stage, review.policy)
          /\ review.policy # "none" => review.stage = "policy"
      <4>1. stage \in Stages
        BY DEF Stages
      <4> QED BY <4>1, PendingHanded
    <3> HIDE DEF review
    <3> QED BY <1>0, <2>0, <3>1, <3>2, HandedInserted
  <2> QED BY <2>1, <2>2
<1>6. wf'.status = "completed" => wf.status = "completed"
  <2>1. TerminalWorkflowState("pending_human").status = "pending_human"
    BY DEF TerminalWorkflowState
  <2> QED BY <1>1, <2>1
<1>7. req[w].status = "pending_human"
  BY DEF AnswerInv, Answering
<1> HIDE DEF r
<1> QED BY <1>1, <1>3, <1>4, <1>5, <1>6, <1>7, QuietOwnerAnswers DEF ReviewPcs, AnswerPcs

LEMMA EnsureReviewAnswers ==
  ASSUME IInv, ReadInv, AnswerInv, NEW w \in Workers, UNCHANGED outcomes,
         EnsurePolicyReview(w) \/ EnsureResponseReview(w) \/ EnsureRecoveredReview(w)
  PROVE  AnswerInv'
<1>1. /\ Owner(w) /\ req[w].pc \in {"policy_review", "response_review", "recover_review"}
      /\ claim \in Claims /\ req[w].marker \in Claims
  BY DEF EnsurePolicyReview, EnsureResponseReview, EnsureRecoveredReview, AtStage, Owner, Held,
         IInv, TypeInv, TypeOK, Requests
<1>2. req[w].pc \in ReviewPcs
  BY <1>1 DEF ReviewPcs
<1>3. CASE EnsurePolicyReview(w)
  <2>1. \E r \in OwnRows(policyRows, claim.appr) : r.route = "human_approval"
    BY <1>1, <1>3 DEF IInv, SafeInv, Progress, Placed, EnsurePolicyReview, AtStage
  <2> QED BY <1>1, <1>2, <1>3, <2>1, EnsureAnswers DEF EnsurePolicyReview
<1>4. CASE EnsureResponseReview(w)
  BY <1>1, <1>2, <1>4, EnsureAnswers DEF EnsureResponseReview
<1>5. CASE EnsureRecoveredReview(w)
  BY <1>1, <1>2, <1>5, EnsureAnswers DEF EnsureRecoveredReview
<1> QED BY <1>3, <1>4, <1>5

\* A refund that is routed follows the newest ruling.
LEMMA RoutedAsRuled ==
  ASSUME IInv, ReadInv, Accounts, claim # NoClaim, RefundRoute(claim.appr)
  PROVE  Ruling({"approve", "manual_review"}) /\ appr[claim.appr].stage # "response"
<1>0. /\ claim.appr \in Approvals /\ claim.appr \in Resolved
      /\ appr[claim.appr].stage \in Stages /\ appr[claim.appr].status # "absent"
  BY DEF IInv, SafeInv, Lineage, Resolved, TypeInv, TypeOK, ApprovalRows
<1>1. CASE appr[claim.appr].approved_next = "refund_agent"
  <2>1. /\ appr[claim.appr].stage = "policy"
        /\ appr[claim.appr].policy \in {"approve", "manual_review"}
    BY <1>0, <1>1 DEF Accounts, Handed, ApprovedNextAgent, Stages
  <2>2. Ruling({appr[claim.appr].policy})
    BY <2>1 DEF Accounts, DecidedAsRuled
  <2> QED BY <2>1, <2>2 DEF Ruling
<1>2. ASSUME NEW r \in policyRows, r.claim.appr = claim.appr, r.route = "refund_agent"
      PROVE  Ruling({"approve", "manual_review"}) /\ appr[claim.appr].stage # "response"
  <2>1. r \in OwnRows(policyRows, claim.appr) /\ r.decision = "approve"
    BY <1>2 DEF OwnRows, Accounts, Ruled
  <2>2. Newest(policyRows, r)
    BY <2>1, OwnRules
  <2>3. appr[claim.appr].approved_next = "policy_agent"
    BY <1>0, <1>2 DEF IInv, SafeInv, Progress
  <2> QED BY <1>0, <2>1, <2>2, <2>3 DEF Ruling, IInv, SafeInv, Paid
<1> QED BY <1>1, <1>2 DEF RefundRoute

LEMMA PersistRefundAnswers ==
  ASSUME IInv, ReadInv, AnswerInv, NEW w \in Workers, PersistRefund(w), UNCHANGED outcomes
  PROVE  AnswerInv'
<1> DEFINE r == [req[w] EXCEPT !.pc = "enter_response"]
<1>0. req \in [Workers -> Requests]
  BY DEF IInv, TypeInv, TypeOK
<1>1. /\ Owner(w) /\ req[w].pc = "refund" /\ wf'.status = "running"
      /\ refunds' = refunds \cup {claim.appr}
      /\ req' = [req EXCEPT ![w] = r]
      /\ UNCHANGED <<appr, claim, done, policyRows, responseRows>>
  BY DEF PersistRefund, AtStage, Owner, Held, Goto
<1>2. RefundOwed /\ claim # NoClaim
  BY <1>1, OwnerFacts DEF IInv, SafeInv, Progress, Placed
<1>3. Ruling({"approve", "manual_review"}) /\ appr[claim.appr].stage # "response"
  BY <1>2, RoutedAsRuled DEF AnswerInv, RefundOwed
<1>4. ~OwnAnswered
  BY <1>2 DEF AnswerInv, Accounts
<1>5. OwnRows(policyRows, claim.appr)' = OwnRows(policyRows, claim.appr) /\ ~OwnAnswered'
  BY <1>1, <1>4 DEF OwnRows, OwnAnswered
<1>6. Accounts'
  <2>1. Handed' /\ Ruled' /\ Matched' /\ DecidedAsRuled' /\ Ruling({"approve", "manual_review"})'
    BY <1>1, <1>3 DEF AnswerInv, Accounts, Handed, Ruled, Matched, DecidedAsRuled, Ruling, Newest
  <2> QED BY <1>1, <1>3, <1>5, <2>1 DEF Accounts, PaidAsRuled
<1>7. Answering(w)'
  <2>1. req'[w].pc = "enter_response"
    BY <1>0, <1>1 DEF Requests
  <2>2. ContinuationOutcome(claim)' = "approved"
    BY <1>1, <1>2 DEF ContinuationOutcome, RefundOwed, RefundRoute
  <2>3. Answering(w)
    BY <1>1 DEF AnswerInv
  <2>4. NextAgent(appr[claim.appr])' = NextAgent(appr[claim.appr])
    BY <1>1 DEF NextAgent
  <2> QED BY <1>1, <1>5, <2>1, <2>2, <2>3, <2>4 DEF Answering, AnswerPcs, ReviewPcs
<1> HIDE DEF r
<1> QED BY <1>1, <1>6, <1>7, OwnerStepAnswers

\* The answer a continuation persists fits the money and the rulings.
LEMMA AnswerIsWarranted ==
  ASSUME IInv, ReadInv, AnswerInv, NEW w \in Workers, Owner(w), req[w].pc = "persist_response"
  PROVE  Warranted(ContinuationOutcome(claim))
<1> DEFINE row == appr[claim.appr]
           own == OwnRows(policyRows, claim.appr)
           ruling == IF own = {} THEN row.policy ELSE Latest(own).decision
<1>0. /\ claim # NoClaim /\ claim.appr \in Approvals /\ claim.appr # 0 /\ claim.appr \in Resolved
      /\ claim.appr \notin Finished /\ row.stage \in Stages /\ row.status \in {"approved", "rejected"}
      /\ Accounts /\ ~PolicyOwed /\ ~RefundOwed
  BY OwnerFacts, NoClaimType, NothingOwed
     DEF IInv, SafeInv, Resolved, TypeInv, TypeOK, ApprovalRows, LatePcs, AnswerInv
<1>1. /\ \A r \in own : r.route # "human_approval"
      /\ NextAgent(row) # "end"
  BY DEF AnswerInv, Answering, AnswerPcs
<1>2. CASE row.status = "rejected"
  <2>1. ContinuationOutcome(claim) = "denied"
    BY <1>2 DEF ContinuationOutcome
  <2>2. refunds = {} \/ ResponseReviewWas("rejected")
    <3> SUFFICES ASSUME refunds # {} PROVE ResponseReviewWas("rejected")
      OBVIOUS
    <3>1. claim.appr \notin refunds
      BY <1>0, <1>2 DEF IInv, SafeInv, Paid, RefundRoute
    <3>2. row.stage = "response"
      BY <1>0, <3>1 DEF IInv, SafeInv, Paid
    <3> QED BY <1>0, <1>2, <3>2 DEF ResponseReviewWas
  <2> QED BY <1>0, <1>2, <2>1, <2>2 DEF Warranted
<1>3. CASE row.status = "approved" /\ claim.appr \in refunds
  <2>1. ContinuationOutcome(claim) = "approved"
    BY <1>3 DEF ContinuationOutcome
  <2> QED BY <1>3, <2>1 DEF Warranted
<1>4. CASE row.status = "approved" /\ claim.appr \notin refunds
  <2>1. ~RefundRoute(claim.appr)
    BY <1>0, <1>4 DEF RefundOwed
  <2>2. ruling \in {"deny", "request_info"} /\ Ruling({ruling})
    <3>1. ASSUME NEW r \in own
          PROVE  ruling = r.decision /\ r.decision \in {"deny", "request_info"} /\ Ruling({ruling})
      <4>1. Latest(own) = r /\ Newest(policyRows, r) /\ r \in policyRows /\ r.claim.appr = claim.appr
        BY <3>1, OwnRules DEF OwnRows
      <4>2. r.route \in PolicyRoutes /\ r.route # "refund_agent"
        BY <1>4, <2>1, <4>1 DEF RefundRoute, IInv, TypeInv, TypeOK
      <4>3. r.decision \in {"deny", "request_info"}
        BY <1>0, <1>1, <3>1, <4>1, <4>2 DEF PolicyRoutes, Accounts, Ruled
      <4> QED BY <3>1, <4>1, <4>3 DEF Ruling
    <3>2. CASE own = {}
      <4>1. row.approved_next # "policy_agent" /\ row.approved_next # "refund_agent"
            /\ row.approved_next # "end"
        BY <1>0, <1>1, <1>4, <2>1, <3>2 DEF PolicyOwed, RefundRoute, NextAgent
      <4>2. row.stage = "policy" /\ row.approved_next = ApprovedNextAgent(row.stage, row.policy)
        BY <1>0, <1>4, <4>1 DEF IInv, SafeInv, Paid, Stages, Accounts, Handed
      <4>3. Ruling({row.policy})
        BY <1>0, <4>2 DEF Accounts, DecidedAsRuled
      <4>4. row.policy \in PolicyDecisions
        BY <4>3 DEF Ruling, Newest, IInv, TypeInv, TypeOK
      <4> QED BY <3>2, <4>1, <4>2, <4>3, <4>4 DEF ApprovedNextAgent, PolicyDecisions
    <3> QED BY <3>1, <3>2
  <2>3. ContinuationOutcome(claim) = AnswerTo(ruling)
    BY <1>4 DEF ContinuationOutcome
  <2> HIDE DEF ruling
  <2>4. CASE ruling = "deny"
    <3>1. refunds = {}
      BY <1>0, <2>2, <2>4, OneRuling DEF Accounts, PaidAsRuled
    <3> QED BY <2>2, <2>3, <2>4, <3>1 DEF Warranted, AnswerTo
  <2>5. CASE ruling = "request_info"
    BY <2>3, <2>5 DEF Warranted, AnswerTo
  <2> QED BY <2>2, <2>4, <2>5
<1> QED BY <1>0, <1>2, <1>3, <1>4

LEMMA PersistResponseAnswers ==
  ASSUME IInv, ReadInv, AnswerInv, StatusTypes, NEW w \in Workers, PersistResponse(w),
         outcomes' = outcomes \cup {[claim |-> claim, outcome |-> ContinuationOutcome(claim)]}
  PROVE  AnswerInv'
<1> DEFINE blocked == req[w].status = "pending_human"
           r == [req[w] EXCEPT !.pc = IF blocked THEN "response_review" ELSE "mark"]
<1>0. req \in [Workers -> Requests] /\ claim.seq \in Nat
  BY DEF IInv, TypeInv, TypeOK, Claims
<1>1. /\ Owner(w) /\ req[w].pc = "persist_response"
      /\ wf' = TerminalWorkflowState(req[w].status)
      /\ req' = [req EXCEPT ![w] = r]
      /\ UNCHANGED <<appr, claim, done, policyRows, refunds>>
  BY DEF PersistResponse, AtStage, Owner, Held, Goto
<1>2. PICK o : /\ outcomes' = outcomes \cup {o} /\ o.claim = claim
               /\ o.outcome = ContinuationOutcome(claim)
  <2> DEFINE x == [claim |-> claim, outcome |-> ContinuationOutcome(claim)]
  <2>1. /\ outcomes' = outcomes \cup {x} /\ x.claim = claim
        /\ x.outcome = ContinuationOutcome(claim)
    OBVIOUS
  <2> HIDE DEF x
  <2> QED BY <2>1
<1>3. \A p \in outcomes : p.claim # claim /\ p.claim.seq <= claim.seq
  <2>1. \A p \in outcomes : \E s \in responseRows : p.claim = s.claim
    BY DEF StatusTypes
  <2>2. \A s \in responseRows : s.claim # claim
    BY <1>1 DEF ReadInv, Standing, UnansweredPcs
  <2>3. \A s \in responseRows : s.claim.seq <= claim.seq
    BY DEF IInv, TypeInv, RowsOrdered
  <2> QED BY <2>1, <2>2, <2>3
<1>4. Newest(outcomes, o)'
  BY <1>0, <1>2, <1>3 DEF Newest
<1>5. Answering(w) /\ ~PolicyOwed /\ ~RefundOwed
  BY <1>1, NothingOwed DEF AnswerInv, LatePcs
<1>6. req[w].status = "completed" => Closed'
  BY <1>1, <1>2, <1>4, <1>5 DEF Answering, AnswerPcs, Closed
<1>7. NewestWarranted'
  <2>1. Warranted(o.outcome)
    BY <1>1, <1>2, AnswerIsWarranted
  <2>2. Resolved' = Resolved
    BY <1>1 DEF Resolved
  <2>3. Warranted(o.outcome)'
    BY <1>1, <2>1, <2>2 DEF Warranted, Ruling, Newest, ResponseReviewWas
  <2> QED BY <1>4, <2>3 DEF NewestWarranted, Newest
<1>8. Accounts'
  <2>1. Handed' /\ Ruled' /\ PaidAsRuled' /\ DecidedAsRuled'
    BY <1>1 DEF AnswerInv, Accounts, Handed, Ruled, PaidAsRuled, DecidedAsRuled, Ruling, Newest
  <2>2. Matched'
    BY <1>2, <1>3 DEF AnswerInv, Accounts, Matched
  <2>3. ~PolicyOwed' /\ ~RefundOwed'
    BY <1>1, <1>5, OwedKept
  <2>4. wf'.status = "completed" => req[w].status = "completed"
    BY <1>1 DEF TerminalWorkflowState
  <2> QED BY <1>6, <1>7, <2>1, <2>2, <2>3, <2>4 DEF Accounts
<1>9. Answering(w)'
  <2>1. /\ req'[w].pc = IF blocked THEN "response_review" ELSE "mark"
        /\ req'[w].status = req[w].status
    BY <1>0, <1>1 DEF Requests
  <2> QED BY <1>6, <2>1 DEF Answering, AnswerPcs, ReviewPcs
<1> HIDE DEF r
<1> QED BY <1>1, <1>8, <1>9, OwnerStepAnswers

LEMMA PersistPolicyAnswers ==
  ASSUME IInv, ReadInv, AnswerInv, NEW w \in Workers, NEW d \in PolicyDecisions, NEW b \in BOOLEAN,
         PersistPolicy(w, d, b), UNCHANGED outcomes
  PROVE  AnswerInv'
<1> DEFINE route == PolicyNextAgent(d, b)
           row == [claim |-> claim, decision |-> d, route |-> route]
           status == IF route = "human_approval" THEN "pending_human"
                     ELSE ResponseStatus(appr[claim.appr], route, d)
           pc == EntryOf(route, req[w].refunded)
           r == [req[w] EXCEPT !.pc = pc, !.status = status]
<1>0. req \in [Workers -> Requests] /\ claim.seq \in Nat /\ TypeInv
  BY DEF IInv, TypeInv, TypeOK, Claims
<1>1. /\ Owner(w) /\ req[w].pc = "policy" /\ policyRows' = policyRows \cup {row}
      /\ PersistPolicyApproval(d, route, claim)
      /\ wf' = PolicyWorkflowState(route)
      /\ req' = [req EXCEPT ![w] = r]
      /\ UNCHANGED <<claim, done, responseRows, refunds>>
  BY DEF PersistPolicy, AtStage, Owner, Held
<1>2. PolicyOwed /\ ~req[w].refunded /\ Pending = {} /\ claim.appr \in Resolved
      /\ claim.appr \in Approvals
  BY <1>1, OwnerFacts DEF IInv, SafeInv, Progress, Placed
<1>3. /\ route \in PolicyRoutes
      /\ route = "refund_agent" => d = "approve"
      /\ route = "response_agent" <=> ~b /\ d \in {"deny", "request_info"}
  BY DEF PolicyNextAgent, route_policy, parent_agent_for_route, PolicyDecisions, PolicyRoutes
<1>4. row.claim = claim /\ row.decision = d /\ row.route = route
  OBVIOUS
<1> HIDE DEF route, row
<1>5. Resolved' = Resolved /\ \A s \in Resolved : appr'[s] = appr[s]
  BY PersistPolicyDecidesNone
<1>6. appr[claim.appr].stage = "triage" /\ claim.appr \notin refunds /\ refunds = {} /\ ~OwnAnswered
  <2>1. appr[claim.appr].stage = "triage"
    BY <1>2 DEF PolicyOwed, IInv, SafeInv, Paid
  <2>2. ~RefundRoute(claim.appr)
    BY <1>2 DEF PolicyOwed, RefundRoute, OwnRows
  <2>3. claim.appr \notin refunds
    BY <1>2, <2>2, NoClaimType DEF IInv, SafeInv, Paid
  <2> QED BY <1>2, <2>1, <2>3 DEF PolicyOwed, IInv, SafeInv, Paid, AnswerInv, Accounts
<1>7. OwnRows(policyRows, claim.appr)' = {row}
  BY <1>1, <1>2, <1>4 DEF OwnRows, PolicyOwed
<1>8. Handed'
  <2>1. PendingPolicyApprovals = {}
    BY <1>2 DEF PendingPolicyApprovals
  <2>2. CASE route # "human_approval"
    <3>1. appr' = [a \in Approvals |-> appr[a]]
      BY <1>1, <2>1, <2>2 DEF PersistPolicyApproval
    <3> QED BY <3>1 DEF AnswerInv, Accounts, Handed
  <2>3. CASE route = "human_approval"
    <3> DEFINE review == PendingRow("policy", TRUE, d, claim)
    <3>1. InsertReview(review)
      BY <1>1, <2>1, <2>3 DEF PersistPolicyApproval
    <3>2. /\ review.approved_next = ApprovedNextAgent(review.stage, review.policy)
          /\ review.policy # "none" => review.stage = "policy"
      BY PendingHanded DEF Stages
    <3> HIDE DEF review
    <3> QED BY <1>0, <3>1, <3>2, HandedInserted DEF InsertReview, AnswerInv, Accounts
  <2> QED BY <2>2, <2>3
<1>9. Accounts'
  <2>1. Ruled'
    BY <1>1, <1>3, <1>4 DEF AnswerInv, Accounts, Ruled
  <2>2. Matched'
    BY DEF AnswerInv, Accounts, Matched
  <2>3. PaidAsRuled'
    BY <1>1, <1>6 DEF PaidAsRuled
  <2>4. ~OwnAnswered' /\ appr'[claim'.appr].stage = "triage"
    BY <1>1, <1>2, <1>5, <1>6 DEF OwnAnswered, OwnRows
  <2>5. DecidedAsRuled'
    BY <2>4 DEF DecidedAsRuled
  <2>6. wf'.status # "completed"
    BY <1>1 DEF PolicyWorkflowState
  <2> QED BY <1>8, <2>1, <2>2, <2>3, <2>4, <2>5, <2>6 DEF Accounts
<1>10. Answering(w)'
  <2>1. /\ appr'[claim'.appr] = appr[claim.appr] /\ appr[claim.appr].status = "approved"
        /\ NextAgent(appr[claim.appr]) = "policy_agent"
    BY <1>1, <1>2, <1>5 DEF PolicyOwed, NextAgent
  <2>2. req'[w].pc = pc /\ req'[w].status = status
    BY <1>0, <1>1 DEF Requests
  <2>3. /\ route = "human_approval" => pc = "enter_policy_review" /\ status = "pending_human"
        /\ route # "human_approval" => pc \in {"enter_refund", "enter_response"}
    BY <1>2, <1>3 DEF EntryOf, PolicyRoutes
  <2>4. ContinuationOutcome(claim)' = AnswerTo(d)
    <3>1. Latest({row}) = row
      BY <1>0, <1>4 DEF Latest
    <3> QED BY <1>1, <1>4, <1>6, <1>7, <2>1, <3>1 DEF ContinuationOutcome
  <2>5. (route # "human_approval" /\ status = "completed") => AnswerTo(d) # "need_info"
    <3>1. AnswerTo(d) = "need_info" => d = "request_info"
      BY DEF AnswerTo
    <3>2. (route = "response_agent" /\ d = "request_info") => status # "completed"
      BY <2>1 DEF ResponseStatus
    <3>3. (route # "human_approval" /\ d = "request_info") => route = "response_agent"
      BY <1>3 DEF PolicyRoutes
    <3> QED BY <3>1, <3>2, <3>3
  <2> HIDE DEF pc, status
  <2>6. NextAgent(appr[claim.appr])' # "end"
    BY <2>1 DEF NextAgent
  <2> QED BY <1>4, <1>7, <2>2, <2>3, <2>4, <2>5, <2>6 DEF Answering, AnswerPcs, ReviewPcs
<1> HIDE DEF r
<1> QED BY <1>1, <1>9, <1>10, OwnerStepAnswers

\* What a request that has just resolved a review goes on to.
LEMMA ContinueAnswers ==
  ASSUME IInv, Ruled, NEW row \in ApprovalRows, NEW c \in Claims, c.appr \in Approvals,
         row.approved_next = ApprovedNextAgent(row.stage, row.policy),
         row.policy # "none" => row.stage = "policy",
         OwnRows(policyRows, c.appr) # {} => NextAgent(row) = "policy_agent"
  PROVE  LET own == OwnRows(policyRows, c.appr)
         IN /\ Continue(row, c).pc \in {"mark", "recover_mark"} => NextAgent(row) = "end"
            /\ Continue(row, c).pc \in ReviewPcs => Continue(row, c).status = "pending_human"
            /\ Continue(row, c).pc \in AnswerPcs =>
                 /\ NextAgent(row) # "end" /\ \A r \in own : r.route # "human_approval"
                 /\ (row.status = "approved" /\ Continue(row, c).status = "completed") =>
                      AnswerTo(IF own = {} THEN row.policy ELSE Latest(own).decision) # "need_info"
<1> DEFINE own == OwnRows(policyRows, c.appr)
           reuse == NextAgent(row) = "policy_agent" /\ own # {}
           route == IF reuse THEN Latest(own).route ELSE NextAgent(row)
           policy == IF reuse THEN Latest(own).decision ELSE row.policy
           status == IF route = "human_approval" THEN "pending_human"
                     ELSE ResponseStatus(row, route, policy)
<1>0. TypeInv
  BY DEF IInv
<1>1. NextAgent(row) \in ReviewNextAgents
  BY DEF NextAgent, ApprovalRows, RejectedNextAgent, ReviewNextAgents
<1>2. own # {} => /\ Latest(own) \in own /\ Latest(own) \in policyRows
                  /\ Latest(own).route \in PolicyRoutes
  BY <1>0, LatestIsARow DEF TypeInv, TypeOK, OwnRows
<1>3. own # {} => \A r \in own : r = Latest(own)
  BY <1>2 DEF OwnRows, IInv, SafeInv, Progress, PolicyOnce
<1>4. /\ Continue(row, c).pc = EntryOf(route, c.appr \in refunds)
      /\ Continue(row, c).status = status
  BY DEF Continue
<1>5. policy = IF own = {} THEN row.policy ELSE Latest(own).decision
  OBVIOUS
<1>6. route \in PolicyRoutes \cup ReviewNextAgents /\ (route = "human_approval" => reuse)
  BY <1>1, <1>2 DEF ReviewNextAgents
<1>7. route = "end" => NextAgent(row) = "end"
  BY <1>2 DEF PolicyRoutes
<1>8. (route # "policy_agent" /\ route # "end" /\ NextAgent(row) = "end") => FALSE
  OBVIOUS
<1>9. (row.status = "approved" /\ policy = "request_info" /\ route # "human_approval"
        /\ route # "policy_agent") => route = "response_agent"
  <2>1. CASE reuse
    BY <1>2, <2>1 DEF Ruled, PolicyRoutes
  <2>2. CASE ~reuse
    BY <2>2 DEF ApprovedNextAgent, NextAgent
  <2> QED BY <2>1, <2>2
<1>10. route # "human_approval" => \A r \in own : r.route # "human_approval"
  BY <1>3
<1>11. (row.status = "approved" /\ route = "response_agent" /\ policy = "request_info") =>
         status # "completed"
  BY DEF ResponseStatus
<1> HIDE DEF route, policy, status, own, reuse
<1>12. /\ EntryOf(route, c.appr \in refunds) \in {"mark", "recover_mark"} => route = "end"
       /\ EntryOf(route, c.appr \in refunds) \in ReviewPcs => route = "human_approval"
       /\ EntryOf(route, c.appr \in refunds) \in AnswerPcs =>
            route \notin {"human_approval", "policy_agent", "end"}
  BY <1>6 DEF EntryOf, PolicyRoutes, ReviewNextAgents, ReviewPcs, AnswerPcs
<1>13. route = "human_approval" => status = "pending_human"
  BY DEF status
<1>14. AnswerTo(policy) = "need_info" => policy = "request_info"
  BY DEF AnswerTo
<1> QED BY <1>4, <1>5, <1>7, <1>8, <1>9, <1>10, <1>11, <1>12, <1>13, <1>14 DEF own

\* What a reviewer may decide was ruled, or answered.
Answerable(a) ==
  /\ appr[a].stage = "policy" => Ruling({appr[a].policy})
  /\ appr[a].stage = "response" => NewestWarranted

LEMMA DecideReviewAnswers ==
  ASSUME IInv, ReadInv, AnswerInv, IInv', NEW w \in Workers, NEW a \in Approvals,
         NEW d \in ReviewDecisions, Answerable(a), DecideReview(w, a, d), UNCHANGED outcomes
  PROVE  AnswerInv'
<1> DEFINE new == [appr[a] EXCEPT !.status = ResolutionStatus(d), !.decision = d]
<1>0. /\ TypeInv /\ req \in [Workers -> Requests] /\ appr \in [Approvals -> ApprovalRows]
      /\ Accounts
  BY DEF IInv, TypeInv, TypeOK, AnswerInv
<1>1. /\ a \in Pending /\ AppendClaim(w, a) /\ appr' = [appr EXCEPT ![a] = new]
      /\ wf' = IF NextAgent(new) = "end" THEN TerminalWorkflowState("completed")
               ELSE [status |-> "running", agent |-> NextAgent(new)]
      /\ req' = [req EXCEPT ![w] = Continue(new, claim')]
      /\ UNCHANGED <<done, policyRows, responseRows, refunds>>
  BY DEF DecideReview
<1>2. /\ claim' \in Claims /\ claim'.appr = a /\ claim'.seq = claim.seq + 1 /\ claim' # NoClaim
  BY <1>0, <1>1, NewClaim
<1>3. /\ new \in ApprovalRows /\ new.status \in {"approved", "rejected"}
      /\ new.stage = appr[a].stage /\ new.policy = appr[a].policy
      /\ new.approved_next = appr[a].approved_next
  BY <1>0, RoutingTypes DEF ApprovalRows
<1> HIDE DEF new
<1>4. \A b \in Approvals : appr'[b] = IF b = a THEN new ELSE appr[b]
  BY <1>0, <1>1
<1>5. Resolved \subseteq Resolved' /\ (\A s \in Resolved : appr'[s] = appr[s]) /\ a \notin Resolved
  BY <1>1, <1>4 DEF Pending, Resolved
<1>6. OwnRows(policyRows, a) = {} /\ OwnRows(responseRows, a) = {}
  BY <1>1, <1>5, NoClaimType DEF ReadInv, Stamped, OwnRows
<1>7. /\ new.approved_next = ApprovedNextAgent(new.stage, new.policy)
      /\ new.policy # "none" => new.stage = "policy"
  BY <1>0, <1>1, <1>3 DEF Accounts, Handed, Pending
<1>8. NextAgent(new) = "end" => new.status = "approved" /\ new.stage = "response"
  <2>1. appr[a].approved_next = "end" => appr[a].stage = "response"
    BY DEF IInv, SafeInv, Paid
  <2> QED BY <1>3, <2>1 DEF NextAgent, RejectedNextAgent
<1>9. (new.status = "approved" /\ new.stage = "response") => Closed'
  BY <1>2, <1>4 DEF Closed
<1>10. Accounts'
  <2>1. Handed'
    BY <1>0, <1>4, <1>7 DEF Accounts, Handed
  <2>2. Ruled' /\ Matched' /\ PaidAsRuled'
    BY <1>0, <1>1 DEF Accounts, Ruled, Matched, PaidAsRuled, Ruling, Newest
  <2>3. DecidedAsRuled'
    BY <1>1, <1>2, <1>3, <1>4 DEF Answerable, DecidedAsRuled, Ruling, Newest
  <2>4. ~OwnAnswered'
    BY <1>1, <1>2, <1>6 DEF OwnAnswered
  <2>5. NewestWarranted => NewestWarranted'
    <3>1. ResponseReviewWas("rejected") => ResponseReviewWas("rejected")'
      BY <1>5 DEF ResponseReviewWas
    <3>2. (\E s \in Resolved : appr[s].status = "rejected") =>
            (\E s \in Resolved : appr[s].status = "rejected")'
      BY <1>5
    <3> QED BY <1>1, <3>1, <3>2 DEF NewestWarranted, Newest, Warranted, Ruling
  <2>6. wf'.status = "completed" => NextAgent(new) = "end"
    BY <1>1
  <2> QED BY <1>2, <1>3, <1>4, <1>8, <1>9, <2>1, <2>2, <2>3, <2>4, <2>5, <2>6
          DEF Accounts, Answerable
<1>11. ASSUME NEW v \in Workers, Owner(v)' PROVE Answering(v)'
  <2>1. \A u \in Workers : req'[u] = IF u = w THEN Continue(new, claim') ELSE req[u]
    BY <1>0, <1>1
  <2>2. v = w
    BY <1>2, <1>11, <2>1, NewClaimOwner
  <2>3. req'[v] = Continue(new, claim')
    BY <2>1, <2>2
  <2>4. /\ Continue(new, claim').pc \in {"mark", "recover_mark"} => NextAgent(new) = "end"
        /\ Continue(new, claim').pc \in ReviewPcs => Continue(new, claim').status = "pending_human"
        /\ Continue(new, claim').pc \in AnswerPcs =>
             /\ NextAgent(new) # "end"
             /\ (new.status = "approved" /\ Continue(new, claim').status = "completed") =>
                  AnswerTo(new.policy) # "need_info"
    BY <1>0, <1>2, <1>3, <1>6, <1>7, ContinueAnswers DEF Accounts
  <2>5. /\ OwnRows(policyRows, claim.appr)' = {} /\ appr'[claim'.appr] = new
        /\ NextAgent(appr[claim.appr])' = NextAgent(new)
    BY <1>1, <1>2, <1>4, <1>6 DEF NextAgent
  <2>6. ContinuationOutcome(claim)' = "need_info" =>
          new.status # "rejected" /\ AnswerTo(new.policy) = "need_info"
    BY <2>5 DEF ContinuationOutcome
  <2> QED BY <1>3, <1>8, <1>9, <2>3, <2>4, <2>5, <2>6 DEF Answering
<1> QED BY <1>10, <1>11 DEF AnswerInv

LEMMA RetryContinuationAnswers ==
  ASSUME IInv, ReadInv, AnswerInv, IInv', NEW w \in Workers, NEW a \in Approvals,
         RetryContinuation(w, a), UNCHANGED outcomes
  PROVE  AnswerInv'
<1> DEFINE new == IF wf.status \in TerminalStatuses THEN Recovery(claim')
                  ELSE Continue(appr[a], claim')
<1>0. /\ TypeInv /\ req \in [Workers -> Requests] /\ appr \in [Approvals -> ApprovalRows]
      /\ Accounts
  BY DEF IInv, TypeInv, TypeOK, AnswerInv
<1>1. /\ a \in Resolved /\ a \notin Finished /\ AppendClaim(w, a)
      /\ req' = [req EXCEPT ![w] = new]
      /\ UNCHANGED <<wf, appr, done, policyRows, responseRows, refunds>>
  BY DEF RetryContinuation
<1>2. claim # NoClaim /\ claim.appr = a
  BY <1>1 DEF IInv, SafeInv, Lineage
<1>3. claim' \in Claims /\ claim'.appr = a /\ claim'.seq = claim.seq + 1
  BY <1>0, <1>1, NewClaim
<1>4. Handed' /\ Resolved' = Resolved /\ Finished' = Finished
  BY <1>0, <1>1, HandedKept DEF Accounts, Resolved, Finished
<1>5. /\ Closed' <=> Closed
      /\ ContinuationOutcome(claim)' = ContinuationOutcome(claim)
      /\ OwnRows(policyRows, claim.appr)' = OwnRows(policyRows, a)
      /\ appr'[claim'.appr] = appr[a]
  BY <1>1, <1>2, <1>3, <1>4, AccountsRead
<1>6. Accounts'
  BY <1>0, <1>1, <1>2, <1>3, <1>4, AccountsKept
<1>7. ASSUME NEW v \in Workers, Owner(v)' PROVE Answering(v)'
  <2>1. \A u \in Workers : req'[u] = IF u = w THEN new ELSE req[u]
    BY <1>0, <1>1
  <2>2. v = w
    BY <1>3, <1>7, <2>1, NewClaimOwner
  <2>3. req'[v] = new
    BY <2>1, <2>2
  <2>4. CASE wf.status \in TerminalStatuses
    <3>1. /\ Recovery(claim').pc = IF wf.status = "pending_human" THEN "enter_recover_review"
                                   ELSE "recover_mark"
          /\ Recovery(claim').status = wf.status
      BY DEF Recovery
    <3>2. wf.status = "completed" => Closed'
      BY <1>0, <1>2, <1>5 DEF Accounts
    <3> QED BY <2>3, <2>4, <3>1, <3>2 DEF Answering, ReviewPcs, AnswerPcs
  <2>5. CASE wf.status \notin TerminalStatuses
    <3>0. /\ appr[a] \in ApprovalRows /\ appr[a].status \in {"approved", "rejected"}
          /\ appr[a].approved_next = ApprovedNextAgent(appr[a].stage, appr[a].policy)
          /\ appr[a].policy # "none" => appr[a].stage = "policy"
          /\ OwnRows(policyRows, a) # {} => NextAgent(appr[a]) = "policy_agent"
      BY <1>0, <1>1 DEF Accounts, Handed, Resolved, IInv, SafeInv, Progress, OwnRows, NextAgent
    <3>1. LET own == OwnRows(policyRows, a)
              next == Continue(appr[a], claim')
          IN /\ next.pc \in {"mark", "recover_mark"} => NextAgent(appr[a]) = "end"
             /\ next.pc \in ReviewPcs => next.status = "pending_human"
             /\ next.pc \in AnswerPcs =>
                  /\ NextAgent(appr[a]) # "end" /\ \A r \in own : r.route # "human_approval"
                  /\ (appr[a].status = "approved" /\ next.status = "completed") =>
                       AnswerTo(IF own = {} THEN appr[a].policy ELSE Latest(own).decision)
                         # "need_info"
      BY <1>0, <1>3, <3>0, ContinueAnswers DEF Accounts
    <3>2. NextAgent(appr[a]) = "end" => Closed'
      BY <1>2, <1>5, <3>0 DEF NextAgent, RejectedNextAgent, Closed, IInv, SafeInv, Paid
    <3>3. (ContinuationOutcome(claim)' = "need_info") =>
            /\ appr[a].status # "rejected"
            /\ AnswerTo(IF OwnRows(policyRows, a) = {} THEN appr[a].policy
                        ELSE Latest(OwnRows(policyRows, a)).decision) = "need_info"
      BY <1>2, <1>5 DEF ContinuationOutcome
    <3>4. NextAgent(appr[claim.appr])' = NextAgent(appr[a])
      BY <1>5 DEF NextAgent
    <3> QED BY <1>5, <2>3, <2>5, <3>0, <3>1, <3>2, <3>3, <3>4 DEF Answering
  <2> QED BY <2>4, <2>5
<1> QED BY <1>6, <1>7 DEF AnswerInv


\* A review that may be decided asks about the newest ruling, or about the newest answer.
LEMMA DecidableIsAnswerable ==
  ASSUME IInv, ReadInv, AnswerInv, claim # NoClaim, NEW a \in Pending, ParentContinuationComplete(a)
  PROVE  Answerable(a)
<1>0. /\ TypeInv /\ appr[a].trigger # NoClaim /\ appr[a].trigger.appr = claim.appr
      /\ \A b \in Pending : b = a
  BY DEF IInv, SafeInv, Lineage
<1>1. claim.appr \in Finished /\ done[claim.appr].status = "pending_human"
  BY <1>0 DEF ParentContinuationComplete, Finished, TypeInv, ClaimOK
<1>2. wf.status = "pending_human"
  BY <1>1 DEF IInv, SafeInv, Lineage, TerminalAgreement, TerminalWorkflowState
<1>3. Awaited
  BY <1>2 DEF ReadInv
<1>4. ASSUME appr[a].stage = "policy" PROVE Ruling({appr[a].policy})
  <2>1. PICK r \in OwnRows(policyRows, claim.appr) : r.decision = appr[a].policy
    BY <1>4 DEF ReadInv, PolicyAsked
  <2>2. Newest(policyRows, r)
    BY OwnRules
  <2> QED BY <2>1, <2>2 DEF Ruling, Newest
<1>5. ASSUME appr[a].stage = "response" PROVE NewestWarranted
  <2>1. ~\E r \in OwnRows(policyRows, claim.appr) : r.route = "human_approval"
    BY <1>0, <1>5 DEF ReadInv, PolicyAsked
  <2>2. OwnAnswered
    BY <1>3, <2>1 DEF Awaited, OwnAnswered
  <2> QED BY <2>2 DEF AnswerInv, Accounts
<1> QED BY <1>4, <1>5 DEF Answerable

\* The same of the first review, which the run opened.
LEMMA FirstIsAnswerable ==
  ASSUME CaseInv, FirstRead, FirstAnswer, StatusTypes, claim = NoClaim, NEW a \in Pending
  PROVE  Answerable(a)
<1>0. /\ TypeInv /\ nAppr \in Nat /\ a \in Approvals
      /\ \A r \in policyRows : r.claim.seq \in Nat
      /\ \A o \in outcomes : o.claim.seq \in Nat
  BY DEF CaseInv, CaseTypes, Pending, TypeInv, TypeOK, Claims, StatusTypes
<1>1. a = 1 /\ nAppr # 0
  <2>1. appr[a] # AbsentRow
    BY DEF Pending, AbsentRow
  <2>2. ~(a > nAppr) /\ (nAppr # 0 => nAppr = 1)
    BY <1>0, <2>1 DEF CaseInv, Undecided
  <2> QED BY <1>0, <2>2 DEF Approvals
<1>2. ASSUME appr[a].stage = "policy" PROVE Ruling({appr[a].policy})
  <2>1. PICK r \in policyRows : r.decision = appr[a].policy
    BY <1>1, <1>2 DEF FirstRead
  <2>2. \A s \in policyRows : s = r
    BY DEF CaseInv, Undecided
  <2> QED BY <1>0, <2>1, <2>2 DEF Ruling, Newest
<1>3. ASSUME appr[a].stage = "response" PROVE NewestWarranted
  <2>1. responseRows # {}
    BY <1>1, <1>3 DEF FirstRead
  <2>2. PICK o : o \in outcomes
    BY <2>1 DEF StatusTypes
  <2>3. \A p \in outcomes : p = o
    BY <2>2 DEF FirstAnswer
  <2>4. Warranted(o.outcome)
    BY <1>1, <1>3, <2>2 DEF FirstAnswer
  <2> QED BY <1>0, <2>2, <2>3, <2>4 DEF NewestWarranted, Newest
<1> QED BY <1>2, <1>3 DEF Answerable

\* Steps of the service on a case that was decided, and the decision that is its first.
LEMMA AnswerStep ==
  ASSUME IInv, ReadInv, AnswerInv, StatusTypes, NEW w \in Workers, Continuation(w), UNCHANGED run,
         TellOutcome, \A a \in Pending : ParentContinuationComplete(a) => Answerable(a)
  PROVE  AnswerInv'
<1>0. [Next]_vars /\ (Resolve(w) \/ RunStage(w) \/ Fail(w)) /\ TypeInv
      /\ req \in [Workers -> Requests]
  BY DEF Continuation, Next, IInv, TypeInv, TypeOK
<1>1. IInv'
  BY <1>0, InvStep
<1>2. CASE PersistResponse(w)
  <2>1. outcomes' = outcomes \cup {[claim |-> claim, outcome |-> ContinuationOutcome(claim)]}
    BY <1>0, <1>2, TellsService
  <2> QED BY <1>2, <2>1, PersistResponseAnswers
<1>3. CASE ~PersistResponse(w)
  <2>0. UNCHANGED outcomes
    BY <1>0, <1>3, TellsService
  <2>1. ASSUME NEW a \in Approvals, NEW d \in ReviewDecisions, DecideReview(w, a, d)
        PROVE  AnswerInv'
    <3>1. a \in Pending /\ ParentContinuationComplete(a)
      BY <2>1 DEF DecideReview
    <3>2. Answerable(a)
      BY <3>1
    <3> QED BY <1>1, <2>0, <2>1, <3>2, DecideReviewAnswers
  <2>2. ASSUME NEW a \in Approvals, RetryContinuation(w, a) PROVE AnswerInv'
    BY <1>1, <2>0, <2>2, RetryContinuationAnswers
  <2>3. CASE EnterStep(w)
    BY <2>0, <2>3, EnterStepAnswers
  <2>4. CASE Heartbeat(w)
    BY <2>0, <2>4, MovedAnswers DEF Heartbeat
  <2>5. CASE \E d \in PolicyDecisions, b \in BOOLEAN : PersistPolicy(w, d, b)
    BY <2>0, <2>5, PersistPolicyAnswers
  <2>6. CASE EnsurePolicyReview(w) \/ EnsureResponseReview(w) \/ EnsureRecoveredReview(w)
    BY <2>0, <2>6, EnsureReviewAnswers
  <2>7. CASE PersistRefund(w)
    BY <2>0, <2>7, PersistRefundAnswers
  <2>8. CASE \E b \in BOOLEAN : SaveResponseGovernance(w, b)
    BY <2>0, <2>8, SaveResponseGovernanceAnswers
  <2>9. CASE MarkContinuation(w)
    BY <2>0, <2>9, MarkContinuationAnswers
  <2>10. CASE StepFails(w) \/ RequestEnds(w)
    <3>1. \A v \in Workers : req'[v] = req[v] \/ req'[v].pc \in {"failing", "idle"}
      BY <1>0, <2>10 DEF StepFails, RequestEnds, Goto, Requests, Idle
    <3> QED BY <2>0, <2>10, <3>1, MovedAnswers DEF StepFails, RequestEnds, dbVars
  <2>11. CASE RecordFailure(w)
    BY <2>0, <2>11, RecordFailureAnswers
  <2>12. \/ \E a \in Approvals, d \in ReviewDecisions : DecideReview(w, a, d)
         \/ \E a \in Approvals : RetryContinuation(w, a)
         \/ RunStage(w) \/ Fail(w)
    BY <1>0 DEF Resolve
  <2> QED BY <1>3, <2>1, <2>2, <2>3, <2>4, <2>5, <2>6, <2>7, <2>8, <2>9, <2>10, <2>11, <2>12
          DEF RunStage, Fail
<1> QED BY <1>2, <1>3


------------------------------------------------------------------------------------
(* What a completed case was told: the answer of the run.                           *)

NoneDecided == Resolved = {}

LEMMA UndecidedNone == CaseInv /\ claim = NoClaim => NoneDecided
<1> SUFFICES ASSUME CaseInv, claim = NoClaim PROVE Resolved = {}
  BY DEF NoneDecided
<1>1. Finished = {}
  BY DEF CaseInv, Undecided, Finished
<1> QED BY <1>1, UndecidedSafe DEF SafeInv, Lineage

LEMMA UndecidedNoneNext == (CaseInv /\ claim = NoClaim)' => NoneDecided'
BY UndecidedNone, PTL

LEMMA WarrantedKept ==
  ASSUME UNCHANGED <<policyRows, refunds>>, Resolved = {}, Resolved' = {}
  PROVE  \A x : Warranted(x) => Warranted(x)'
BY DEF Warranted, Ruling, Newest, ResponseReviewWas

LEMMA FirstAnswerRun ==
  ASSUME CaseInv, FirstRead, FirstAnswer, InitialRun, TellOutcome
  PROVE  FirstAnswer'
<1> SUFFICES ASSUME claim' = NoClaim PROVE FirstAnswer'
  BY DEF FirstAnswer
<1>0. /\ claim = NoClaim /\ run \in [node : RunNodes, decision : PolicyDecisions \cup {"none"},
                                     stage : Stages, blocked : BOOLEAN, paused : BOOLEAN]
      /\ nAppr \in Nat /\ 1 \in Approvals /\ appr \in [Approvals -> ApprovalRows]
      /\ \A r \in policyRows : r.claim.seq \in Nat
  BY RunIsRunning, BoundsAssumption
     DEF CaseInv, CaseTypes, TypeInv, TypeOK, Approvals, Claims
<1>1. Resolved = {} /\ Resolved' = {}
  <2>1. CaseInv'
    BY CaseStep DEF CaseNext
  <2> QED BY <1>0, <2>1, UndecidedNone, UndecidedNoneNext DEF NoneDecided
<1>2. ~RunPersistResponse => UNCHANGED outcomes
  BY TellsRun
<1>3. CASE \/ \E b \in BOOLEAN : TriageGovernance(b)
           \/ \E n \in {"policy_agent", "response_agent", "human_approval"} : PersistTriage(n)
  <2>1. /\ run.node \in {"triage_governance", "triage"} /\ UNCHANGED <<policyRows, refunds>>
        /\ run'.node \in {"triage", "policy", "response_governance", "human_approval"}
        /\ run'.decision = run.decision /\ run'.stage = run.stage /\ run'.paused = run.paused
        /\ wf' = wf \/ wf'.status # "completed"
    <3>1. CASE \E b \in BOOLEAN : TriageGovernance(b)
      BY <1>0, <3>1 DEF TriageGovernance, Running
    <3>2. CASE \E n \in {"policy_agent", "response_agent", "human_approval"} : PersistTriage(n)
      BY <1>0, <3>2 DEF PersistTriage, Running, Proceed, PolicyWorkflowState
    <3> QED BY <1>3, <3>1, <3>2
  <2>2. ~RunPersistResponse
    BY <2>1 DEF RunPersistResponse, Running
  <2>3. UNCHANGED outcomes
    BY <1>2, <2>2
  <2>4. Untouched /\ run.stage = "triage" /\ run.decision = "none" /\ outcomes = {}
    BY <1>0, <2>1 DEF CaseInv, Opening, FirstAnswer
  <2>5. ~run.paused /\ wf.status # "completed"
    BY <1>0, <2>1, <2>4 DEF FirstAnswer, Untouched
  <2> QED BY <1>0, <2>1, <2>3, <2>4, <2>5 DEF FirstAnswer, Untouched, Plain, Ruled
<1>4. ASSUME NEW d \in PolicyDecisions, NEW b \in BOOLEAN, RunPolicy(d, b) PROVE FirstAnswer'
  <2> DEFINE route == PolicyNextAgent(d, b)
             row == [claim |-> NoClaim, decision |-> d, route |-> route]
  <2>1. /\ run.node = "policy" /\ policyRows' = {row} /\ UNCHANGED refunds
        /\ wf'.status # "completed" /\ run'.decision = d /\ run'.stage = "policy"
        /\ run'.paused = run.paused
        /\ run'.node = [refund_agent |-> "refund", response_agent |-> "response_governance",
                        human_approval |-> "human_approval"][route]
    BY <1>0, <1>4 DEF RunPolicy, Running, PolicyWorkflowState
  <2>2. /\ route \in PolicyRoutes
        /\ route = "refund_agent" => d = "approve"
        /\ route = "response_agent" => d \in {"deny", "request_info"}
    BY DEF PolicyNextAgent, route_policy, parent_agent_for_route, PolicyDecisions, PolicyRoutes
  <2>3. ~RunPersistResponse
    BY <2>1 DEF RunPersistResponse, Running
  <2>4. Untouched /\ outcomes = {} /\ ~run.paused
    BY <1>0, <2>1 DEF CaseInv, Opening, FirstAnswer, Untouched
  <2>5. /\ run'.node \in {"refund", "response_governance", "human_approval"}
        /\ run'.node = "refund" => d = "approve"
        /\ run'.node = "response_governance" => d \in {"deny", "request_info"}
    BY <2>1, <2>2 DEF PolicyRoutes
  <2>6. row.decision = d /\ row.route = route
    OBVIOUS
  <2>7. Ruled'
    BY <2>1, <2>2, <2>6 DEF Ruled
  <2> HIDE DEF row, route
  <2> QED BY <1>0, <1>2, <2>1, <2>3, <2>4, <2>5, <2>6, <2>7 DEF FirstAnswer, Untouched, Plain
<1>5. CASE RunRefund
  <2>1. /\ run.node = "refund" /\ refunds' = refunds \cup {0} /\ UNCHANGED policyRows
        /\ wf'.status = "running" /\ run'.node = "response_governance"
        /\ run'.decision = run.decision /\ run'.paused = run.paused
    BY <1>0, <1>5 DEF RunRefund, Running, Proceed
  <2>2. ~RunPersistResponse
    BY <2>1 DEF RunPersistResponse, Running
  <2>3. /\ run.decision = "approve" /\ outcomes = {} /\ ~run.paused
        /\ \E r \in policyRows : r.decision = "approve"
    BY <1>0, <2>1 DEF CaseInv, Opening, FirstAnswer, Untouched
  <2> QED BY <1>0, <1>2, <2>1, <2>2, <2>3 DEF FirstAnswer, Plain, Ruled
<1>6. CASE HumanApprovalNode
  <2>1. /\ run.node = "human_approval" /\ run'.node = AfterHumanApproval /\ run'.paused
        /\ run'.stage = run.stage /\ run'.decision = run.decision
        /\ UNCHANGED <<policyRows, refunds>>
    BY <1>0, <1>6 DEF HumanApprovalNode, Running
  <2>2. ~RunPersistResponse
    BY <2>1 DEF RunPersistResponse, Running
  <2>3. UNCHANGED outcomes
    BY <1>2, <2>2
  <2>4. nAppr' # 0 /\ (UNCHANGED <<nAppr, appr>> \/ nAppr = 0)
    <3>1. CASE Pending # {} /\ UNCHANGED <<nAppr, appr>>
      <4>1. PICK a \in Approvals : appr[a].status = "pending"
        BY <3>1 DEF Pending
      <4>2. ~(a > nAppr)
        BY <1>0, <4>1 DEF CaseInv, Undecided, AbsentRow
      <4> QED BY <1>0, <3>1, <4>1, <4>2 DEF Approvals
    <3>2. ASSUME Pending = {}, NEW row, InsertReview(row) PROVE nAppr' # 0 /\ nAppr = 0
      <4>1. nAppr # 0 => nAppr = 1 /\ appr[1].status = "pending"
        BY <1>0 DEF CaseInv, Undecided, InitialReviews, PendingRow
      <4> QED BY <1>0, <3>2, <4>1 DEF Pending, InsertReview
    <3> QED BY <1>6, <3>1, <3>2 DEF HumanApprovalNode
  <2>5. \A x : Warranted(x) => Warranted(x)'
    BY <1>1, <2>1, WarrantedKept
  <2>6. wf'.status # "completed"
    <3>1. wf' = wf \/ wf' = TerminalWorkflowState("pending_human")
      BY <1>6 DEF HumanApprovalNode
    <3>2. TerminalWorkflowState("pending_human").status = "pending_human"
      BY DEF TerminalWorkflowState
    <3> QED BY <1>0, <2>1, <3>1, <3>2 DEF FirstAnswer
  <2>7. run'.node # "verify" => run'.node = "response_governance" /\ run.stage # "response"
    BY <2>1 DEF AfterHumanApproval
  <2>8. run'.node \in {"verify", "response_governance"}
    BY <2>1 DEF AfterHumanApproval
  <2> QED BY <1>0, <2>1, <2>3, <2>4, <2>5, <2>6, <2>7, <2>8 DEF FirstAnswer, Ruled
<1>7. ASSUME NEW b \in BOOLEAN, RunResponseGovernance(b) PROVE FirstAnswer'
  <2>1. /\ run.node = "response_governance" /\ run'.node = "response"
        /\ run'.decision = run.decision /\ run'.paused = run.paused
        /\ UNCHANGED <<wf, nAppr, appr, policyRows, refunds>>
    BY <1>0, <1>7 DEF RunResponseGovernance, Running
  <2>2. ~RunPersistResponse
    BY <2>1 DEF RunPersistResponse, Running
  <2>3. UNCHANGED outcomes /\ outcomes = {}
    BY <1>0, <1>2, <2>1, <2>2 DEF FirstAnswer
  <2> QED BY <1>0, <2>1, <2>3 DEF FirstAnswer, Plain, Ruled
<1>8. CASE RunPersistResponse
  <2>1. /\ run.node = "response" /\ UNCHANGED <<nAppr, appr, policyRows, refunds>>
        /\ wf' = TerminalWorkflowState(InitialResponseStatus(run))
        /\ run' = [run EXCEPT !.node = IF run.blocked THEN "human_approval" ELSE "verify"]
    BY <1>0, <1>8 DEF RunPersistResponse, Running, Proceed
  <2>2. PICK x \in InitialOutcomes(run) : outcomes' = {[claim |-> NoClaim, outcome |-> x]}
    BY <1>8, TellsRun
  <2>3. PICK o : outcomes' = {o} /\ o.outcome = x
    <3> DEFINE answer == [claim |-> NoClaim, outcome |-> x]
    <3>1. outcomes' = {answer} /\ answer.outcome = x
      BY <2>2
    <3> HIDE DEF answer
    <3> QED BY <3>1
  <2>4. /\ ~run.paused => Plain
        /\ run.decision # "none" => \E r \in policyRows : r.decision = run.decision
    BY <1>0, <2>1 DEF FirstAnswer
  <2>5. ~run.paused => Warranted(x)
    <3> SUFFICES ASSUME ~run.paused PROVE Warranted(x)
      OBVIOUS
    <3>1. CASE run.decision = "none"
      BY <2>2, <3>1 DEF InitialOutcomes, Warranted
    <3>2. CASE run.decision = "approve" /\ 0 \in refunds
      BY <2>2, <3>2 DEF InitialOutcomes, Warranted
    <3>3. CASE run.decision = "deny" /\ 0 \notin refunds
      <4>1. x = "denied" /\ refunds = {}
        BY <1>0, <2>2, <3>3 DEF InitialOutcomes, AnswerTo, CaseInv, Undecided
      <4>2. PICK r \in policyRows : r.decision = "deny"
        BY <2>4, <3>3
      <4>3. Ruling({"deny"})
        BY <1>0, <4>2 DEF Ruling, Newest, CaseInv, Undecided
      <4> QED BY <4>1, <4>3 DEF Warranted
    <3>4. CASE run.decision = "request_info" /\ 0 \notin refunds
      BY <2>2, <3>4 DEF InitialOutcomes, AnswerTo, Warranted
    <3> QED BY <2>4, <3>1, <3>2, <3>3, <3>4 DEF Plain
  <2>6. (nAppr = 0 \/ appr[1].stage = "response") => ~run.paused
    <3>1. nAppr # 0 => appr[1].stage # "response"
      BY <1>0, <2>1 DEF FirstRead
    <3> QED BY <1>0, <3>1 DEF FirstAnswer
  <2>7. Warranted(x) => Warranted(x)'
    BY <1>1, <2>1, WarrantedKept
  <2>8. wf'.status = "completed" =>
          ~run.blocked /\ ~run.paused /\ run.decision \notin {"none", "request_info"}
    BY <2>1 DEF TerminalWorkflowState, InitialResponseStatus
  <2>9. wf'.status = "completed" => x # "need_info"
    BY <2>2, <2>4, <2>8 DEF Plain, InitialOutcomes, AnswerTo
  <2>10. /\ run'.node = (IF run.blocked THEN "human_approval" ELSE "verify")
         /\ run'.stage = run.stage /\ run'.decision = run.decision /\ run'.paused = run.paused
         /\ run.blocked => run.stage = "response"
    BY <1>0, <2>1 DEF CaseInv, Opening
  <2> QED BY <1>0, <2>1, <2>3, <2>4, <2>5, <2>6, <2>7, <2>8, <2>9, <2>10 DEF FirstAnswer, Ruled
<1>9. CASE VerifyPersisted \/ RunRaises \/ RecordWorkflowFailure \/ RunDies
  <2>1. /\ run'.node \in {"failing", "end"} /\ run'.decision = run.decision
        /\ run'.paused = run.paused
        /\ UNCHANGED <<nAppr, appr, policyRows, refunds>>
        /\ wf' = wf \/ wf'.status = "failed"
    BY <1>0, <1>9 DEF VerifyPersisted, RunRaises, RecordWorkflowFailure, RunDies, Running,
                      Proceed, vars, dbVars
  <2>2. ~RunPersistResponse
    BY <1>0, <2>1 DEF RunPersistResponse, Running, Proceed
  <2>3. UNCHANGED outcomes
    BY <1>2, <2>2
  <2>4. \A x : Warranted(x) => Warranted(x)'
    BY <1>1, <2>1, WarrantedKept
  <2> QED BY <1>0, <2>1, <2>3, <2>4 DEF FirstAnswer, Ruled
<1> QED BY <1>3, <1>4, <1>5, <1>6, <1>7, <1>8, <1>9 DEF InitialRun


LEMMA FirstAnswerStep ==
  CaseInv /\ FirstRead /\ FirstAnswer /\ [StatusNext]_statusVars => FirstAnswer'
<1> SUFFICES ASSUME CaseInv, FirstRead, FirstAnswer, [StatusNext]_statusVars, claim' = NoClaim
             PROVE  FirstAnswer'
  BY DEF FirstAnswer
<1>1. CASE UNCHANGED statusVars
  <2>1. UNCHANGED <<wf, nAppr, appr, claim, policyRows, refunds, run, outcomes>>
    BY <1>1 DEF statusVars, caseVars, vars, dbVars
  <2> QED BY <2>1 DEF FirstAnswer, Ruled, Plain, Warranted, Ruling, Newest, ResponseReviewWas, Resolved
<1>2. CASE StatusNext /\ InitialRun
  BY <1>2, FirstAnswerRun DEF StatusNext
<1>3. CASE StatusNext /\ ~InitialRun
  <2>1. [Next]_vars /\ UNCHANGED run /\ TellOutcome
    BY <1>3 DEF StatusNext, CaseNext, Continuation, Next
  <2>2. /\ claim = NoClaim
        /\ UNCHANGED <<wf, nAppr, appr, claim, policyRows, refunds, req>>
    BY <2>1, QuietStep
  <2>3. ~Answered /\ \A w \in Workers : ~AnsweredUnder(w)
    BY <2>1, <2>2 DEF Answered, Running, AnsweredUnder
  <2>4. UNCHANGED outcomes
    BY <2>1, <2>3 DEF TellOutcome
  <2> QED BY <2>1, <2>2, <2>4
          DEF FirstAnswer, Ruled, Plain, Warranted, Ruling, Newest, ResponseReviewWas, Resolved
<1> QED BY <1>1, <1>2, <1>3

LEMMA UndecidedAnswers == CaseInv /\ FirstAnswer /\ claim = NoClaim => AnswerInv
<1> SUFFICES ASSUME CaseInv, FirstAnswer, claim = NoClaim PROVE AnswerInv
  OBVIOUS
<1>0. nAppr \in Nat /\ \A r \in policyRows : r.claim.seq \in Nat
  BY DEF CaseInv, CaseTypes, TypeInv, TypeOK, Claims
<1>1. Handed
  <2> SUFFICES ASSUME NEW a \in Approvals, appr[a].status # "absent"
               PROVE  /\ appr[a].approved_next = ApprovedNextAgent(appr[a].stage, appr[a].policy)
                      /\ appr[a].policy # "none" => appr[a].stage = "policy"
    BY DEF Handed
  <2>1. a = 1 /\ appr[1] \in InitialReviews
    <3>1. ~(a > nAppr)
      BY DEF CaseInv, Undecided, AbsentRow
    <3> QED BY <1>0, <3>1 DEF CaseInv, Undecided, Approvals
  <2> QED BY <2>1 DEF InitialReviews, PendingRow, ApprovedNextAgent
<1>2. PaidAsRuled
  <2> SUFFICES ASSUME refunds # {} PROVE Ruling({"approve", "manual_review"})
    BY DEF PaidAsRuled
  <2>1. PICK r \in policyRows : r.decision = "approve"
    BY DEF FirstAnswer
  <2> QED BY <1>0, <2>1 DEF Ruling, Newest, CaseInv, Undecided
<1>3. \A w \in Workers : ~Owner(w)
  BY DEF CaseInv, Undecided, Owner, Held, Idle
<1> QED BY <1>1, <1>2, <1>3 DEF AnswerInv, Accounts, FirstAnswer, Matched, DecidedAsRuled

LEMMA UndecidedAnswersNext == (CaseInv /\ FirstAnswer /\ claim = NoClaim)' => AnswerInv'
BY UndecidedAnswers, PTL

LEMMA OrderlyAnswerStep ==
  CaseInv /\ FirstRead /\ FirstAnswer /\ StatusTypes /\ Orderly /\ OrderlyReads /\ OrderlyAnswers
    /\ [StatusNext]_statusVars => OrderlyAnswers'
<1> SUFFICES ASSUME CaseInv, FirstRead, FirstAnswer, StatusTypes, Orderly, OrderlyReads,
                    OrderlyAnswers, [StatusNext]_statusVars, ~early'
             PROVE  AnswerInv'
  BY DEF OrderlyAnswers
<1>0. /\ ~early /\ IInv /\ ReadInv /\ AnswerInv /\ CaseInv' /\ FirstAnswer'
  BY OrderlySteps, StatusIsCase, CaseStep, FirstAnswerStep
     DEF Orderly, OrderlyReads, OrderlyAnswers
<1>1. CASE claim' = NoClaim
  BY <1>0, <1>1, UndecidedAnswersNext
<1>2. CASE InitialRun
  <2>1. claim' = NoClaim
    BY <1>2, OrderlySteps, RunIsRunning
  <2> QED BY <1>1, <2>1
<1>3. CASE UNCHANGED statusVars \/ (StatusNext /\ LeaseExpires /\ UNCHANGED run)
  <2>1. UNCHANGED <<wf, appr, claim, revoked, done, policyRows, responseRows, refunds, req>>
    BY <1>3 DEF LeaseExpires, statusVars, caseVars, vars, dbVars
  <2>2. UNCHANGED outcomes
    <3>1. CASE StatusNext /\ UNCHANGED run
      <4>1. ~Answered /\ \A w \in Workers : ~AnsweredUnder(w)
        BY <2>1, <3>1 DEF Answered, Running, AnsweredUnder
      <4> QED BY <3>1, <4>1 DEF StatusNext, TellOutcome
    <3> QED BY <1>3, <3>1 DEF statusVars
  <2> QED BY <1>0, <2>1, <2>2, MovedAnswers
<1>4. ASSUME StatusNext, NEW w \in Workers, Continuation(w), UNCHANGED run PROVE AnswerInv'
  <2>1. TellOutcome
    BY <1>4 DEF StatusNext
  <2>2. \A a \in Pending : ParentContinuationComplete(a) => Answerable(a)
    BY <1>0, DecidableIsAnswerable, FirstIsAnswerable
  <2> QED BY <1>0, <1>4, <2>1, <2>2, AnswerStep
<1> QED BY <1>2, <1>3, <1>4 DEF StatusNext, CaseNext

LEMMA AnswersHold == StatusSpec => []FirstAnswer /\ []OrderlyAnswers
<1>1. StatusInit => FirstAnswer /\ OrderlyAnswers
  <2>1. StatusInit => CaseInv
    BY InitCase DEF StatusInit
  <2>2. StatusInit => FirstAnswer /\ claim = NoClaim
    BY DEF StatusInit, CaseInit, FirstAnswer, Ruled, Plain
  <2> QED BY <2>1, <2>2, UndecidedAnswers DEF OrderlyAnswers
<1>2. CaseInv /\ FirstRead /\ FirstAnswer /\ StatusTypes /\ Orderly /\ OrderlyReads
        /\ OrderlyAnswers /\ [StatusNext]_statusVars => (FirstAnswer /\ OrderlyAnswers)'
  BY FirstAnswerStep, OrderlyAnswerStep
<1> QED BY <1>1, <1>2, StatusTypesHold, StatusInvHolds, ReadsHold, PTL DEF StatusSpec


------------------------------------------------------------------------------------
(* What a completed case was told: the theorem.                                     *)

\* The newest ruling is the one the queue reads, and so is the newest answer.
LEMMA RulingIsShown ==
  ASSUME IInv, ReadInv, NEW X, Ruling(X)
  PROVE  DecisionType \in X
<1>1. PICK r : Newest(policyRows, r) /\ r.decision \in X
  BY DEF Ruling
<1>2. \A s \in policyRows : s.claim.seq \in Nat
  BY DEF IInv, TypeInv, TypeOK, Claims
<1>3. Latest(policyRows) = r
  BY <1>1, <1>2, LatestIs DEF Newest, ReadInv, Stamped
<1> QED BY <1>1, <1>3 DEF DecisionType, Newest

LEMMA AnswerIsShown ==
  ASSUME StatusTypes, ReadInv, Matched, NEW o, Newest(outcomes, o)
  PROVE  FinalOutcome = o.outcome
<1>1. \A p \in outcomes : p.claim.seq \in Nat /\ \E s \in responseRows : p.claim = s.claim
  BY DEF StatusTypes, Claims
<1>2. ASSUME NEW p \in outcomes, p.claim.seq = o.claim.seq PROVE p = o
  <2>1. PICK s \in responseRows : p.claim = s.claim
    BY <1>1
  <2>2. PICK t \in responseRows : o.claim = t.claim
    BY <1>1 DEF Newest
  <2>3. s = t
    BY <1>2, <2>1, <2>2 DEF ReadInv, Stamped
  <2> QED BY <2>1, <2>2, <2>3 DEF Matched, Newest
<1>3. Latest(outcomes) = o
  BY <1>1, <1>2, LatestIs DEF Newest
<1> QED BY <1>3 DEF FinalOutcome, Newest

\* A completed case has an answer that fits, and a question only if a reviewer released it.
LEMMA CompletedIsAnswered ==
  ASSUME CaseInv, SafeInv, ReadInv, AnswerInv, FirstAnswer, StatusTypes,
         wf.status = "completed", Pending = {}
  PROVE  /\ NewestWarranted
         /\ FinalOutcome = "need_info" => ResponseReviewWas("approved")
         /\ claim = NoClaim => nAppr = 0
<1>0. IInv /\ Accounts /\ nAppr \in Nat /\ 1 \in Approvals
      /\ \A o \in outcomes : o.claim.seq \in Nat
  <2>1. IInv /\ Accounts /\ TypeOK
    BY DEF CaseInv, CaseTypes, IInv, AnswerInv, TypeInv
  <2>2. nAppr \in Nat /\ 1 \in Approvals
    BY <2>1, BoundsAssumption DEF TypeOK, Approvals
  <2>3. \A o \in outcomes : o.claim \in Claims
    BY DEF StatusTypes
  <2>4. \A o \in outcomes : o.claim.seq \in Nat
    BY <2>3 DEF Claims
  <2> QED BY <2>1, <2>2, <2>4
<1>1. CASE claim = NoClaim
  <2>1. nAppr = 0
    <3>1. nAppr # 0 => appr[1].status = "pending"
      BY <1>1 DEF CaseInv, Undecided, InitialReviews, PendingRow
    <3> QED BY <1>0, <3>1 DEF Pending
  <2>2. PICK o \in outcomes : o.outcome # "need_info"
    BY <1>1 DEF FirstAnswer
  <2>3. Newest(outcomes, o) /\ Warranted(o.outcome)
    BY <1>0, <1>1, <2>1 DEF FirstAnswer, Newest
  <2>4. FinalOutcome # "need_info"
    BY <1>0, <2>2, <2>3, AnswerIsShown DEF Accounts
  <2> QED BY <2>1, <2>3, <2>4 DEF NewestWarranted
<1>2. CASE claim # NoClaim
  <2>1. Closed
    BY <1>0, <1>2 DEF Accounts
  <2>2. CASE appr[claim.appr].status = "approved" /\ appr[claim.appr].stage = "response"
    <3>1. ResponseReviewWas("approved")
      BY <1>2, <2>2 DEF SafeInv, Lineage, ResponseReviewWas
    <3> QED BY <1>0, <1>2, <2>2, <3>1 DEF Accounts
  <2>3. ASSUME NEW o \in outcomes, Newest(outcomes, o), o.claim.appr = claim.appr,
               o.outcome # "need_info"
        PROVE  NewestWarranted /\ FinalOutcome # "need_info"
    <3>1. FinalOutcome # "need_info"
      BY <1>0, <2>3, AnswerIsShown DEF Accounts
    <3>2. PICK r \in responseRows : r.claim = o.claim
      BY <2>3 DEF StatusTypes
    <3>3. OwnAnswered
      BY <2>3, <3>2 DEF OwnAnswered, OwnRows
    <3> QED BY <1>0, <1>2, <3>1, <3>3 DEF Accounts
  <2> QED BY <1>2, <2>1, <2>2, <2>3 DEF Closed, Newest
<1> QED BY <1>1, <1>2

LEMMA CompletedTold ==
  CaseInv /\ Orderly /\ FirstRead /\ OrderlyReads /\ FirstAnswer /\ OrderlyAnswers /\ StatusTypes =>
    CompletedIsTold
<1> SUFFICES ASSUME CaseInv, SafeInv, FirstRead, ReadInv, AnswerInv, FirstAnswer, StatusTypes,
                    wf.status = "completed", Pending = {}
             PROVE  /\ CASE Status \in {"auto_approved", "human_approved"} -> RefundSucceeded
                         [] Status = "rejected" -> ~RefundSucceeded \/ DeniedAfterRefund
                         [] Status = "needs_info" -> RefusedQuestion \/ ReleasedQuestion
                         [] OTHER -> FALSE
                    /\ CompletedWithoutHuman <=> nAppr = 0
  BY DEF Orderly, OrderlyReads, OrderlyAnswers, CompletedIsTold
<1>0. IInv /\ Accounts
  BY DEF CaseInv, CaseTypes, IInv, AnswerInv
<1>1. PICK o : Newest(outcomes, o) /\ Warranted(o.outcome)
  BY CompletedIsAnswered DEF NewestWarranted
<1>2. FinalOutcome = o.outcome /\ o.outcome \in {"approved", "denied", "need_info"}
  BY <1>0, <1>1, AnswerIsShown DEF Accounts, Newest, StatusTypes, Outcomes, Warranted
<1>3. Warranted(FinalOutcome)
  BY <1>1, <1>2
<1>4. RefundSucceeded => DecisionType \in {"approve", "manual_review"}
  BY <1>0, RulingIsShown DEF RefundSucceeded, Accounts, PaidAsRuled
<1>5. FinalOutcome = "approved" => RefundSucceeded
  BY <1>3 DEF Warranted, RefundSucceeded
<1>6. FinalOutcome = "denied" =>
        /\ ~RefundSucceeded \/ ResponseReviewWas("rejected")
        /\ (\E a \in Resolved : appr[a].status = "rejected") \/ DecisionType = "deny"
  <2>1. Ruling({"deny"}) => DecisionType = "deny"
    BY <1>0, RulingIsShown
  <2> QED BY <1>3, <2>1 DEF Warranted, RefundSucceeded
<1>7. FinalOutcome = "need_info" => ReleasedQuestion
  BY CompletedIsAnswered DEF ReleasedQuestion
<1>8. \/ /\ Status = "needs_info"
         /\ FinalOutcome = "need_info" \/ DecisionType = "request_info"
      \/ /\ Status = "rejected"
         /\ FinalOutcome = "denied" \/ DecisionType = "deny"
      \/ Status = ApprovedAs /\ FinalOutcome = "approved"
  BY <1>2 DEF Status, OutcomeSucceeded
<1>9. Status = "needs_info" => RefusedQuestion \/ ReleasedQuestion
  <2>1. ApprovedAs # "needs_info"
    BY DEF ApprovedAs
  <2>2. (DecisionType = "request_info" /\ FinalOutcome # "need_info") => RefusedQuestion
    BY <1>2, <1>4, <1>5, <1>6 DEF RefusedQuestion
  <2> QED BY <1>7, <1>8, <2>1, <2>2
<1>10. Status = "rejected" => ~RefundSucceeded \/ DeniedAfterRefund
  <2>1. ApprovedAs # "rejected"
    BY DEF ApprovedAs
  <2> QED BY <1>4, <1>6, <1>8, <2>1 DEF DeniedAfterRefund
<1>11. Status \in {"auto_approved", "human_approved"} => RefundSucceeded
  BY <1>5, <1>8
<1>12. /\ Status \in {"auto_approved", "human_approved", "rejected", "needs_info"}
       /\ (Resolved = {} /\ Status # "needs_info") => Status \in {"auto_approved", "rejected"}
  BY <1>8 DEF ApprovedAs
<1>13. CompletedWithoutHuman <=> nAppr = 0
  <2>1. CASE claim = NoClaim
    <3>1. Resolved = {} /\ nAppr = 0
      BY <2>1, UndecidedNone, CompletedIsAnswered DEF NoneDecided
    <3>2. Status # "needs_info"
      BY <1>9, <3>1 DEF RefusedQuestion, ReleasedQuestion, ResponseReviewWas
    <3>3. ASSUME NEW r \in responseRows PROVE Latest(responseRows).claim = NoClaim
      <4>1. (\A s \in responseRows : s = r) /\ r.claim = NoClaim
        BY <2>1 DEF FirstRead, CaseInv, Undecided
      <4>2. Latest(responseRows) = r
        BY <4>1, NoClaimType, LatestIs
      <4> QED BY <4>1, <4>2
    <3>4. ResolutionPath = "none"
      BY <3>3 DEF ResolutionPath
    <3> QED BY <1>12, <3>1, <3>2, <3>4 DEF CompletedWithoutHuman
  <2>2. CASE claim # NoClaim
    <3>1. claim.appr \in Resolved /\ claim.appr <= nAppr
      BY <2>2 DEF SafeInv, Lineage
    <3>2. nAppr # 0
      BY <3>1 DEF Resolved, Approvals, CaseInv, CaseTypes, TypeInv, TypeOK
    <3> QED BY <3>1, <3>2 DEF CompletedWithoutHuman
  <2> QED BY <2>1, <2>2
<1> QED BY <1>9, <1>10, <1>11, <1>12, <1>13

\* What the queue says of a completed case is what happened to it, over any number of runs,
\* attempts and reviews: approved is paid and rejected is not, unless a reviewer denied the
\* answer of a paid case; a question stands only where a reviewer released or overruled it;
\* and no case counts as automatic that was ever asked about.
THEOREM CompletedCasesAreTold == StatusSpec => []CompletedIsTold
BY CompletedTold, StatusInvHolds, ReadsHold, AnswersHold, StatusTypesHold, PTL


------------------------------------------------------------------------------------
(* What an ended continuation left behind.                                          *)

OrderlyScope == ~early => ScopeInv

LEMMA UndecidedScope == NoneDecided => ScopeInv
BY DEF NoneDecided, ScopeInv

LEMMA UndecidedScopeNext == NoneDecided' => ScopeInv'
BY UndecidedScope, PTL

LEMMA OrderlyScopeStep ==
  CaseInv /\ Orderly /\ OrderlyScope /\ [StatusNext]_statusVars => OrderlyScope'
<1> SUFFICES ASSUME CaseInv, Orderly, OrderlyScope, [StatusNext]_statusVars, ~early'
             PROVE  ScopeInv'
  BY DEF OrderlyScope
<1>1. ~early /\ IInv /\ CaseInv' /\ ScopeInv
  BY OrderlySteps, StatusIsCase, CaseStep DEF OrderlyScope
<1>2. CASE claim' = NoClaim
  BY <1>1, <1>2, UndecidedNoneNext, UndecidedScopeNext
<1>3. CASE [Next]_vars
  BY <1>1, <1>3, ScopeStep
<1> QED BY <1>2, <1>3, OrderlySteps

LEMMA OrderlyScopeHolds == StatusSpec => []OrderlyScope
<1>1. StatusInit => OrderlyScope
  <2>1. StatusInit => CaseInv /\ claim = NoClaim
    BY InitCase DEF StatusInit, CaseInit
  <2> QED BY <2>1, UndecidedNone, UndecidedScope DEF OrderlyScope
<1> QED BY <1>1, OrderlyScopeStep, StatusInvHolds, PTL DEF StatusSpec

LEMMA OrderlyHistoryStep ==
  ASSUME CaseInv, Orderly, OrderlyScope, [StatusNext]_statusVars, ~early', NEW a \in Finished
  PROVE  /\ Kept(a)
         /\ Scope(policyRows, a)' = Scope(policyRows, a)
         /\ Scope(responseRows, a)' = Scope(responseRows, a)
<1>1. ~early /\ IInv /\ ScopeInv
  BY OrderlySteps DEF OrderlyScope
<1>2. claim # NoClaim
  <2>1. a \in Resolved
    BY <1>1 DEF IInv, SafeInv, Lineage
  <2> QED BY <2>1, UndecidedNone DEF NoneDecided
<1>3. [Next]_vars
  BY <1>2, OrderlySteps
<1> QED BY <1>1, <1>3, HistoryStep, ReplayStep

\* Of a whole case whose reviewers waited for its run: no run, review or late attempt writes
\* again what an ended continuation left behind, nor the rows its state is rebuilt from.
THEOREM OrderlyHistoryStays ==
  StatusSpec =>
    [][~early' => \A a \in Finished :
         /\ Kept(a)
         /\ Scope(policyRows, a)' = Scope(policyRows, a)
         /\ Scope(responseRows, a)' = Scope(responseRows, a)]_statusVars
<1>1. CaseInv /\ Orderly /\ OrderlyScope /\ [StatusNext]_statusVars =>
        [~early' => \A a \in Finished :
           /\ Kept(a)
           /\ Scope(policyRows, a)' = Scope(policyRows, a)
           /\ Scope(responseRows, a)' = Scope(responseRows, a)]_statusVars
  BY OrderlyHistoryStep
<1> QED BY <1>1, StatusInvHolds, OrderlyScopeHolds, PTL DEF StatusSpec
====================================================================================
