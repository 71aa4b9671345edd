---------------------------- MODULE HumanApprovalProofs ----------------------------
(***********************************************************************************)
(* Proofs about HumanApproval, for any number of requests, reviews and claims.        *)
(*                                                                                     *)
(* TypeInv is inductive on its own.  SafeInv, inductive together with it, says how the  *)
(* reviews of a case follow one another (Lineage), what a request in flight may still    *)
(* hold (Holders), which stages the newest claim still owes (Progress) and what a        *)
(* refund implies about everything that comes after it (Paid).                          *)
(***********************************************************************************)
EXTENDS HumanApproval, FiniteSetTheorems, TLAPS

------------------------------------------------------------------------------------
(* The inductive invariant.                                                         *)

\* The newest claim, once there is one, is about some review and counts its attempts.
ClaimOK ==
  claim # NoClaim => /\ claim.appr \in Approvals
                     /\ claim.attempt \in 1..claim.seq
                     /\ claim.seq # 0

\* Stage rows are stamped in claim order, so each review has a newest one.
RowsOrdered(rows) ==
  /\ \A r \in rows : r.claim.seq <= claim.seq
  /\ \A a \in Approvals : OwnRows(rows, a) # {} =>
       \E r \in OwnRows(rows, a) : \A s \in OwnRows(rows, a) : s.claim.seq <= r.claim.seq

TypeInv ==
  /\ TypeOK
  /\ ClaimOK
  /\ RowsOrdered(policyRows)
  /\ RowsOrdered(responseRows)

Held(w) == req[w].pc # "idle"
Owner(w) == Held(w) /\ ActiveApprovalClaim(req[w].claim)

\* Reviews follow one another: only the claimed one can be unfinished, the pending one
\* is its child, and a finished one agrees with the workflow row.
Lineage ==
  /\ claim # NoClaim => claim.appr \in Resolved /\ claim.appr <= nAppr
  /\ \A a \in Approvals : a > nAppr => appr[a].status = "absent"
  /\ \A a \in Resolved : a \in Finished \/ (claim # NoClaim /\ claim.appr = a)
  /\ Finished \subseteq Resolved
  /\ \A a, b \in Pending : a = b
  /\ \A a \in Pending :
       IF claim = NoClaim THEN appr[a].trigger = NoClaim
       ELSE /\ appr[a].trigger # NoClaim
            /\ appr[a].trigger.appr = claim.appr
            /\ appr[a].trigger.seq <= claim.seq
            /\ claim.appr < a
  /\ (claim # NoClaim /\ claim.appr \in Finished) => done[claim.appr].claim = claim
  /\ TerminalAgreement

\* Claims in flight are distinct and only the newest can carry the newest token.
Holders ==
  /\ \A w \in Workers : Held(w) =>
       /\ claim # NoClaim
       /\ req[w].claim.appr \in Resolved
       /\ \/ req[w].claim = claim
          \/ /\ req[w].claim.seq < claim.seq
             /\ req[w].claim.appr = claim.appr => req[w].claim.attempt < claim.attempt
       /\ req[w].marker # NoClaim =>
            /\ req[w].marker.appr = req[w].claim.appr
            /\ req[w].marker.seq <= req[w].claim.seq
  /\ \A v, w \in Workers : (Held(v) /\ Held(w) /\ req[v].claim = req[w].claim) => v = w

RefundRoute(a) ==
  /\ appr[a].status = "approved"
  /\ \/ appr[a].approved_next = "refund_agent"
     \/ \E r \in policyRows : r.claim.appr = a /\ r.route = "refund_agent"

\* The stages the newest claim still has to run, read off the durable rows.
PolicyOwed ==
  /\ claim # NoClaim
  /\ claim.appr \notin Finished
  /\ appr[claim.appr].status = "approved"
  /\ appr[claim.appr].approved_next = "policy_agent"
  /\ OwnRows(policyRows, claim.appr) = {}

RefundOwed ==
  /\ claim # NoClaim
  /\ claim.appr \notin Finished
  /\ RefundRoute(claim.appr)
  /\ claim.appr \notin refunds

\* Where the owner stands is what the rows say it still has to do.
Placed(w) ==
  /\ PolicyOwed => req[w].pc \in {"enter_policy", "policy", "failing"}
  /\ RefundOwed => req[w].pc \in {"enter_refund", "refund", "failing"}
  /\ req[w].pc \in {"enter_policy", "policy"} => PolicyOwed /\ ~req[w].refunded
  /\ req[w].pc \in {"enter_refund", "refund"} => RefundOwed
  /\ req[w].pc \in {"enter_policy_review", "policy_review"} =>
       \E r \in OwnRows(policyRows, claim.appr) : r.route = "human_approval"

\* While a stage is owed nobody has been asked anything and the workflow has no terminal
\* status to recover from.  A Policy row without a review is the initial run's.
Progress ==
  /\ PolicyOwed \/ RefundOwed => Pending = {} /\ wf.status \in {"running", "failed"}
  /\ \A w \in Workers : Owner(w) => Placed(w)
  /\ \A r \in policyRows : r.claim.appr \in Approvals =>
                             /\ appr[r.claim.appr].status = "approved"
                             /\ appr[r.claim.appr].approved_next = "policy_agent"
  /\ PolicyOnce

\* The stage of a review fixes its hand-over; once money moved only Response is reviewed.
Paid ==
  /\ \A a \in Approvals :
       /\ appr[a].stage = "triage" <=> appr[a].approved_next = "policy_agent"
       /\ appr[a].stage = "response" <=> appr[a].approved_next = "end"
  /\ \A a, b \in refunds : a = b
  /\ \A a \in refunds : a # 0 => RefundRoute(a)
  /\ \A a \in Finished : RefundRoute(a) => a \in refunds
  /\ refunds # {} => \A a \in Pending : appr[a].stage = "response"
  /\ (refunds # {} /\ claim # NoClaim) =>
       claim.appr \in refunds \/ appr[claim.appr].stage = "response"

SafeInv == Lineage /\ Holders /\ Progress /\ Paid

IInv == TypeInv /\ SafeInv
------------------------------------------------------------------------------------
(* Types.                                                                           *)

LEMMA RoutingTypes ==
  /\ \A s \in Stages, d \in PolicyDecisions \cup {"none"} :
       ApprovedNextAgent(s, d) \in ReviewNextAgents
  /\ \A d \in PolicyDecisions, b \in BOOLEAN : PolicyNextAgent(d, b) \in PolicyRoutes
  /\ \A d \in ReviewDecisions : ResolutionStatus(d) \in {"approved", "rejected"}
  /\ \A s \in TerminalStatuses :
       TerminalWorkflowState(s) \in [status : WorkflowStatuses, agent : WorkflowAgents]
  /\ \A r \in PolicyRoutes :
       PolicyWorkflowState(r) \in [status : WorkflowStatuses, agent : WorkflowAgents]
<1>1. \A s \in Stages, d \in PolicyDecisions \cup {"none"} :
        ApprovedNextAgent(s, d) \in ReviewNextAgents
  BY DEF Stages, ApprovedNextAgent, ReviewNextAgents
<1>2. \A d \in PolicyDecisions, b \in BOOLEAN : PolicyNextAgent(d, b) \in PolicyRoutes
  BY DEF PolicyDecisions, PolicyNextAgent, PolicyRoutes, route_policy, parent_agent_for_route
<1>3. \A d \in ReviewDecisions : ResolutionStatus(d) \in {"approved", "rejected"}
  BY DEF ResolutionStatus
<1>4. \A s \in TerminalStatuses :
        TerminalWorkflowState(s) \in [status : WorkflowStatuses, agent : WorkflowAgents]
  BY DEF TerminalStatuses, TerminalWorkflowState, WorkflowStatuses, WorkflowAgents
<1>5. \A r \in PolicyRoutes :
        PolicyWorkflowState(r) \in [status : WorkflowStatuses, agent : WorkflowAgents]
  BY DEF PolicyRoutes, PolicyWorkflowState, WorkflowStatuses, WorkflowAgents
<1> QED BY <1>1, <1>2, <1>3, <1>4, <1>5

LEMMA LatestIsARow ==
  ASSUME NEW rows, RowsOrdered(rows), NEW a \in Approvals, OwnRows(rows, a) # {}
  PROVE  Latest(OwnRows(rows, a)) \in OwnRows(rows, a)
BY DEF RowsOrdered, Latest

LEMMA InitTypeInv == Init => TypeInv
<1> SUFFICES ASSUME Init PROVE TypeInv
  OBVIOUS
<1>0. /\ 0 \in 0..MaxApprovals /\ 1 \in 0..MaxApprovals
      /\ 0 \in 0..MaxClaims
  BY BoundsAssumption
<1>c. NoClaim \in Claims
  BY <1>0 DEF NoClaim, Claims
<1>1. InitialReviews \subseteq ApprovalRows /\ AbsentRow \in ApprovalRows
  <2>1. \A s \in Stages, p \in BOOLEAN, d \in PolicyDecisions \cup {"none"} :
          PendingRow(s, p, d, NoClaim) \in ApprovalRows
    BY <1>c, RoutingTypes DEF PendingRow, ApprovalRows
  <2>2. AbsentRow \in ApprovalRows
    BY <1>c DEF AbsentRow, ApprovalRows, Stages, ReviewNextAgents
  <2> QED BY <2>1, <2>2 DEF InitialReviews, Stages
<1>2. TypeOK
  <2>1. appr \in [Approvals -> ApprovalRows]
    BY <1>1 DEF Init
  <2>2. wf \in [status : WorkflowStatuses, agent : WorkflowAgents]
    BY RoutingTypes DEF Init, TerminalStatuses, WorkflowStatuses, WorkflowAgents
  <2>3. Idle \in Requests /\ NoRecord \in Records
    BY <1>0, <1>c DEF Idle, Requests, Pcs, TerminalStatuses, NoRecord, Records
  <2> QED BY <1>0, <1>c, <2>1, <2>2, <2>3 DEF Init, TypeOK, BoundsAssumption
<1>3. ClaimOK
  BY DEF Init, ClaimOK
<1>4. RowsOrdered(policyRows) /\ RowsOrdered(responseRows)
  BY DEF Init, RowsOrdered, OwnRows
<1> QED BY <1>2, <1>3, <1>4 DEF TypeInv

LEMMA ActiveFacts ==
  ASSUME TypeInv, NEW c, ActiveApprovalClaim(c)
  PROVE  /\ claim # NoClaim /\ claim \in Claims /\ claim.appr \in Approvals
         /\ claim.seq \in 1..MaxClaims
         /\ Token(claim) \in Approvals \X (1..MaxClaims)
         /\ Token(c) = Token(claim)
         /\ done[claim.appr] = NoRecord
<1>1. claim # NoClaim /\ Token(c) = Token(claim) /\ done[claim.appr] = NoRecord
  BY DEF ActiveApprovalClaim
<1>2. claim \in Claims /\ claim.appr \in Approvals
  BY <1>1 DEF TypeInv, TypeOK, ClaimOK
<1>3. claim.seq \in 1..MaxClaims /\ claim.attempt \in 1..MaxClaims
  BY <1>1, <1>2, BoundsAssumption DEF TypeInv, ClaimOK, Claims
<1> QED BY <1>1, <1>2, <1>3 DEF Token

LEMMA MarkersUnchanged ==
  ASSUME TypeInv, UNCHANGED <<claim, policyRows, responseRows>>
  PROVE  ClaimOK' /\ RowsOrdered(policyRows)' /\ RowsOrdered(responseRows)'
BY DEF TypeInv, ClaimOK, RowsOrdered, OwnRows

\* A stage stamps its row with the newest claim, which keeps the rows ordered.
LEMMA RowAdded ==
  ASSUME TypeInv, NEW rows, RowsOrdered(rows), \A r \in rows : r.claim \in Claims,
         NEW row, row.claim = claim, claim # NoClaim
  PROVE  RowsOrdered(rows \cup {row})
<1>1. claim.seq \in Nat /\ \A r \in rows : r.claim.seq \in Nat
  BY DEF TypeInv, TypeOK, Claims
<1>2. \A r \in rows \cup {row} : r.claim.seq <= claim.seq
  BY <1>1 DEF RowsOrdered
<1>3. ASSUME NEW a \in Approvals, OwnRows(rows \cup {row}, a) # {}
      PROVE  \E r \in OwnRows(rows \cup {row}, a) :
               \A s \in OwnRows(rows \cup {row}, a) : s.claim.seq <= r.claim.seq
  <2>1. CASE row.claim.appr = a
    <3>1. row \in OwnRows(rows \cup {row}, a)
      BY <2>1 DEF OwnRows
    <3> QED BY <1>2, <3>1 DEF OwnRows
  <2>2. CASE row.claim.appr # a
    <3>1. OwnRows(rows \cup {row}, a) = OwnRows(rows, a)
      BY <2>2 DEF OwnRows
    <3> QED BY <1>3, <3>1 DEF RowsOrdered
  <2> QED BY <2>1, <2>2
<1> QED BY <1>2, <1>3 DEF RowsOrdered

\* A new claim is one more than every claim and every row before it.
LEMMA NewClaim ==
  ASSUME TypeInv, NEW w, NEW a \in Approvals, AppendClaim(w, a),
         UNCHANGED <<policyRows, responseRows>>
  PROVE  /\ claim' = NextClaim(a) /\ claim' \in Claims /\ claim'.appr = a
         /\ claim'.seq = claim.seq + 1 /\ claim' # NoClaim
         /\ ClaimOK' /\ RowsOrdered(policyRows)' /\ RowsOrdered(responseRows)'
<1>1. claim \in Claims /\ MaxClaims \in Nat /\ MaxApprovals \in Nat
  BY BoundsAssumption DEF TypeInv, TypeOK
<1>2. claim.attempt <= claim.seq /\ claim.seq < MaxClaims
  <2>1. CASE claim = NoClaim
    BY <2>1 DEF AppendClaim, NoClaim
  <2>2. CASE claim # NoClaim
    BY <1>1, <2>2 DEF AppendClaim, TypeInv, ClaimOK, Claims
  <2> QED BY <2>1, <2>2
<1>3. claim' = NextClaim(a)
  BY DEF AppendClaim
<1>4. /\ claim'.appr = a /\ claim'.seq = claim.seq + 1
      /\ claim'.attempt \in 1..claim'.seq
  BY <1>1, <1>2, <1>3 DEF NextClaim, Claims
<1>5. claim' \in Claims
  BY <1>1, <1>2, <1>3, <1>4 DEF NextClaim, Claims, Approvals
<1>6. claim'.seq # 0 /\ claim' # NoClaim
  BY <1>1, <1>4 DEF Claims, NoClaim
<1>7. ClaimOK'
  BY <1>4, <1>6 DEF ClaimOK
<1>8. /\ policyRows \subseteq [claim : Claims, decision : PolicyDecisions, route : PolicyRoutes]
      /\ responseRows \subseteq [claim : Claims, blocked : BOOLEAN]
  BY DEF TypeInv, TypeOK
<1>9. RowsOrdered(policyRows)' /\ RowsOrdered(responseRows)'
  BY <1>1, <1>4, <1>8 DEF TypeInv, RowsOrdered, OwnRows, Claims
<1> QED BY <1>3, <1>4, <1>5, <1>6, <1>7, <1>9

LEMMA EntryType ==
  \A r \in PolicyRoutes \cup ReviewNextAgents, b \in BOOLEAN : EntryOf(r, b) \in Pcs
BY DEF EntryOf, PolicyRoutes, ReviewNextAgents, Pcs, EnterPcs

LEMMA ResponseStatusType ==
  \A row, r, d : ResponseStatus(row, r, d) \in TerminalStatuses
BY DEF ResponseStatus, TerminalStatuses

\* A request that has just resolved a review, whichever way it goes on.
LEMMA StartedType ==
  ASSUME TypeInv, NEW row \in ApprovalRows, NEW c \in Claims, c.appr \in Approvals
  PROVE  /\ Continue(row, c) \in Requests
         /\ wf.status \in TerminalStatuses => Recovery(c) \in Requests
<1>0. 0 \in 0..MaxApprovals /\ c.appr \in 0..MaxApprovals /\ NoClaim \in Claims
  BY BoundsAssumption DEF Approvals, NoClaim, Claims
<1>1. NextAgent(row) \in ReviewNextAgents
  BY DEF NextAgent, ApprovalRows, RejectedNextAgent, ReviewNextAgents
<1>2. OwnRows(policyRows, c.appr) # {} =>
        Latest(OwnRows(policyRows, c.appr)).route \in PolicyRoutes
  BY LatestIsARow DEF TypeInv, TypeOK, OwnRows
<1>3. OwnRows(responseRows, c.appr) # {} =>
        Latest(OwnRows(responseRows, c.appr)).claim \in Claims
  BY LatestIsARow DEF TypeInv, TypeOK, OwnRows
<1>4. Continue(row, c) \in Requests
  <2> DEFINE route == IF NextAgent(row) = "policy_agent" /\ OwnRows(policyRows, c.appr) # {}
                        THEN Latest(OwnRows(policyRows, c.appr)).route
                        ELSE NextAgent(row)
  <2>1. route \in PolicyRoutes \cup ReviewNextAgents
    BY <1>1, <1>2
  <2> HIDE DEF route
  <2>2. EntryOf(route, c.appr \in refunds) \in Pcs
    <3>1. (c.appr \in refunds) \in BOOLEAN
      OBVIOUS
    <3> QED BY <2>1, <3>1, EntryType, Zenon
  <2>3. "pending_human" \in TerminalStatuses
    BY DEF TerminalStatuses
  <2> DEFINE policy == IF NextAgent(row) = "policy_agent" /\ OwnRows(policyRows, c.appr) # {}
                         THEN Latest(OwnRows(policyRows, c.appr)).decision ELSE row.policy
             status == IF route = "human_approval" THEN "pending_human"
                       ELSE ResponseStatus(row, route, policy)
  <2>4. status \in TerminalStatuses
    BY <2>3, ResponseStatusType
  <2>5. Continue(row, c) =
          [pc |-> EntryOf(route, c.appr \in refunds), claim |-> c, status |-> status,
           refunded |-> c.appr \in refunds, marker |-> NoClaim,
           child |-> IF route = "end" THEN c.appr ELSE 0]
    BY DEF Continue, route, policy, status
  <2> HIDE DEF policy, status
  <2> QED BY <1>0, <2>2, <2>4, <2>5 DEF Requests
<1>5. ASSUME wf.status \in TerminalStatuses PROVE Recovery(c) \in Requests
  BY <1>0, <1>3, <1>5 DEF Recovery, Requests, Pcs, EnterPcs
<1> QED BY <1>4, <1>5

LEMMA TypeDecideReview ==
  ASSUME TypeInv, NEW w \in Workers, NEW a \in Approvals, NEW d \in ReviewDecisions,
         DecideReview(w, a, d)
  PROVE  TypeInv'
<1> DEFINE row == [appr[a] EXCEPT !.status = ResolutionStatus(d), !.decision = d]
<1>1. AppendClaim(w, a)
  BY DEF DecideReview
<1>2. UNCHANGED <<nAppr, revoked, done, policyRows, responseRows, blocks, refunds>>
  BY DEF DecideReview
<1>3. /\ claim' \in Claims /\ claim'.appr = a /\ ClaimOK'
      /\ RowsOrdered(policyRows)' /\ RowsOrdered(responseRows)'
  BY <1>1, <1>2, NewClaim
<1>4. row \in ApprovalRows
  BY RoutingTypes DEF TypeInv, TypeOK, ApprovalRows
<1>5. appr' \in [Approvals -> ApprovalRows]
  BY <1>4 DEF DecideReview, TypeInv, TypeOK
<1>6. wf' \in [status : WorkflowStatuses, agent : WorkflowAgents]
  <2>1. NextAgent(row) \in ReviewNextAgents
    BY <1>4 DEF NextAgent, ApprovalRows, RejectedNextAgent, ReviewNextAgents
  <2>2. TerminalWorkflowState("completed") \in [status : WorkflowStatuses, agent : WorkflowAgents]
    BY RoutingTypes DEF TerminalStatuses
  <2>3. wf' = IF NextAgent(row) = "end" THEN TerminalWorkflowState("completed")
              ELSE [status |-> "running", agent |-> NextAgent(row)]
    BY DEF DecideReview
  <2> HIDE DEF row
  <2> QED BY <2>1, <2>2, <2>3 DEF ReviewNextAgents, WorkflowStatuses, WorkflowAgents
<1>7. req' \in [Workers -> Requests]
  <2>1. Continue(row, claim') \in Requests
    BY <1>3, <1>4, StartedType
  <2> QED BY <2>1 DEF DecideReview, TypeInv, TypeOK
<1>8. fresh' \in BOOLEAN
  BY <1>1 DEF AppendClaim
<1> QED BY <1>2, <1>3, <1>5, <1>6, <1>7, <1>8 DEF TypeInv, TypeOK

LEMMA TypeRetryContinuation ==
  ASSUME TypeInv, NEW w \in Workers, NEW a \in Approvals, RetryContinuation(w, a)
  PROVE  TypeInv'
<1>1. AppendClaim(w, a)
  BY DEF RetryContinuation
<1>2. UNCHANGED <<wf, nAppr, appr, revoked, done, policyRows, responseRows, blocks, refunds>>
  BY DEF RetryContinuation
<1>3. /\ claim' \in Claims /\ claim'.appr = a /\ ClaimOK'
      /\ RowsOrdered(policyRows)' /\ RowsOrdered(responseRows)'
  BY <1>1, <1>2, NewClaim
<1>4. req' \in [Workers -> Requests]
  <2>1. appr[a] \in ApprovalRows
    BY DEF TypeInv, TypeOK
  <2>2. /\ Continue(appr[a], claim') \in Requests
        /\ wf.status \in TerminalStatuses => Recovery(claim') \in Requests
    BY <1>3, <2>1, StartedType
  <2> QED BY <2>2 DEF RetryContinuation, TypeInv, TypeOK
<1>5. fresh' \in BOOLEAN
  BY <1>1 DEF AppendClaim
<1> QED BY <1>2, <1>3, <1>4, <1>5 DEF TypeInv, TypeOK

\* Only the place where the request stands changes, and perhaps the lease.
LEMMA TypeMoved ==
  ASSUME TypeInv, NEW w \in Workers, NEW pc \in Pcs, Goto(w, pc) \/ UNCHANGED req,
         fresh' \in BOOLEAN,
         UNCHANGED <<wf, nAppr, appr, claim, revoked, done, policyRows, responseRows, blocks,
                     refunds>>
  PROVE  TypeInv'
<1>1. req' \in [Workers -> Requests]
  BY DEF TypeInv, TypeOK, Goto, Requests
<1> QED BY <1>1, MarkersUnchanged DEF TypeInv, TypeOK

LEMMA InsertReviewType ==
  ASSUME TypeInv, NEW row, row \in ApprovalRows, nAppr < MaxApprovals,
         nAppr' = nAppr + 1, appr' = [appr EXCEPT ![nAppr + 1] = row]
  PROVE  appr' \in [Approvals -> ApprovalRows] /\ nAppr' \in 0..MaxApprovals
<1>1. nAppr' \in 0..MaxApprovals
  BY BoundsAssumption DEF TypeInv, TypeOK
<1>2. appr' \in [Approvals -> ApprovalRows]
  <2>1. appr \in [Approvals -> ApprovalRows]
    BY DEF TypeInv, TypeOK
  <2> QED BY <2>1
<1> QED BY <1>1, <1>2

\* Whoever persists a Policy decision, with or without a claim.
LEMMA PolicyApprovalType ==
  ASSUME TypeInv, NEW d \in PolicyDecisions, NEW route \in PolicyRoutes, NEW marker \in Claims,
         PersistPolicyApproval(d, route, marker)
  PROVE  appr' \in [Approvals -> ApprovalRows] /\ nAppr' \in 0..MaxApprovals
<1> DEFINE row == PendingRow("policy", TRUE, d, marker)
<1>1. row \in ApprovalRows
  BY RoutingTypes DEF PendingRow, ApprovalRows, Stages
<1>2. appr \in [Approvals -> ApprovalRows] /\ nAppr \in 0..MaxApprovals
  BY DEF TypeInv, TypeOK
<1>3. CASE /\ appr' = [a \in Approvals |-> IF a \in PendingPolicyApprovals
                                           THEN [appr[a] EXCEPT !.status = "deleted"]
                                           ELSE appr[a]]
           /\ UNCHANGED nAppr
  <2>1. \A a \in Approvals : [appr[a] EXCEPT !.status = "deleted"] \in ApprovalRows
    BY <1>2 DEF ApprovalRows
  <2> QED BY <1>2, <1>3, <2>1
<1>4. CASE InsertReview(row)
  BY <1>1, <1>4, InsertReviewType DEF InsertReview
<1>5. CASE /\ appr' = [appr EXCEPT ![CHOOSE a \in PendingPolicyApprovals : TRUE] = row]
           /\ UNCHANGED nAppr
  BY <1>1, <1>2, <1>5
<1> QED BY <1>3, <1>4, <1>5 DEF PersistPolicyApproval

LEMMA TypePersistPolicy ==
  ASSUME TypeInv, NEW w \in Workers, NEW d \in PolicyDecisions, NEW b \in BOOLEAN,
         PersistPolicy(w, d, b)
  PROVE  TypeInv'
<1> DEFINE route == PolicyNextAgent(d, b)
           handoff == [claim |-> claim, decision |-> d, route |-> route]
<1>0. /\ claim # NoClaim /\ claim \in Claims /\ claim.appr \in Approvals
  BY ActiveFacts DEF PersistPolicy, AtStage
<1>1. route \in PolicyRoutes
  BY RoutingTypes
<1>3. PersistPolicyApproval(d, route, claim)
  BY DEF PersistPolicy
<1> HIDE DEF route
<1>4. appr' \in [Approvals -> ApprovalRows] /\ nAppr' \in 0..MaxApprovals
  BY <1>0, <1>1, <1>3, PolicyApprovalType
<1>5. policyRows' = policyRows \cup {handoff} /\ handoff.claim = claim
  BY DEF PersistPolicy, route
<1>6. /\ policyRows' \subseteq [claim : Claims, decision : PolicyDecisions, route : PolicyRoutes]
      /\ blocks' \subseteq [stage : Stages, claim : Claims]
  BY <1>0, <1>1, <1>5 DEF PersistPolicy, TypeInv, TypeOK, Stages
<1>7. wf' \in [status : WorkflowStatuses, agent : WorkflowAgents]
  BY <1>1, RoutingTypes DEF PersistPolicy, route
<1>8. req' \in [Workers -> Requests]
  <2> DEFINE status == IF route = "human_approval" THEN "pending_human"
                       ELSE ResponseStatus(appr[claim.appr], route, d)
  <2>1. status \in TerminalStatuses
    BY ResponseStatusType DEF TerminalStatuses
  <2>2. EntryOf(route, req[w].refunded) \in Pcs
    BY <1>1, EntryType DEF TypeInv, TypeOK, Requests
  <2>3. req' = [req EXCEPT ![w].pc = EntryOf(route, req[w].refunded), ![w].status = status]
    BY DEF PersistPolicy, route
  <2> HIDE DEF status
  <2> QED BY <2>1, <2>2, <2>3 DEF TypeInv, TypeOK, Requests
<1>9. RowsOrdered(policyRows)' /\ RowsOrdered(responseRows)'
  <2>1. RowsOrdered(policyRows) /\ \A r \in policyRows : r.claim \in Claims
    BY DEF TypeInv, TypeOK
  <2>2. RowsOrdered(policyRows \cup {handoff})
    BY <1>0, <1>5, <2>1, RowAdded
  <2>3. UNCHANGED <<claim, responseRows>>
    BY DEF PersistPolicy
  <2> QED BY <1>5, <2>2, <2>3 DEF TypeInv, RowsOrdered, OwnRows
<1>10. /\ UNCHANGED <<claim, revoked, done, responseRows, refunds>>
       /\ fresh' \in BOOLEAN
  BY DEF PersistPolicy
<1> QED BY <1>4, <1>6, <1>7, <1>8, <1>9, <1>10 DEF TypeInv, TypeOK, ClaimOK

LEMMA TypeEnsureHumanApproval ==
  ASSUME TypeInv, NEW w \in Workers, NEW stage \in Stages, NEW marker \in Claims,
         NEW pc \in Pcs, EnsureHumanApproval(w, stage, marker, pc)
  PROVE  TypeInv'
<1>0. /\ appr \in [Approvals -> ApprovalRows] /\ nAppr \in 0..MaxApprovals
      /\ MaxApprovals \in Nat
  BY BoundsAssumption DEF TypeInv, TypeOK
<1>1. UNCHANGED <<claim, revoked, done, policyRows, responseRows, blocks, refunds>>
      /\ fresh' \in BOOLEAN
  BY DEF EnsureHumanApproval
<1>2. CASE Pending # {} /\ UNCHANGED <<wf, nAppr, appr>>
           /\ req' = [req EXCEPT ![w].pc = pc, ![w].child = CHOOSE a \in Pending : TRUE]
  <2>1. (CHOOSE a \in Pending : TRUE) \in 0..MaxApprovals
    BY <1>0, <1>2 DEF Pending, Approvals
  <2>2. req' \in [Workers -> Requests]
    BY <1>2, <2>1 DEF TypeInv, TypeOK, Requests
  <2> QED BY <1>1, <1>2, <2>2, MarkersUnchanged DEF TypeInv, TypeOK
<1>3. CASE /\ InsertReview(PendingRow(stage, FALSE, "none", marker))
           /\ req' = [req EXCEPT ![w].pc = pc, ![w].child = nAppr + 1]
           /\ wf' = TerminalWorkflowState("pending_human")
  <2>1. PendingRow(stage, FALSE, "none", marker) \in ApprovalRows
    BY RoutingTypes DEF PendingRow, ApprovalRows
  <2>2. appr' \in [Approvals -> ApprovalRows] /\ nAppr' \in 0..MaxApprovals
    BY <1>3, <2>1, InsertReviewType DEF InsertReview
  <2>3. req' \in [Workers -> Requests]
    <3>1. nAppr + 1 \in 0..MaxApprovals
      BY <1>0, <1>3 DEF InsertReview
    <3> QED BY <1>3, <3>1 DEF TypeInv, TypeOK, Requests
  <2>4. wf' \in [status : WorkflowStatuses, agent : WorkflowAgents]
    BY <1>3, RoutingTypes DEF TerminalStatuses
  <2> QED BY <1>1, <2>2, <2>3, <2>4, MarkersUnchanged DEF TypeInv, TypeOK
<1> QED BY <1>2, <1>3 DEF EnsureHumanApproval

LEMMA TypePersistResponse ==
  ASSUME TypeInv, NEW w \in Workers, PersistResponse(w)
  PROVE  TypeInv'
<1> DEFINE handoff == [claim |-> claim, blocked |-> req[w].status = "pending_human"]
<1>0. claim # NoClaim /\ claim \in Claims
  BY ActiveFacts DEF PersistResponse, AtStage
<1>1. /\ responseRows' = responseRows \cup {handoff} /\ handoff.claim = claim
      /\ UNCHANGED <<nAppr, appr, claim, revoked, done, policyRows, blocks, refunds>>
      /\ fresh' \in BOOLEAN
  BY DEF PersistResponse
<1>2. responseRows' \subseteq [claim : Claims, blocked : BOOLEAN]
  <2>1. (req[w].status = "pending_human") \in BOOLEAN
    OBVIOUS
  <2>2. handoff \in [claim : Claims, blocked : BOOLEAN]
    BY <1>0, <2>1, Zenon
  <2> QED BY <1>1, <2>2 DEF TypeInv, TypeOK
<1>3. wf' \in [status : WorkflowStatuses, agent : WorkflowAgents]
  BY RoutingTypes DEF PersistResponse, TypeInv, TypeOK, Requests
<1>4. req' \in [Workers -> Requests]
  BY DEF PersistResponse, Goto, TypeInv, TypeOK, Requests, Pcs, StagePcs
<1>5. RowsOrdered(responseRows)' /\ RowsOrdered(policyRows)'
  <2>1. RowsOrdered(responseRows) /\ \A r \in responseRows : r.claim \in Claims
    BY DEF TypeInv, TypeOK
  <2>2. RowsOrdered(responseRows \cup {handoff})
    BY <1>0, <1>1, <2>1, RowAdded
  <2> QED BY <1>1, <2>2 DEF TypeInv, RowsOrdered, OwnRows
<1> QED BY <1>1, <1>2, <1>3, <1>4, <1>5 DEF TypeInv, TypeOK, ClaimOK

LEMMA TypeRunStage ==
  ASSUME TypeInv, NEW w \in Workers, RunStage(w)
  PROVE  TypeInv'
<1>0. StagePcs \subseteq Pcs /\ EnterPcs \subseteq Pcs /\ RunPcs \subseteq Pcs
      /\ {"idle", "mark", "recover_mark", "failing"} \subseteq Pcs
  BY DEF Pcs, RunPcs
<1>1. CASE EnterStep(w)
  <2>1. PICK pc \in StagePcs : Goto(w, pc)
    BY <1>1 DEF EnterStep, EnterPcs, StagePcs
  <2> QED BY <1>0, <1>1, <2>1, TypeMoved DEF EnterStep
<1>2. CASE Heartbeat(w)
  BY <1>0, <1>2, TypeMoved DEF Heartbeat
<1>3. CASE \E d \in PolicyDecisions, b \in BOOLEAN : PersistPolicy(w, d, b)
  BY <1>3, TypePersistPolicy
<1>4. CASE EnsurePolicyReview(w) \/ EnsureResponseReview(w) \/ EnsureRecoveredReview(w)
  <2>1. claim \in Claims /\ req[w].marker \in Claims
    BY DEF TypeInv, TypeOK, Requests
  <2>2. \E s \in Stages, m \in Claims, pc \in Pcs : EnsureHumanApproval(w, s, m, pc)
    BY <1>0, <1>4, <2>1
    DEF EnsurePolicyReview, EnsureResponseReview, EnsureRecoveredReview, Stages
  <2> QED BY <2>2, TypeEnsureHumanApproval
<1>5. CASE PersistRefund(w)
  <2>1. claim.appr \in Approvals
    BY <1>5, ActiveFacts DEF PersistRefund, AtStage
  <2>2. refunds' \subseteq 0..MaxApprovals
    <3>1. claim.appr \in 0..MaxApprovals
      BY <2>1, BoundsAssumption DEF Approvals
    <3> QED BY <1>5, <3>1 DEF PersistRefund, TypeInv, TypeOK
  <2>3. req' \in [Workers -> Requests]
    BY <1>5 DEF PersistRefund, Goto, TypeInv, TypeOK, Requests, Pcs, EnterPcs
  <2>4. wf' \in [status : WorkflowStatuses, agent : WorkflowAgents]
    BY <1>5 DEF PersistRefund, WorkflowStatuses, WorkflowAgents
  <2> QED BY <1>5, <2>2, <2>3, <2>4, MarkersUnchanged DEF PersistRefund, TypeInv, TypeOK
<1>6. CASE \E b \in BOOLEAN : SaveResponseGovernance(w, b)
  <2> PICK b \in BOOLEAN : SaveResponseGovernance(w, b)
    BY <1>6
  <2>1. claim \in Claims
    BY DEF TypeInv, TypeOK
  <2>2. blocks' \subseteq [stage : Stages, claim : Claims]
    BY <2>1 DEF SaveResponseGovernance, TypeInv, TypeOK, Stages
  <2>3. req' \in [Workers -> Requests]
    <3> DEFINE s == IF b THEN "pending_human" ELSE req[w].status
    <3>1. req[w] \in Requests
      BY DEF TypeInv, TypeOK
    <3>2. s \in TerminalStatuses
      BY <3>1 DEF Requests, TerminalStatuses
    <3>3. req' = [req EXCEPT ![w] = [@ EXCEPT !.pc = "persist_response", !.status = s]]
      BY DEF SaveResponseGovernance, TypeInv, TypeOK
    <3> HIDE DEF s
    <3>4. [req[w] EXCEPT !.pc = "persist_response", !.status = s] \in Requests
      BY <3>1, <3>2 DEF Requests, Pcs, StagePcs
    <3> QED BY <3>3, <3>4 DEF TypeInv, TypeOK
  <2> QED BY <2>2, <2>3, MarkersUnchanged DEF SaveResponseGovernance, TypeInv, TypeOK
<1>7. CASE PersistResponse(w)
  BY <1>7, TypePersistResponse
<1>8. CASE MarkContinuation(w)
  <2>1. claim.appr \in Approvals /\ claim \in Claims
    BY <1>8, ActiveFacts DEF MarkContinuation
  <2>2. req[w] \in Requests
    BY DEF TypeInv, TypeOK
  <2>3. done' \in [Approvals -> Records]
    BY <1>8, <2>1, <2>2 DEF MarkContinuation, TypeInv, TypeOK, Records, Requests
  <2>4. wf' \in [status : WorkflowStatuses, agent : WorkflowAgents]
    BY <1>8, <2>2, RoutingTypes DEF MarkContinuation, Requests
  <2>5. Idle \in Requests
    BY BoundsAssumption
    DEF Idle, Requests, Pcs, TerminalStatuses, NoClaim, Claims
  <2>6. req' \in [Workers -> Requests]
    BY <1>8, <2>5 DEF MarkContinuation, TypeInv, TypeOK
  <2> QED BY <1>8, <2>3, <2>4, <2>6, MarkersUnchanged DEF MarkContinuation, TypeInv, TypeOK
<1> QED BY <1>1, <1>2, <1>3, <1>4, <1>5, <1>6, <1>7, <1>8 DEF RunStage

LEMMA TypeFail ==
  ASSUME TypeInv, NEW w \in Workers, Fail(w)
  PROVE  TypeInv'
<1>1. Idle \in Requests
  BY BoundsAssumption DEF Idle, Requests, Pcs, TerminalStatuses, NoClaim, Claims
<1>2. CASE StepFails(w)
  <2>1. "failing" \in Pcs
    BY DEF Pcs
  <2> QED BY <1>2, <2>1, TypeMoved DEF StepFails, dbVars, TypeInv, TypeOK
<1>3. CASE RecordFailure(w)
  <2>1. Token(claim) \in Approvals \X (1..MaxClaims)
    BY <1>3, ActiveFacts DEF RecordFailure, AtStage
  <2>2. req' \in [Workers -> Requests]
    BY <1>1, <1>3 DEF RecordFailure, TypeInv, TypeOK
  <2>3. wf' \in [status : WorkflowStatuses, agent : WorkflowAgents]
    BY <1>3 DEF RecordFailure, WorkflowStatuses, WorkflowAgents
  <2> QED BY <1>3, <2>1, <2>2, <2>3, MarkersUnchanged DEF RecordFailure, TypeInv, TypeOK
<1>4. CASE RequestEnds(w)
  <2>1. req' \in [Workers -> Requests]
    BY <1>1, <1>4 DEF RequestEnds, TypeInv, TypeOK
  <2> QED BY <1>4, <2>1, MarkersUnchanged DEF RequestEnds, dbVars, TypeInv, TypeOK
<1> QED BY <1>2, <1>3, <1>4 DEF Fail

LEMMA TypeStep == TypeInv /\ [Next]_vars => TypeInv'
<1> SUFFICES ASSUME TypeInv, [Next]_vars PROVE TypeInv'
  OBVIOUS
<1>1. CASE LeaseExpires
  BY <1>1, MarkersUnchanged DEF LeaseExpires, TypeInv, TypeOK
<1>2. ASSUME NEW w \in Workers, Resolve(w) PROVE TypeInv'
  BY <1>2, TypeDecideReview, TypeRetryContinuation DEF Resolve
<1>3. ASSUME NEW w \in Workers, RunStage(w) PROVE TypeInv'
  BY <1>3, TypeRunStage
<1>4. ASSUME NEW w \in Workers, Fail(w) PROVE TypeInv'
  BY <1>4, TypeFail
<1>5. CASE UNCHANGED vars
  BY <1>5, MarkersUnchanged DEF vars, dbVars, TypeInv, TypeOK
<1> QED BY <1>1, <1>2, <1>3, <1>4, <1>5 DEF Next

\* Every row, marker and request is well formed in every reachable state, whatever the
\* number of requests, reviews and claims.
THEOREM TypeCorrect == Spec => []TypeOK
<1>1. TypeInv => TypeOK
  BY DEF TypeInv
<1> QED BY <1>1, InitTypeInv, TypeStep, PTL DEF Spec

------------------------------------------------------------------------------------
(* Safety: what the fence gives, and the frames most actions share.                  *)

LEMMA OwnerFacts ==
  ASSUME TypeInv, Holders, NEW w \in Workers, Owner(w)
  PROVE  /\ req[w].claim = claim /\ claim # NoClaim /\ claim \in Claims
         /\ claim.appr \in Approvals /\ claim.appr \in Resolved /\ claim.appr \notin Finished
         /\ done[claim.appr] = NoRecord
<1>1. /\ claim # NoClaim /\ claim \in Claims /\ claim.appr \in Approvals
      /\ Token(req[w].claim) = Token(claim) /\ done[claim.appr] = NoRecord
  BY ActiveFacts DEF Owner
<1>2. req[w].claim \in Claims
  BY DEF TypeInv, TypeOK, Requests
<1>3. /\ req[w].claim.appr = claim.appr /\ req[w].claim.attempt = claim.attempt
      /\ claim.attempt \in Nat
  BY <1>1, <1>2 DEF Token, Claims
<1>4. req[w].claim = claim /\ claim.appr \in Resolved
  BY <1>3 DEF Holders, Owner
<1> QED BY <1>1, <1>4 DEF Finished

\* A request that shares the token with the owner is the owner.
LEMMA OneOwnerFact ==
  ASSUME TypeInv, Holders, NEW v \in Workers, NEW w \in Workers, Owner(v), Owner(w)
  PROVE  v = w
BY OwnerFacts DEF Owner, Holders

\* While the owner keeps its claim, no step of it makes anybody else an owner.
LEMMA OthersKept ==
  ASSUME TypeInv, Holders, NEW v \in Workers, NEW w \in Workers, Owner(w), UNCHANGED claim,
         req'[v] = req[v], Owner(v)'
  PROVE  v = w
<1>1. Held(v) /\ Token(req[v].claim) = Token(claim)
  BY DEF Owner, Held, ActiveApprovalClaim, Token
<1>2. req[v].claim \in Claims /\ claim \in Claims
  BY DEF TypeInv, TypeOK, Requests
<1>3. req[v].claim = claim
  BY <1>1, <1>2 DEF Token, Claims, Holders
<1> QED BY <1>1, <1>3, OwnerFacts DEF Holders, Owner

\* Nothing that a stage may owe is decided outside these rows.
LEMMA OwedKept ==
  ASSUME UNCHANGED <<appr, claim, done, policyRows, refunds>>
  PROVE  /\ PolicyOwed' = PolicyOwed /\ RefundOwed' = RefundOwed /\ Pending' = Pending
         /\ \A a \in Approvals : RefundRoute(a)' = RefundRoute(a)
<1>1. Finished' = Finished /\ Pending' = Pending
  BY DEF Finished, Pending
<1>2. OwnRows(policyRows, claim.appr)' = OwnRows(policyRows, claim.appr)
  BY DEF OwnRows
<1>3. \A a : RefundRoute(a)' = RefundRoute(a)
  BY DEF RefundRoute
<1>4. PolicyOwed' = PolicyOwed
  BY <1>1, <1>2 DEF PolicyOwed
<1>5. RefundOwed' = RefundOwed
  BY <1>1 DEF RefundOwed, RefundRoute
<1> QED BY <1>1, <1>3, <1>4, <1>5

\* A step that decides nothing, opens nothing, pays nothing and ends nothing keeps the
\* order of the reviews; it may write the workflow row only while no end is recorded.
LEMMA LineageKept ==
  ASSUME IInv, UNCHANGED <<nAppr, appr, claim, done>>,
         claim.appr \in Finished => UNCHANGED wf
  PROVE  Lineage'
<1>1. Finished' = Finished /\ Pending' = Pending /\ Resolved' = Resolved
  BY DEF Finished, Pending, Resolved
<1>2. TerminalAgreement'
  BY <1>1 DEF IInv, SafeInv, Lineage, TerminalAgreement
<1> QED BY <1>1, <1>2 DEF IInv, SafeInv, Lineage

LEMMA PaidKept ==
  ASSUME IInv, UNCHANGED <<appr, claim, done, policyRows, refunds>>
  PROVE  Paid'
<1>1. Finished' = Finished /\ Pending' = Pending
  BY DEF Finished, Pending
<1> QED BY <1>1 DEF IInv, SafeInv, Paid, RefundRoute

\* Requests go on with the claim and the marker they have, or end.
LEMMA HoldersKept ==
  ASSUME IInv, UNCHANGED claim, Resolved \subseteq Resolved',
         \A v \in Workers : Held(v)' => /\ Held(v)
                                        /\ req'[v].claim = req[v].claim
                                        /\ req'[v].marker = req[v].marker
  PROVE  Holders'
BY DEF IInv, SafeInv, Holders

\* The rows are the same, so only the place of the owner and the status need a look.
LEMMA ProgressKept ==
  ASSUME IInv, UNCHANGED <<appr, claim, done, policyRows, refunds>>,
         (PolicyOwed \/ RefundOwed) => wf'.status \in {"running", "failed"},
         \A v \in Workers : Owner(v)' => Placed(v)'
  PROVE  Progress'
<1>1. (PolicyOwed \/ RefundOwed)' => Pending' = {} /\ wf'.status \in {"running", "failed"}
  BY OwedKept DEF IInv, SafeInv, Progress
<1>2. PolicyOnce'
  BY DEF IInv, SafeInv, Progress, PolicyOnce
<1> QED BY <1>1, <1>2 DEF IInv, SafeInv, Progress

------------------------------------------------------------------------------------
(* Safety: steps that only move a request.                                          *)

\* A step of nobody's claim: the fence in front of every request is where it was, and no
\* request stands anywhere new except at the end of its try block.
LEMMA MovedSafe ==
  ASSUME IInv, UNCHANGED <<wf, nAppr, appr, claim, revoked, done, policyRows, refunds>>,
         \A v \in Workers : \/ req'[v] = req[v]
                            \/ req'[v] = [req[v] EXCEPT !.pc = "failing"] /\ Held(v)
                            \/ req'[v] = Idle
  PROVE  SafeInv'
<1>0. req \in [Workers -> Requests]
  BY DEF IInv, TypeInv, TypeOK
<1>1. Lineage' /\ Paid'
  BY LineageKept, PaidKept
<1>2. Holders'
  <2>1. Resolved' = Resolved
    BY DEF Resolved
  <2>2. ASSUME NEW v \in Workers, Held(v)'
        PROVE  /\ Held(v)
               /\ req'[v].claim = req[v].claim
               /\ req'[v].marker = req[v].marker
    <3>1. CASE req'[v] = req[v]
      BY <2>2, <3>1 DEF Held
    <3>2. CASE req'[v] = [req[v] EXCEPT !.pc = "failing"] /\ Held(v)
      <4>1. req[v] \in Requests
        BY <1>0
      <4> QED BY <3>2, <4>1 DEF Requests
    <3>3. req'[v] # Idle
      BY <2>2 DEF Held, Idle
    <3> QED BY <3>1, <3>2, <3>3
  <2> QED BY <2>1, <2>2, HoldersKept
<1>3. ASSUME NEW v \in Workers, Owner(v)' PROVE Placed(v)'
  <2>1. \/ req'[v] = req[v] 
        \/ req'[v] = [req[v] EXCEPT !.pc = "failing"] /\ Held(v)
    BY <1>3 DEF Owner, Held, Idle
  <2>2. Owner(v)
    BY <1>0, <1>3, <2>1 DEF Owner, Held, ActiveApprovalClaim, Token, Requests
  <2>3. Placed(v)
    BY <2>2 DEF IInv, SafeInv, Progress
  <2>4. OwnRows(policyRows, claim.appr)' = OwnRows(policyRows, claim.appr)
    BY DEF OwnRows
  <2>5. CASE req'[v] = req[v]
    <3>1. (PolicyOwed' <=> PolicyOwed) /\ (RefundOwed' <=> RefundOwed)
      BY OwedKept
    <3>2. /\ PolicyOwed' => req[v].pc \in {"enter_policy", "policy", "failing"}
          /\ RefundOwed' => req[v].pc \in {"enter_refund", "refund", "failing"}
          /\ req[v].pc \in {"enter_policy", "policy"} => PolicyOwed' /\ ~req[v].refunded
          /\ req[v].pc \in {"enter_refund", "refund"} => RefundOwed'
          /\ req[v].pc \in {"enter_policy_review", "policy_review"} =>
               \E r \in OwnRows(policyRows, claim.appr) : r.route = "human_approval"
      BY <2>3, <3>1 DEF Placed
    <3> QED BY <2>4, <2>5, <3>2 DEF Placed
  <2>6. CASE req'[v] = [req[v] EXCEPT !.pc = "failing"]
    <3>1. req'[v].pc = "failing"
      BY <1>0, <2>6 DEF Requests
    <3> QED BY <3>1 DEF Placed
  <2> QED BY <2>1, <2>5, <2>6
<1>4. Progress'
  BY <1>3, ProgressKept DEF IInv, SafeInv, Progress
<1> QED BY <1>1, <1>2, <1>4 DEF SafeInv

\* A step of the owner that touches neither reviews, claims, Policy rows nor refunds.
LEMMA OwnerStepSafe ==
  ASSUME IInv, NEW w \in Workers, Owner(w), NEW r,
         UNCHANGED <<nAppr, appr, claim, done, policyRows, refunds>>,
         req' = [req EXCEPT ![w] = r],
         r.pc # "idle" => r.claim = req[w].claim /\ r.marker = req[w].marker,
         (PolicyOwed \/ RefundOwed) => wf'.status \in {"running", "failed"},
         Owner(w)' => Placed(w)'
  PROVE  SafeInv'
<1>0. req \in [Workers -> Requests] /\ TypeInv /\ Holders
  BY DEF IInv, SafeInv, TypeInv, TypeOK
<1>1. claim.appr \notin Finished
  BY <1>0, OwnerFacts
<1>2. Lineage' /\ Paid'
  BY <1>1, LineageKept, PaidKept
<1>3. Holders'
  <2>1. Resolved' = Resolved
    BY DEF Resolved
  <2>2. \A v \in Workers : Held(v)' => /\ Held(v)
                                       /\ req'[v].claim = req[v].claim
                                       /\ req'[v].marker = req[v].marker
    BY <1>0 DEF Held, Owner
  <2> QED BY <2>1, <2>2, HoldersKept
<1>4. ASSUME NEW v \in Workers, Owner(v)' PROVE Placed(v)'
  <2>1. CASE v = w
    BY <1>4, <2>1
  <2>2. CASE v # w
    <3>1. req'[v] = req[v]
      BY <1>0, <2>2
    <3> QED BY <1>0, <1>4, <2>2, <3>1, OthersKept
  <2> QED BY <2>1, <2>2
<1>5. Progress'
  BY <1>4, ProgressKept
<1> QED BY <1>2, <1>3, <1>5 DEF SafeInv

------------------------------------------------------------------------------------
(* Safety: the stages that decide nothing.                                          *)

LatePcs == {"enter_response", "response", "persist_response", "response_review",
            "enter_policy_review", "policy_review", "enter_recover_review",
            "recover_review", "mark", "recover_mark"}

LEMMA NothingOwed ==
  ASSUME IInv, NEW w \in Workers, Owner(w), req[w].pc \in LatePcs
  PROVE  ~PolicyOwed /\ ~RefundOwed
BY DEF IInv, SafeInv, Progress, Placed, LatePcs

\* Past Policy and Refund the owner may go anywhere that is not before them.
LEMMA PlacedLate ==
  ASSUME IInv, NEW w \in Workers, Owner(w), req[w].pc \in LatePcs,
         UNCHANGED <<appr, claim, done, policyRows, refunds>>,
         req'[w].pc \in {"response", "persist_response", "response_review",
                         "recover_review", "mark", "recover_mark"}
  PROVE  Placed(w)'
BY NothingOwed, OwedKept DEF Placed

LEMMA EnterStepSafe ==
  ASSUME IInv, NEW w \in Workers, EnterStep(w)
  PROVE  SafeInv'
<1>0. req[w] \in Requests /\ req \in [Workers -> Requests]
  BY DEF IInv, TypeInv, TypeOK
<1>1. Owner(w)
  BY DEF EnterStep, Owner, Held, EnterPcs
<1>2. PICK pc :
        /\ req' = [req EXCEPT ![w].pc = pc]
        /\ \/ req[w].pc = "enter_policy" /\ pc = "policy"
           \/ req[w].pc = "enter_policy_review" /\ pc = "policy_review"
           \/ req[w].pc = "enter_refund" /\ pc = "refund"
           \/ req[w].pc = "enter_response" /\ pc = "response"
           \/ req[w].pc = "enter_recover_review" /\ pc = "recover_review"
  <2> DEFINE to == [enter_policy |-> "policy", enter_policy_review |-> "policy_review",
                    enter_refund |-> "refund", enter_response |-> "response",
                    enter_recover_review |-> "recover_review"]
  <2>1. \/ req[w].pc = "enter_policy" /\ to[req[w].pc] = "policy"
        \/ req[w].pc = "enter_policy_review" /\ to[req[w].pc] = "policy_review"
        \/ req[w].pc = "enter_refund" /\ to[req[w].pc] = "refund"
        \/ req[w].pc = "enter_response" /\ to[req[w].pc] = "response"
        \/ req[w].pc = "enter_recover_review" /\ to[req[w].pc] = "recover_review"
    BY DEF EnterStep, EnterPcs
  <2>2. req' = [req EXCEPT ![w].pc = to[req[w].pc]]
    BY DEF EnterStep, Goto
  <2> HIDE DEF to
  <2> QED BY <2>1, <2>2
<1> DEFINE r == [req[w] EXCEPT !.pc = pc]
<1>3. /\ req' = [req EXCEPT ![w] = r] /\ req'[w] = r
      /\ r.pc = pc /\ r.claim = req[w].claim /\ r.marker = req[w].marker
      /\ r.refunded = req[w].refunded
  BY <1>0, <1>2 DEF Requests
<1>4. UNCHANGED <<wf, nAppr, appr, claim, done, policyRows, refunds>>
  BY DEF EnterStep
<1>5. Placed(w)'
  <2>1. Placed(w)
    BY <1>1 DEF IInv, SafeInv, Progress
  <2>2. (PolicyOwed' <=> PolicyOwed) /\ (RefundOwed' <=> RefundOwed)
    BY <1>4, OwedKept
  <2>3. OwnRows(policyRows, claim.appr)' = OwnRows(policyRows, claim.appr)
    BY <1>4 DEF OwnRows
  <2> HIDE DEF r
  <2> QED BY <1>2, <1>3, <2>1, <2>2, <2>3 DEF Placed
<1>6. (PolicyOwed \/ RefundOwed) => wf'.status \in {"running", "failed"}
  BY <1>4 DEF IInv, SafeInv, Progress
<1> HIDE DEF r
<1> QED BY <1>1, <1>3, <1>4, <1>5, <1>6, OwnerStepSafe

LEMMA HeartbeatSafe ==
  ASSUME IInv, NEW w \in Workers, Heartbeat(w)
  PROVE  SafeInv'
BY MovedSafe DEF Heartbeat

LEMMA SaveResponseGovernanceSafe ==
  ASSUME IInv, NEW w \in Workers, NEW b \in BOOLEAN, SaveResponseGovernance(w, b)
  PROVE  SafeInv'
<1>0. req[w] \in Requests /\ req \in [Workers -> Requests]
  BY DEF IInv, TypeInv, TypeOK
<1>1. Owner(w) /\ req[w].pc = "response"
  BY DEF SaveResponseGovernance, AtStage, Owner, Held
<1> DEFINE s == IF b THEN "pending_human" ELSE req[w].status
           r == [req[w] EXCEPT !.pc = "persist_response", !.status = s]
<1>2. req' = [req EXCEPT ![w] = r]
  BY <1>0 DEF SaveResponseGovernance
<1>3. /\ req'[w].pc = "persist_response"
      /\ r.claim = req[w].claim /\ r.marker = req[w].marker
  BY <1>0, <1>2 DEF Requests
<1>4. UNCHANGED <<wf, nAppr, appr, claim, done, policyRows, refunds>>
  BY DEF SaveResponseGovernance
<1>5. Placed(w)'
  BY <1>1, <1>3, <1>4, PlacedLate DEF LatePcs
<1>6. (PolicyOwed \/ RefundOwed) => wf'.status \in {"running", "failed"}
  BY <1>1, NothingOwed DEF LatePcs
<1> HIDE DEF r
<1> QED BY <1>1, <1>2, <1>3, <1>4, <1>5, <1>6, OwnerStepSafe

LEMMA PersistResponseSafe ==
  ASSUME IInv, NEW w \in Workers, PersistResponse(w)
  PROVE  SafeInv'
<1>0. req[w] \in Requests /\ req \in [Workers -> Requests]
  BY DEF IInv, TypeInv, TypeOK
<1>1. Owner(w) /\ req[w].pc = "persist_response"
  BY DEF PersistResponse, AtStage, Owner, Held
<1> DEFINE pc == IF req[w].status = "pending_human" THEN "response_review" ELSE "mark"
           r == [req[w] EXCEPT !.pc = pc]
<1>2. req' = [req EXCEPT ![w] = r]
  BY <1>0 DEF PersistResponse, Goto
<1>3. /\ req'[w].pc \in {"response_review", "mark"}
      /\ r.claim = req[w].claim /\ r.marker = req[w].marker
  BY <1>0, <1>2 DEF Requests
<1>4. UNCHANGED <<nAppr, appr, claim, done, policyRows, refunds>>
  BY DEF PersistResponse
<1>5. Placed(w)'
  BY <1>1, <1>3, <1>4, PlacedLate DEF LatePcs
<1>6. (PolicyOwed \/ RefundOwed) => wf'.status \in {"running", "failed"}
  BY <1>1, NothingOwed DEF LatePcs
<1> HIDE DEF r
<1> QED BY <1>1, <1>2, <1>3, <1>4, <1>5, <1>6, OwnerStepSafe

LEMMA RecordFailureSafe ==
  ASSUME IInv, NEW w \in Workers, RecordFailure(w)
  PROVE  SafeInv'
<1>0. req \in [Workers -> Requests]
  BY DEF IInv, TypeInv, TypeOK
<1>1. Owner(w)
  BY DEF RecordFailure, AtStage, Owner, Held
<1>2. req' = [req EXCEPT ![w] = Idle] /\ Idle.pc = "idle"
      /\ UNCHANGED <<nAppr, appr, claim, done, policyRows, refunds>>
      /\ wf'.status = "failed"
  BY DEF RecordFailure, Idle
<1>3. ~Owner(w)'
  BY <1>0, <1>2 DEF Owner, Held
<1> QED BY <1>1, <1>2, <1>3, OwnerStepSafe

------------------------------------------------------------------------------------
(* Safety: opening a review.                                                        *)

\* The owner opens the child of the claimed review when nothing else is pending.
LEMMA OpenedLineage ==
  ASSUME IInv, NEW w \in Workers, Owner(w), Pending = {}, NEW row,
         nAppr < MaxApprovals, nAppr' = nAppr + 1,
         appr' = [appr EXCEPT ![nAppr + 1] = row], UNCHANGED <<claim, done>>,
         row.status = "pending", row.trigger # NoClaim,
         row.trigger.appr = claim.appr, row.trigger.seq <= claim.seq
  PROVE  /\ nAppr + 1 \in Approvals /\ claim.appr # nAppr + 1
         /\ appr[nAppr + 1].status = "absent" /\ appr'[nAppr + 1] = row
         /\ \A a \in Approvals : a # nAppr + 1 => appr'[a] = appr[a]
         /\ Pending' = {nAppr + 1} /\ Resolved' = Resolved /\ Finished' = Finished
         /\ Lineage'
<1>0. /\ appr \in [Approvals -> ApprovalRows] /\ nAppr \in 0..MaxApprovals
      /\ MaxApprovals \in Nat /\ TypeInv /\ Holders
  BY BoundsAssumption DEF IInv, SafeInv, TypeInv, TypeOK
<1>1. claim.appr \in Approvals /\ claim.appr \notin Finished /\ claim # NoClaim
      /\ claim.appr \in Resolved
  BY <1>0, OwnerFacts
<1>2. nAppr + 1 \in Approvals
  BY <1>0 DEF Approvals
<1>3. claim.appr <= nAppr /\ claim.appr # nAppr + 1
  BY <1>0, <1>1 DEF IInv, SafeInv, Lineage, Approvals
<1>4. appr[nAppr + 1].status = "absent"
  <2>1. nAppr + 1 > nAppr
    BY <1>0
  <2> QED BY <1>2, <2>1 DEF IInv, SafeInv, Lineage
<1>5. appr'[nAppr + 1] = row /\ \A a \in Approvals : a # nAppr + 1 => appr'[a] = appr[a]
  BY <1>0, <1>2
<1>6. Pending' = {nAppr + 1}
  BY <1>2, <1>5 DEF Pending
<1>7. Resolved' = Resolved
  BY <1>2, <1>4, <1>5 DEF Resolved
<1>8. Finished' = Finished
  BY DEF Finished
<1>9. \A a \in Approvals : a > nAppr' => appr'[a].status = "absent"
  <2> SUFFICES ASSUME NEW a \in Approvals, a > nAppr' PROVE appr'[a].status = "absent"
    OBVIOUS
  <2>1. a > nAppr /\ a # nAppr + 1
    BY <1>0 DEF Approvals
  <2> QED BY <1>5, <2>1 DEF IInv, SafeInv, Lineage
<1>10. claim.appr < nAppr + 1 /\ claim'.appr <= nAppr'
  BY <1>0, <1>1, <1>3 DEF Approvals
<1>11. TerminalAgreement'
  BY <1>1, <1>8 DEF TerminalAgreement
<1>12. Lineage'
  BY <1>1, <1>5, <1>6, <1>7, <1>8, <1>9, <1>10, <1>11 DEF IInv, SafeInv, Lineage
<1> QED BY <1>2, <1>3, <1>4, <1>5, <1>6, <1>7, <1>8, <1>12

LEMMA EnsureSafe ==
  ASSUME IInv, NEW w \in Workers, Owner(w), NEW stage \in {"policy", "response"},
         NEW marker \in Claims, NEW pc \in {"mark", "recover_mark"},
         EnsureHumanApproval(w, stage, marker, pc), req[w].pc \in LatePcs,
         marker # NoClaim, marker.appr = claim.appr, marker.seq <= claim.seq,
         stage = "policy" => refunds = {}
  PROVE  SafeInv'
<1>0. req[w] \in Requests /\ req \in [Workers -> Requests] /\ TypeInv /\ Holders
  BY DEF IInv, SafeInv, TypeInv, TypeOK
<1>1. ~PolicyOwed /\ ~RefundOwed
  BY NothingOwed
<1>2. UNCHANGED <<claim, revoked, done, policyRows, responseRows, blocks, refunds>>
  BY DEF EnsureHumanApproval
<1>3. ASSUME UNCHANGED <<wf, nAppr, appr>>, NEW c,
             req' = [req EXCEPT ![w].pc = pc, ![w].child = c]
      PROVE  SafeInv'
  <2> DEFINE r == [req[w] EXCEPT !.pc = pc, !.child = c]
  <2>1. req' = [req EXCEPT ![w] = r]
    BY <1>0, <1>3
  <2>2. req'[w].pc = pc /\ r.claim = req[w].claim /\ r.marker = req[w].marker
    BY <1>0, <2>1 DEF Requests
  <2>3. Placed(w)'
    BY <1>2, <1>3, <2>2, PlacedLate
  <2> HIDE DEF r
  <2> QED BY <1>1, <1>2, <1>3, <2>1, <2>2, <2>3, OwnerStepSafe
<1>4. CASE /\ Pending = {}
           /\ InsertReview(PendingRow(stage, FALSE, "none", marker))
           /\ req' = [req EXCEPT ![w].pc = pc, ![w].child = nAppr + 1]
  <2> DEFINE row == PendingRow(stage, FALSE, "none", marker)
  <2>0. PICK n : n = nAppr + 1
    OBVIOUS
  <2>1. /\ row.status = "pending" /\ row.trigger = marker /\ row.stage = stage
        /\ row.approved_next = ApprovedNextAgent(stage, "none")
    BY DEF PendingRow
  <2>2. nAppr < MaxApprovals /\ nAppr' = n /\ appr' = [appr EXCEPT ![n] = row]
    BY <1>4, <2>0 DEF InsertReview
  <2> HIDE DEF row
  <2>3. /\ n \in Approvals /\ claim.appr # n /\ appr[n].status = "absent" /\ appr'[n] = row
        /\ \A a \in Approvals : a # n => appr'[a] = appr[a]
        /\ Pending' = {n} /\ Resolved' = Resolved /\ Finished' = Finished /\ Lineage'
    BY <1>2, <1>4, <2>0, <2>1, <2>2, OpenedLineage
  <2>4. claim \in Claims /\ claim.appr \in Approvals
    BY <1>0, OwnerFacts
  <2>5. \A r \in policyRows : r.claim.appr # n
    BY <2>3 DEF IInv, SafeInv, Progress
  <2>6. \A a \in Approvals : a # n => (RefundRoute(a)' <=> RefundRoute(a))
    BY <1>2, <2>3 DEF RefundRoute
  <2>7. ~RefundRoute(n)'
    BY <2>1, <2>3 DEF RefundRoute
  <2>8. ~PolicyOwed' /\ ~RefundOwed'
    <3>1. OwnRows(policyRows, claim.appr)' = OwnRows(policyRows, claim.appr)
      BY <1>2 DEF OwnRows
    <3>2. appr'[claim'.appr] = appr[claim.appr]
      BY <1>2, <2>3, <2>4
    <3>3. ~PolicyOwed'
      BY <1>1, <1>2, <2>3, <3>1, <3>2 DEF PolicyOwed
    <3>4. ~RefundOwed'
      BY <1>1, <1>2, <2>3, <2>4, <2>6 DEF RefundOwed
    <3> QED BY <3>3, <3>4
  <2>9. req'[w].pc = pc /\ req'[w].claim = req[w].claim /\ req'[w].marker = req[w].marker
        /\ \A v \in Workers : v # w => req'[v] = req[v]
    BY <1>0, <1>4 DEF Requests
  <2>10. Holders'
    <3>1. \A v \in Workers : Held(v)' => /\ Held(v)
                                         /\ req'[v].claim = req[v].claim
                                         /\ req'[v].marker = req[v].marker
      BY <2>9 DEF Held, Owner
    <3> QED BY <1>2, <2>3, <3>1, HoldersKept
  <2>11. ASSUME NEW v \in Workers, Owner(v)' PROVE Placed(v)'
    <3>1. v = w
      BY <1>0, <1>2, <2>9, <2>11, OthersKept
    <3> QED BY <2>8, <2>9, <3>1 DEF Placed
  <2>12. Progress'
    <3>1. \A r \in policyRows' : r.claim.appr \in Approvals =>
                                   /\ appr'[r.claim.appr].status = "approved"
                                   /\ appr'[r.claim.appr].approved_next = "policy_agent"
      BY <1>2, <2>3, <2>5 DEF IInv, SafeInv, Progress
    <3>2. PolicyOnce'
      BY <1>2 DEF IInv, SafeInv, Progress, PolicyOnce
    <3> QED BY <2>8, <2>11, <3>1, <3>2 DEF Progress
  <2>13. Paid'
    <3>1. \A a \in Approvals :
            /\ appr'[a].stage = "triage" <=> appr'[a].approved_next = "policy_agent"
            /\ appr'[a].stage = "response" <=> appr'[a].approved_next = "end"
      BY <2>1, <2>3 DEF IInv, SafeInv, Paid, ApprovedNextAgent
    <3>2. \A a \in refunds' : a # 0 => RefundRoute(a)'
      <4>1. \A a \in refunds : a # 0 => a \in Approvals /\ a # n
        BY <1>0, <2>3, BoundsAssumption
        DEF IInv, SafeInv, Paid, RefundRoute, TypeInv, TypeOK, Approvals
      <4> QED BY <1>2, <2>6, <4>1 DEF IInv, SafeInv, Paid
    <3>3. \A a \in Finished' : RefundRoute(a)' => a \in refunds'
      <4>1. Finished \subseteq Approvals
        BY DEF Finished
      <4> QED BY <1>2, <2>3, <2>6, <2>7, <4>1 DEF IInv, SafeInv, Paid
    <3>4. refunds' # {} => \A a \in Pending' : appr'[a].stage = "response"
      BY <1>2, <2>1, <2>3
    <3>5. (refunds' # {} /\ claim' # NoClaim) =>
            claim'.appr \in refunds' \/ appr'[claim'.appr].stage = "response"
      BY <1>2, <2>3, <2>4 DEF IInv, SafeInv, Paid
    <3>6. \A a, b \in refunds' : a = b
      BY <1>2 DEF IInv, SafeInv, Paid
    <3> QED BY <3>1, <3>2, <3>3, <3>4, <3>5, <3>6 DEF Paid
  <2> QED BY <2>3, <2>10, <2>12, <2>13 DEF SafeInv
<1> QED BY <1>3, <1>4 DEF EnsureHumanApproval

\* The three callers: the marker they bind the review to belongs to the claimed review,
\* and a Policy review is only ever asked for before any money moved.
LEMMA EnsureReviewSafe ==
  ASSUME IInv, NEW w \in Workers,
         EnsurePolicyReview(w) \/ EnsureResponseReview(w) \/ EnsureRecoveredReview(w)
  PROVE  SafeInv'
<1>0. TypeInv /\ Holders /\ Paid /\ req[w] \in Requests
  BY DEF IInv, SafeInv, TypeInv, TypeOK
<1>1. /\ req[w].pc \in {"policy_review", "response_review", "recover_review"}
      /\ req[w].pc \in LatePcs /\ Owner(w)
  BY DEF EnsurePolicyReview, EnsureResponseReview, EnsureRecoveredReview, AtStage, Owner, Held,
         LatePcs
<1>2. /\ req[w].claim = claim /\ claim \in Claims /\ claim # NoClaim /\ claim.appr \in Approvals
      /\ claim.appr \in Resolved /\ claim.appr \notin Finished /\ claim.seq <= claim.seq
  BY <1>0, <1>1, OwnerFacts DEF Claims
<1>3. CASE EnsurePolicyReview(w)
  <2>1. refunds = {}
    <3>1. PICK r \in OwnRows(policyRows, claim.appr) : r.route = "human_approval"
      BY <1>1, <1>3 DEF IInv, SafeInv, Progress, Placed, EnsurePolicyReview, AtStage
    <3>2. r \in policyRows /\ r.claim.appr = claim.appr
      BY <3>1 DEF OwnRows
    <3>3. /\ appr[claim.appr].status = "approved"
          /\ appr[claim.appr].approved_next = "policy_agent"
      BY <1>2, <3>2 DEF IInv, SafeInv, Progress
    <3>4. ~RefundRoute(claim.appr)
      BY <3>1, <3>2, <3>3 DEF IInv, SafeInv, Progress, PolicyOnce, RefundRoute
    <3>5. claim.appr # 0
      BY <1>2, BoundsAssumption DEF Approvals
    <3>6. claim.appr \notin refunds /\ appr[claim.appr].stage # "response"
      BY <1>0, <1>2, <3>3, <3>4, <3>5 DEF Paid
    <3> QED BY <1>0, <1>2, <3>6 DEF Paid
  <2> QED BY <1>1, <1>2, <1>3, <2>1, EnsureSafe DEF EnsurePolicyReview
<1>4. CASE EnsureResponseReview(w)
  BY <1>1, <1>2, <1>4, EnsureSafe DEF EnsureResponseReview
<1>5. CASE EnsureRecoveredReview(w)
  <2> DEFINE m == IF req[w].marker = NoClaim THEN claim ELSE req[w].marker
  <2>1. m \in Claims /\ m # NoClaim /\ m.appr = claim.appr /\ m.seq <= claim.seq
    BY <1>0, <1>1, <1>2 DEF Holders, Owner, Requests
  <2>2. EnsureHumanApproval(w, "response", m, "recover_mark")
    BY <1>5 DEF EnsureRecoveredReview
  <2> HIDE DEF m
  <2> QED BY <1>1, <2>1, <2>2, EnsureSafe
<1> QED BY <1>3, <1>4, <1>5

------------------------------------------------------------------------------------
(* Safety: the refund and the terminal marker.                                      *)

\* Routes keep Refund away from a review of Response.
LEMMA RouteNotResponse ==
  ASSUME IInv, NEW a \in Approvals, RefundRoute(a)
  PROVE  appr[a].stage # "response"
<1>1. CASE appr[a].approved_next = "refund_agent"
  BY <1>1 DEF IInv, SafeInv, Paid
<1>2. CASE \E r \in policyRows : r.claim.appr = a /\ r.route = "refund_agent"
  BY <1>2 DEF IInv, SafeInv, Progress, Paid
<1> QED BY <1>1, <1>2 DEF RefundRoute

LEMMA PersistRefundSafe ==
  ASSUME IInv, NEW w \in Workers, PersistRefund(w)
  PROVE  SafeInv'
<1>0. req[w] \in Requests /\ req \in [Workers -> Requests] /\ TypeInv /\ Holders
  BY DEF IInv, SafeInv, TypeInv, TypeOK
<1>1. Owner(w) /\ req[w].pc = "refund"
  BY DEF PersistRefund, AtStage, Owner, Held
<1>2. /\ claim # NoClaim /\ claim.appr \in Approvals /\ claim.appr \notin Finished
  BY <1>0, <1>1, OwnerFacts
<1>3. RefundOwed /\ ~PolicyOwed
  BY <1>1 DEF IInv, SafeInv, Progress, Placed
<1>4. refunds = {} /\ Pending = {} /\ RefundRoute(claim.appr)
  BY <1>2, <1>3, RouteNotResponse DEF RefundOwed, IInv, SafeInv, Paid, Progress
<1>5. /\ UNCHANGED <<nAppr, appr, claim, revoked, done, policyRows, responseRows, blocks>>
      /\ refunds' = {claim.appr} /\ wf'.status = "running"
  BY <1>4 DEF PersistRefund
<1>6. /\ req'[w].pc = "enter_response"
      /\ req'[w].claim = req[w].claim /\ req'[w].marker = req[w].marker
      /\ \A v \in Workers : v # w => req'[v] = req[v]
  BY <1>0 DEF PersistRefund, Goto, Requests
<1>7. Lineage'
  BY <1>2, <1>5, LineageKept
<1>8. Resolved' = Resolved /\ Finished' = Finished /\ Pending' = Pending
  BY <1>5 DEF Resolved, Finished, Pending
<1>9. Holders'
  <2>1. \A v \in Workers : Held(v)' => /\ Held(v)
                                       /\ req'[v].claim = req[v].claim
                                       /\ req'[v].marker = req[v].marker
    BY <1>1, <1>6 DEF Held, Owner
  <2> QED BY <1>5, <1>8, <2>1, HoldersKept
<1>10. ~PolicyOwed' /\ ~RefundOwed'
  <2>1. OwnRows(policyRows, claim.appr)' = OwnRows(policyRows, claim.appr)
    BY <1>5 DEF OwnRows
  <2>2. ~PolicyOwed'
    BY <1>3, <1>5, <1>8, <2>1 DEF PolicyOwed
  <2>3. ~RefundOwed'
    BY <1>5 DEF RefundOwed
  <2> QED BY <2>2, <2>3
<1>11. ASSUME NEW v \in Workers, Owner(v)' PROVE Placed(v)'
  <2>1. v = w
    BY <1>0, <1>1, <1>5, <1>6, <1>11, OthersKept
  <2> QED BY <1>6, <1>10, <2>1 DEF Placed
<1>12. Progress'
  <2>1. PolicyOnce'
    BY <1>5 DEF IInv, SafeInv, Progress, PolicyOnce
  <2> QED BY <1>5, <1>10, <1>11, <2>1 DEF IInv, SafeInv, Progress
<1>13. Paid'
  <2>1. \A a : RefundRoute(a)' <=> RefundRoute(a)
    BY <1>5 DEF RefundRoute
  <2>2. \A a \in Finished' : RefundRoute(a)' => a \in refunds'
    BY <1>4, <1>8, <2>1 DEF IInv, SafeInv, Paid
  <2> QED BY <1>4, <1>5, <1>8, <2>1, <2>2 DEF IInv, SafeInv, Paid
<1> QED BY <1>7, <1>9, <1>12, <1>13 DEF SafeInv

LEMMA MarkContinuationSafe ==
  ASSUME IInv, NEW w \in Workers, MarkContinuation(w)
  PROVE  SafeInv'
<1>0. req[w] \in Requests /\ req \in [Workers -> Requests] /\ TypeInv /\ Holders
      /\ done \in [Approvals -> Records]
  BY DEF IInv, SafeInv, TypeInv, TypeOK
<1>1. Owner(w) /\ req[w].pc \in {"mark", "recover_mark"}
  BY DEF MarkContinuation, Owner, Held
<1>2. /\ claim # NoClaim /\ claim.appr \in Approvals /\ claim.appr \notin Finished
      /\ claim.appr \in Resolved
  BY <1>0, <1>1, OwnerFacts
<1>3. ~RefundOwed
  BY <1>1, NothingOwed DEF LatePcs
<1>4. /\ UNCHANGED <<nAppr, appr, claim, revoked, policyRows, responseRows, blocks, refunds>>
      /\ wf' = TerminalWorkflowState(req[w].status)
      /\ Pending = IF req[w].status = "pending_human" THEN {req[w].child} ELSE {}
  BY DEF MarkContinuation, MarkAdmitted
<1> DEFINE rec == [status |-> req[w].status, child |-> req[w].child, claim |-> claim]
<1>5. /\ done' = [done EXCEPT ![claim.appr] = rec] /\ rec.claim = claim
      /\ rec.status = req[w].status /\ rec.child = req[w].child
      /\ done'[claim.appr] = rec
  BY <1>0, <1>2 DEF MarkContinuation
<1>6. rec # NoRecord
  BY <1>0 DEF Requests, TerminalStatuses, NoRecord
<1> HIDE DEF rec
<1>7. /\ Finished' = Finished \cup {claim.appr}
      /\ Resolved' = Resolved /\ Pending' = Pending
  BY <1>0, <1>2, <1>4, <1>5, <1>6 DEF Finished, Resolved, Pending
<1>8. Lineage'
  <2>1. TerminalAgreement'
    BY <1>4, <1>5, <1>7 DEF TerminalAgreement
  <2>2. done'[claim'.appr].claim = claim'
    BY <1>4, <1>5
  <2> QED BY <1>2, <1>4, <1>7, <2>1, <2>2 DEF IInv, SafeInv, Lineage
<1>9. /\ req'[w].pc = "idle" /\ \A v \in Workers : v # w => req'[v] = req[v]
  BY <1>0 DEF MarkContinuation, Idle
<1>10. Holders'
  <2>1. \A v \in Workers : Held(v)' => /\ Held(v)
                                       /\ req'[v].claim = req[v].claim
                                       /\ req'[v].marker = req[v].marker
    BY <1>9 DEF Held
  <2> QED BY <1>4, <1>7, <2>1, HoldersKept
<1>11. Progress'
  <2>1. ~PolicyOwed' /\ ~RefundOwed'
    BY <1>4, <1>7 DEF PolicyOwed, RefundOwed
  <2>2. ASSUME NEW v \in Workers, Owner(v)' PROVE FALSE
    <3>1. v # w
      BY <1>9, <2>2 DEF Owner, Held
    <3> QED BY <1>0, <1>1, <1>4, <1>9, <2>2, <3>1, OthersKept
  <2>3. PolicyOnce'
    BY <1>4 DEF IInv, SafeInv, Progress, PolicyOnce
  <2> QED BY <1>4, <2>1, <2>2, <2>3 DEF IInv, SafeInv, Progress
<1>12. Paid'
  <2>1. \A a : RefundRoute(a)' <=> RefundRoute(a)
    BY <1>4 DEF RefundRoute
  <2>2. \A a \in Finished' : RefundRoute(a)' => a \in refunds'
    BY <1>2, <1>3, <1>4, <1>7, <2>1 DEF IInv, SafeInv, Paid, RefundOwed
  <2> QED BY <1>4, <1>7, <2>1, <2>2 DEF IInv, SafeInv, Paid
<1> QED BY <1>8, <1>10, <1>11, <1>12 DEF SafeInv

------------------------------------------------------------------------------------
(* Safety: the Policy stage, which decides what is owed next.                        *)

LEMMA PersistPolicySafe ==
  ASSUME IInv, NEW w \in Workers, NEW d \in PolicyDecisions, NEW b \in BOOLEAN,
         PersistPolicy(w, d, b)
  PROVE  SafeInv'
<1>0. req[w] \in Requests /\ req \in [Workers -> Requests] /\ TypeInv /\ Holders
      /\ appr \in [Approvals -> ApprovalRows]
  BY DEF IInv, SafeInv, TypeInv, TypeOK
<1>1. Owner(w) /\ req[w].pc = "policy"
  BY DEF PersistPolicy, AtStage, Owner, Held
<1>2. /\ claim # NoClaim /\ claim.appr \in Approvals /\ claim.appr \notin Finished
      /\ claim.appr \in Resolved /\ claim \in Claims /\ claim.appr # 0
  BY <1>0, <1>1, OwnerFacts, BoundsAssumption DEF Approvals
<1>3. PolicyOwed /\ ~req[w].refunded
  BY <1>1 DEF IInv, SafeInv, Progress, Placed
<1>4. /\ Pending = {} /\ PendingPolicyApprovals = {}
      /\ OwnRows(policyRows, claim.appr) = {}
      /\ appr[claim.appr].status = "approved"
      /\ appr[claim.appr].approved_next = "policy_agent"
  BY <1>3 DEF IInv, SafeInv, Progress, PolicyOwed, PendingPolicyApprovals
<1>5. ~RefundRoute(claim.appr) /\ refunds = {}
  <2>1. ~RefundRoute(claim.appr)
    BY <1>4 DEF RefundRoute, OwnRows
  <2>2. appr[claim.appr].stage # "response"
    BY <1>2, <1>4 DEF IInv, SafeInv, Paid
  <2> QED BY <1>2, <2>1, <2>2 DEF IInv, SafeInv, Paid
<1> DEFINE handoff(r) == [claim |-> claim, decision |-> d, route |-> r]
<1>6. PICK route \in PolicyRoutes :
        /\ PersistPolicyApproval(d, route, claim)
        /\ policyRows' = policyRows \cup {handoff(route)}
        /\ wf' = PolicyWorkflowState(route)
        /\ req'[w].pc = EntryOf(route, req[w].refunded)
        /\ req'[w].refunded = req[w].refunded
        /\ req'[w].claim = req[w].claim /\ req'[w].marker = req[w].marker
  <2>1. PolicyNextAgent(d, b) \in PolicyRoutes
    BY RoutingTypes
  <2>2. PersistPolicyApproval(d, PolicyNextAgent(d, b), claim)
    BY DEF PersistPolicy
  <2> DEFINE route == PolicyNextAgent(d, b)
             status == IF route = "human_approval" THEN "pending_human"
                       ELSE ResponseStatus(appr[claim.appr], route, d)
             pc == EntryOf(route, req[w].refunded)
  <2>3. req' = [req EXCEPT ![w].pc = pc, ![w].status = status]
        /\ policyRows' = policyRows \cup {handoff(route)}
        /\ wf' = PolicyWorkflowState(route)
    BY DEF PersistPolicy
  <2> HIDE DEF status, route, pc, handoff
  <2>4. /\ req'[w].pc = pc /\ req'[w].refunded = req[w].refunded
        /\ req'[w].claim = req[w].claim /\ req'[w].marker = req[w].marker
    BY <1>0, <2>3 DEF Requests
  <2> QED BY <2>1, <2>2, <2>3, <2>4 DEF route, pc
<1> DEFINE h == handoff(route)
<1>7. h.claim = claim /\ h.route = route /\ policyRows' = policyRows \cup {h}
  BY <1>6
<1> HIDE DEF h, handoff
<1>8. /\ UNCHANGED <<claim, revoked, done, responseRows, refunds>>
      /\ \A v \in Workers : v # w => req'[v] = req[v]
  BY <1>0 DEF PersistPolicy
<1>9. /\ h \in OwnRows(policyRows, claim.appr)' /\ Finished' = Finished
  BY <1>7, <1>8 DEF OwnRows, Finished
\* What the review table looks like afterwards, on either route.
<1>10. /\ \/ route # "human_approval" /\ appr' = appr /\ nAppr' = nAppr /\ Pending' = {}
          \/ route = "human_approval"
       /\ Lineage' /\ Resolved' = Resolved
       /\ appr'[claim.appr] = appr[claim.appr]
       /\ \A a \in Resolved : appr'[a] = appr[a]
       /\ \A a \in Approvals :
            /\ appr'[a].stage = "triage" <=> appr'[a].approved_next = "policy_agent"
            /\ appr'[a].stage = "response" <=> appr'[a].approved_next = "end"
  <2>1. CASE route # "human_approval"
    <3>1. appr' = [a \in Approvals |-> IF a \in PendingPolicyApprovals
                                       THEN [appr[a] EXCEPT !.status = "deleted"]
                                       ELSE appr[a]]
          /\ nAppr' = nAppr
      BY <1>6, <2>1 DEF PersistPolicyApproval
    <3>2. appr' = appr
      BY <1>0, <1>4, <3>1
    <3>3. Lineage'
      BY <1>2, <1>8, <3>1, <3>2, LineageKept
    <3>4. Pending' = {} /\ Resolved' = Resolved
      BY <1>4, <3>2 DEF Pending, Resolved
    <3> QED BY <2>1, <3>1, <3>2, <3>3, <3>4 DEF IInv, SafeInv, Paid
  <2>2. CASE route = "human_approval"
    <3> DEFINE row == PendingRow("policy", TRUE, d, claim)
    <3>1. nAppr < MaxApprovals /\ nAppr' = nAppr + 1 /\ appr' = [appr EXCEPT ![nAppr + 1] = row]
      BY <1>4, <1>6, <2>2 DEF PersistPolicyApproval, InsertReview
    <3>2. row.status = "pending" /\ row.trigger = claim /\ claim.seq <= claim.seq
          /\ row.stage = "policy" /\ row.approved_next \notin {"policy_agent", "end"}
      BY <1>2 DEF PendingRow, Claims, ApprovedNextAgent
    <3> HIDE DEF row
    <3>3. PICK n : n = nAppr + 1
      OBVIOUS
    <3>4. /\ n \in Approvals /\ claim.appr # n /\ appr[n].status = "absent" /\ appr'[n] = row
          /\ \A a \in Approvals : a # n => appr'[a] = appr[a]
          /\ Resolved' = Resolved /\ Lineage'
      BY <1>1, <1>2, <1>4, <1>8, <3>1, <3>2, <3>3, OpenedLineage
    <3>5. \A a \in Resolved : a \in Approvals /\ a # n
      BY <3>4 DEF Resolved
    <3> QED BY <1>2, <2>2, <3>2, <3>4, <3>5 DEF IInv, SafeInv, Paid
  <2> QED BY <2>1, <2>2
<1>11. Holders'
  <2>1. \A v \in Workers : Held(v)' => /\ Held(v)
                                       /\ req'[v].claim = req[v].claim
                                       /\ req'[v].marker = req[v].marker
    BY <1>1, <1>6, <1>8 DEF Held, Owner
  <2> QED BY <1>8, <1>10, <2>1, HoldersKept
<1>12. ~PolicyOwed' /\ (RefundOwed' <=> route = "refund_agent")
  <2>1. ~PolicyOwed'
    BY <1>9 DEF PolicyOwed
  <2>2. RefundRoute(claim.appr)' <=> route = "refund_agent"
    BY <1>4, <1>7, <1>8, <1>10 DEF RefundRoute, OwnRows
  <2>3. RefundOwed' <=> route = "refund_agent"
    BY <1>2, <1>5, <1>8, <1>9, <2>2 DEF RefundOwed
  <2> QED BY <2>1, <2>3
<1>13. Placed(w)'
  <2>1. /\ route = "refund_agent" => req'[w].pc = "enter_refund"
        /\ route = "response_agent" => req'[w].pc = "enter_response"
        /\ route = "human_approval" => req'[w].pc = "enter_policy_review"
        /\ route \in {"refund_agent", "response_agent", "human_approval"}
    BY <1>3, <1>6 DEF EntryOf, PolicyRoutes
  <2>2. route = "human_approval" =>
          \E r \in OwnRows(policyRows, claim.appr)' : r.route = "human_approval"
    BY <1>7, <1>9
  <2> QED BY <1>12, <2>1, <2>2 DEF Placed
<1>14. Progress'
  <2>1. ASSUME NEW v \in Workers, Owner(v)' PROVE Placed(v)'
    <3>1. v = w
      BY <1>0, <1>1, <1>8, <2>1, OthersKept
    <3> QED BY <1>13, <3>1
  <2>2. RefundOwed' => Pending' = {} /\ wf'.status \in {"running", "failed"}
    BY <1>6, <1>10, <1>12 DEF PolicyWorkflowState
  <2>3. \A r \in policyRows' : r.claim.appr \in Approvals =>
                                 /\ appr'[r.claim.appr].status = "approved"
                                 /\ appr'[r.claim.appr].approved_next = "policy_agent"
    BY <1>2, <1>4, <1>7, <1>10 DEF IInv, SafeInv, Progress, Resolved
  <2>4. PolicyOnce'
    BY <1>4, <1>7 DEF IInv, SafeInv, Progress, PolicyOnce, OwnRows
  <2> QED BY <1>12, <2>1, <2>2, <2>3, <2>4 DEF Progress
<1>15. Paid'
  <2>1. \A a \in Finished' : RefundRoute(a)' => a \in refunds'
    <3> SUFFICES ASSUME NEW a \in Finished, RefundRoute(a)' PROVE RefundRoute(a)
      BY <1>8, <1>9 DEF IInv, SafeInv, Paid
    <3>1. a # claim.appr /\ appr'[a] = appr[a]
      BY <1>2, <1>10 DEF IInv, SafeInv, Lineage
    <3> QED BY <1>7, <3>1 DEF RefundRoute
  <2> QED BY <1>5, <1>8, <1>10, <2>1 DEF Paid
<1> QED BY <1>10, <1>11, <1>14, <1>15 DEF SafeInv

------------------------------------------------------------------------------------
(* Safety: decisions and retries.                                                   *)

\* Where a started request stands, in the words of Placed.
LEMMA ContinuePlace ==
  ASSUME TypeInv, NEW row, NEW c, c.appr \in Approvals
  PROVE  /\ Continue(row, c).claim = c /\ Continue(row, c).marker = NoClaim
         /\ Continue(row, c).refunded <=> c.appr \in refunds
         /\ (NextAgent(row) = "policy_agent" /\ OwnRows(policyRows, c.appr) = {}) =>
              Continue(row, c).pc = "enter_policy"
         /\ (NextAgent(row) = "policy_agent" /\ OwnRows(policyRows, c.appr) # {}) =>
              \E r \in OwnRows(policyRows, c.appr) :
                Continue(row, c).pc = EntryOf(r.route, c.appr \in refunds)
         /\ NextAgent(row) # "policy_agent" =>
              Continue(row, c).pc = EntryOf(NextAgent(row), c.appr \in refunds)
<1>1. /\ Continue(row, c).claim = c /\ Continue(row, c).marker = NoClaim
      /\ Continue(row, c).refunded <=> c.appr \in refunds
  BY DEF Continue
<1>2. ASSUME NextAgent(row) = "policy_agent", OwnRows(policyRows, c.appr) = {}
      PROVE  Continue(row, c).pc = "enter_policy"
  BY <1>2 DEF Continue, EntryOf
<1>3. ASSUME NextAgent(row) = "policy_agent", OwnRows(policyRows, c.appr) # {}
      PROVE  \E r \in OwnRows(policyRows, c.appr) :
               Continue(row, c).pc = EntryOf(r.route, c.appr \in refunds)
  <2>1. Latest(OwnRows(policyRows, c.appr)) \in OwnRows(policyRows, c.appr)
    BY <1>3, LatestIsARow DEF TypeInv
  <2>2. Continue(row, c).pc =
          EntryOf(Latest(OwnRows(policyRows, c.appr)).route, c.appr \in refunds)
    BY <1>3 DEF Continue
  <2> QED BY <2>1, <2>2
<1>4. ASSUME NextAgent(row) # "policy_agent"
      PROVE  Continue(row, c).pc = EntryOf(NextAgent(row), c.appr \in refunds)
  BY <1>4 DEF Continue
<1> QED BY <1>1, <1>2, <1>3, <1>4

LEMMA RefundReviews ==
  ASSUME TypeInv
  PROVE  \A x \in refunds : x # 0 => x \in Approvals
<1>1. \A x \in 0..MaxApprovals : x # 0 => x \in Approvals
  BY BoundsAssumption DEF Approvals
<1> QED BY <1>1 DEF TypeInv, TypeOK

LEMMA DecideReviewSafe ==
  ASSUME IInv, NEW w \in Workers, NEW a \in Approvals, NEW d \in ReviewDecisions,
         DecideReview(w, a, d)
  PROVE  SafeInv'
<1>0. /\ req \in [Workers -> Requests] /\ TypeInv /\ Holders
      /\ appr \in [Approvals -> ApprovalRows] /\ nAppr \in 0..MaxApprovals /\ MaxApprovals \in Nat
  BY BoundsAssumption DEF IInv, SafeInv, TypeInv, TypeOK
<1> DEFINE new == [appr[a] EXCEPT !.status = ResolutionStatus(d), !.decision = d]
<1>1. /\ a \in Pending /\ ParentContinuationComplete(a) /\ AppendClaim(w, a)
      /\ appr' = [appr EXCEPT ![a] = new]
      /\ wf' = IF NextAgent(new) = "end" THEN TerminalWorkflowState("completed")
               ELSE [status |-> "running", agent |-> NextAgent(new)]
      /\ req' = [req EXCEPT ![w] = Continue(new, claim')]
      /\ UNCHANGED <<nAppr, revoked, done, policyRows, responseRows, blocks, refunds>>
  BY DEF DecideReview
<1>2. /\ new.status \in {"approved", "rejected"} /\ new.stage = appr[a].stage
      /\ new.approved_next = appr[a].approved_next /\ new.trigger = appr[a].trigger
      /\ new.approved_next \in ReviewNextAgents
  BY <1>0, RoutingTypes DEF ApprovalRows
<1> HIDE DEF new
<1>3. appr'[a] = new /\ \A x \in Approvals : x # a => appr'[x] = appr[x]
  BY <1>0, <1>1
<1>4. /\ claim' \in Claims /\ claim'.appr = a /\ claim'.seq = claim.seq + 1 /\ claim' # NoClaim
      /\ claim \in Claims
  BY <1>0, <1>1, NewClaim DEF TypeInv, TypeOK
<1>5. Pending' = {} /\ Resolved' = Resolved \cup {a} /\ Finished' = Finished
  <2>1. Pending = {a}
    BY <1>1 DEF IInv, SafeInv, Lineage
  <2>2. Pending' = {}
    BY <1>2, <1>3, <2>1 DEF Pending
  <2>3. Resolved' = Resolved \cup {a}
    BY <1>2, <1>3 DEF Resolved
  <2> QED BY <1>1, <2>2, <2>3 DEF Finished
\* The review before this one is history: its terminal marker admitted this one.
<1>6. claim # NoClaim => claim.appr \in Finished
  <2> SUFFICES ASSUME claim # NoClaim PROVE claim.appr \in Finished
    OBVIOUS
  <2>1. appr[a].trigger # NoClaim /\ appr[a].trigger.appr = claim.appr
    BY <1>1 DEF IInv, SafeInv, Lineage
  <2>2. done[claim.appr] # NoRecord /\ claim.appr \in Approvals
    BY <1>0, <1>1, <2>1 DEF ParentContinuationComplete, TypeInv, ClaimOK
  <2> QED BY <2>2 DEF Finished
<1>7. /\ a \notin Resolved /\ a \notin Finished /\ a \notin refunds /\ a # 0
      /\ \A r \in policyRows : r.claim.appr # a
  <2>1. appr[a].status = "pending" /\ a # 0
    BY <1>0, <1>1 DEF Pending, Approvals
  <2>2. a \notin Resolved /\ a \notin Finished
    BY <2>1 DEF Resolved, IInv, SafeInv, Lineage
  <2>3. a \notin refunds
    BY <2>1 DEF IInv, SafeInv, Paid, RefundRoute
  <2> QED BY <2>1, <2>2, <2>3 DEF IInv, SafeInv, Progress
<1>8. Lineage'
  <2>1. a <= nAppr
    BY <1>0, <1>1 DEF Pending, IInv, SafeInv, Lineage, Approvals
  <2>2. \A x \in Approvals : x > nAppr => appr'[x].status = "absent"
    BY <1>0, <1>3, <2>1 DEF IInv, SafeInv, Lineage, Approvals
  <2>3. \A x \in Resolved' : x \in Finished \/ x = a
    BY <1>5, <1>6 DEF IInv, SafeInv, Lineage
  <2>4. TerminalAgreement'
    BY <1>4, <1>5, <1>7 DEF TerminalAgreement
  <2> QED BY <1>1, <1>4, <1>5, <1>7, <2>1, <2>2, <2>3, <2>4 DEF IInv, SafeInv, Lineage
<1>9. /\ req'[w] = Continue(new, claim') /\ \A v \in Workers : v # w => req'[v] = req[v]
      /\ req'[w].claim = claim' /\ req'[w].marker = NoClaim
      /\ req'[w].refunded <=> a \in refunds
  BY <1>0, <1>1, <1>4, ContinuePlace
<1>10. \A v \in Workers : (v # w /\ Held(v)) =>
         req[v].claim.appr \in Resolved /\ req[v].claim.appr # a /\ req[v].claim.seq < claim'.seq
  BY <1>0, <1>4, <1>7 DEF Holders, Claims, TypeInv, TypeOK, Requests
<1>11. Holders'
  <2>1. \A v \in Workers : Held(v)' => v = w \/ (v # w /\ Held(v))
    BY <1>9 DEF Held
  <2>2. ASSUME NEW v \in Workers, Held(v)'
        PROVE  /\ claim' # NoClaim
               /\ req'[v].claim.appr \in Resolved'
               /\ \/ req'[v].claim = claim'
                  \/ /\ req'[v].claim.seq < claim'.seq
                     /\ req'[v].claim.appr = claim'.appr =>
                          req'[v].claim.attempt < claim'.attempt
               /\ req'[v].marker # NoClaim =>
                    /\ req'[v].marker.appr = req'[v].claim.appr
                    /\ req'[v].marker.seq <= req'[v].claim.seq
    <3>1. CASE v = w
      BY <1>4, <1>5, <1>9, <3>1
    <3>2. CASE v # w
      BY <1>0, <1>4, <1>5, <1>9, <1>10, <2>1, <2>2, <3>2 DEF Holders
    <3> QED BY <3>1, <3>2
  <2>3. ASSUME NEW u \in Workers, NEW v \in Workers, Held(u)', Held(v)',
               req'[u].claim = req'[v].claim
        PROVE  u = v
    BY <1>0, <1>4, <1>9, <1>10, <2>1, <2>3 DEF Holders
  <2> QED BY <2>2, <2>3 DEF Holders
<1>12. /\ PolicyOwed' <=> (new.status = "approved" /\ new.approved_next = "policy_agent")
  <2>1. OwnRows(policyRows, claim.appr)' = {}
    BY <1>1, <1>4, <1>7 DEF OwnRows
  <2> QED BY <1>3, <1>4, <1>5, <1>7, <2>1 DEF PolicyOwed
<1>13. RefundOwed' <=> (new.status = "approved" /\ new.approved_next = "refund_agent")
  BY <1>1, <1>3, <1>4, <1>5, <1>7 DEF RefundOwed, RefundRoute
<1>14. Placed(w)'
  <2>1. NextAgent(new) =
          IF new.status = "approved" THEN new.approved_next ELSE "response_agent"
    BY DEF NextAgent, RejectedNextAgent
  <2>2. OwnRows(policyRows, claim'.appr) = {}
    BY <1>4, <1>7 DEF OwnRows
  <2>3. req'[w].pc = IF NextAgent(new) = "policy_agent" THEN "enter_policy"
                     ELSE EntryOf(NextAgent(new), FALSE)
    <3>1. (claim'.appr \in refunds) = FALSE
      BY <1>4, <1>7
    <3>2. /\ NextAgent(new) = "policy_agent" => Continue(new, claim').pc = "enter_policy"
          /\ NextAgent(new) # "policy_agent" =>
               Continue(new, claim').pc = EntryOf(NextAgent(new), claim'.appr \in refunds)
      BY <1>0, <1>4, <2>2, ContinuePlace
    <3>3. EntryOf(NextAgent(new), claim'.appr \in refunds) = EntryOf(NextAgent(new), FALSE)
      BY <3>1 DEF EntryOf
    <3> QED BY <1>9, <3>2, <3>3
  <2>4. /\ NextAgent(new) = "policy_agent" => req'[w].pc = "enter_policy"
        /\ NextAgent(new) = "refund_agent" => req'[w].pc = "enter_refund"
        /\ NextAgent(new) = "response_agent" => req'[w].pc = "enter_response"
        /\ NextAgent(new) = "end" => req'[w].pc = "mark"
        /\ NextAgent(new) \in {"policy_agent", "refund_agent", "response_agent", "end"}
    BY <1>2, <2>1, <2>3 DEF EntryOf, ReviewNextAgents
  <2> QED BY <1>7, <1>9, <1>12, <1>13, <2>1, <2>4 DEF Placed
<1>15. Progress'
  <2>1. ASSUME NEW v \in Workers, Owner(v)' PROVE Placed(v)'
    <3>1. Held(v)' /\ Token(req'[v].claim) = Token(claim')
      BY <2>1 DEF Owner, ActiveApprovalClaim, Token
    <3>2. req'[v].claim.appr = a
      BY <1>4, <3>1 DEF Token
    <3>3. v = w
      BY <1>9, <1>10, <3>1, <3>2 DEF Held
    <3> QED BY <1>14, <3>3
  <2>2. (PolicyOwed' \/ RefundOwed') => wf'.status \in {"running", "failed"}
    BY <1>1, <1>12, <1>13 DEF NextAgent
  <2>3. PolicyOnce'
    BY <1>1 DEF IInv, SafeInv, Progress, PolicyOnce
  <2> QED BY <1>1, <1>3, <1>5, <1>7, <2>1, <2>2, <2>3 DEF IInv, SafeInv, Progress
<1>16. Paid'
  <2>1. \A x \in Approvals : x # a => (RefundRoute(x)' <=> RefundRoute(x))
    BY <1>1, <1>3 DEF RefundRoute
  <2>2. Finished \subseteq Approvals /\ \A x \in refunds : x # 0 => x \in Approvals
    BY <1>0, RefundReviews DEF Finished
  <2>3. \A x \in Approvals :
          /\ appr'[x].stage = "triage" <=> appr'[x].approved_next = "policy_agent"
          /\ appr'[x].stage = "response" <=> appr'[x].approved_next = "end"
    BY <1>2, <1>3 DEF IInv, SafeInv, Paid
  <2>4. refunds # {} => appr'[a].stage = "response"
    BY <1>1, <1>2, <1>3 DEF IInv, SafeInv, Paid
  <2> QED BY <1>1, <1>4, <1>5, <1>7, <2>1, <2>2, <2>3, <2>4 DEF IInv, SafeInv, Paid
<1> QED BY <1>8, <1>11, <1>15, <1>16 DEF SafeInv

\* A retry takes over the claim of the review it retries and stands where the rows say.
LEMMA RetryContinuationSafe ==
  ASSUME IInv, NEW w \in Workers, NEW a \in Approvals, RetryContinuation(w, a)
  PROVE  SafeInv'
<1>0. req \in [Workers -> Requests] /\ TypeInv /\ Holders /\ claim \in Claims
  BY DEF IInv, SafeInv, TypeInv, TypeOK
<1>1. /\ a \in Resolved /\ a \notin Finished /\ AppendClaim(w, a)
      /\ req' = [req EXCEPT ![w] = IF wf.status \in TerminalStatuses THEN Recovery(claim')
                                   ELSE Continue(appr[a], claim')]
      /\ UNCHANGED <<wf, nAppr, appr, revoked, done, policyRows, responseRows, blocks, refunds>>
  BY DEF RetryContinuation
<1>2. claim # NoClaim /\ claim.appr = a
  BY <1>1 DEF IInv, SafeInv, Lineage
<1>3. /\ claim' \in Claims /\ claim'.appr = a /\ claim'.seq = claim.seq + 1 /\ claim' # NoClaim
      /\ claim'.attempt = claim.attempt + 1 /\ claim.seq \in Nat /\ claim.attempt \in Nat
  <2>1. claim' = NextClaim(a) /\ claim' \in Claims /\ claim'.appr = a /\ claim' # NoClaim
    BY <1>0, <1>1, NewClaim
  <2>2. claim.seq \in Nat /\ claim.attempt \in Nat
    BY <1>0 DEF Claims
  <2> QED BY <1>0, <1>2, <2>1, <2>2 DEF NextClaim
<1>4. /\ Pending' = Pending /\ Resolved' = Resolved /\ Finished' = Finished
      /\ \A x \in Approvals : RefundRoute(x)' = RefundRoute(x)
      /\ PolicyOwed' = PolicyOwed /\ RefundOwed' = RefundOwed
  <2>1. Pending' = Pending /\ Resolved' = Resolved /\ Finished' = Finished
    BY <1>1 DEF Pending, Resolved, Finished
  <2>2. \A x \in Approvals : RefundRoute(x)' = RefundRoute(x)
    BY <1>1 DEF RefundRoute
  <2>3. OwnRows(policyRows, claim.appr)' = OwnRows(policyRows, claim.appr)
    BY <1>1, <1>2, <1>3 DEF OwnRows
  <2>4. PolicyOwed' = PolicyOwed
    BY <1>1, <1>2, <1>3, <2>1, <2>3 DEF PolicyOwed
  <2>5. RefundOwed' = RefundOwed
    BY <1>1, <1>2, <1>3, <2>1 DEF RefundOwed, RefundRoute
  <2> QED BY <2>1, <2>2, <2>4, <2>5
<1>5. Lineage'
  <2>1. \A x \in Pending : appr[x].trigger \in Claims
    BY <1>0 DEF Pending, TypeInv, TypeOK, ApprovalRows
  <2>2. \A x \in Pending : appr[x].trigger.seq <= claim'.seq
    BY <1>2, <1>3, <2>1 DEF IInv, SafeInv, Lineage, Claims
  <2>3. TerminalAgreement'
    BY <1>1, <1>3, <1>4 DEF TerminalAgreement
  <2> QED BY <1>1, <1>2, <1>3, <1>4, <2>2, <2>3 DEF IInv, SafeInv, Lineage
<1>6. Paid'
  <2>1. Finished \subseteq Approvals /\ \A x \in refunds : x # 0 => x \in Approvals
    BY <1>0, RefundReviews DEF Finished
  <2> QED BY <1>1, <1>2, <1>3, <1>4, <2>1 DEF IInv, SafeInv, Paid
<1>7. /\ req'[w].claim = claim'
      /\ \A v \in Workers : v # w => req'[v] = req[v]
      /\ req'[w].marker # NoClaim => req'[w].marker.appr = a /\ req'[w].marker.seq <= claim'.seq
  <2>1. req'[w] = IF wf.status \in TerminalStatuses THEN Recovery(claim')
                  ELSE Continue(appr[a], claim')
    BY <1>0, <1>1
  <2>2. CASE wf.status \in TerminalStatuses
    <3>1. Recovery(claim').claim = claim'
      BY DEF Recovery
    <3>2. Recovery(claim').marker =
            IF OwnRows(responseRows, a) # {} /\ Latest(OwnRows(responseRows, a)).blocked
              THEN Latest(OwnRows(responseRows, a)).claim ELSE NoClaim
      BY <1>3 DEF Recovery
    <3>3. OwnRows(responseRows, a) # {} =>
            /\ Latest(OwnRows(responseRows, a)) \in responseRows
            /\ Latest(OwnRows(responseRows, a)).claim.appr = a
      BY <1>0, LatestIsARow DEF TypeInv, OwnRows
    <3>4. \A r \in responseRows : r.claim.seq <= claim'.seq
      <4>1. \A r \in responseRows : r.claim.seq \in Nat /\ r.claim.seq <= claim.seq
        BY <1>0 DEF TypeInv, TypeOK, RowsOrdered, Claims
      <4> QED BY <1>3, <4>1
    <3> QED BY <1>0, <1>1, <2>1, <2>2, <3>1, <3>2, <3>3, <3>4
  <2>3. CASE wf.status \notin TerminalStatuses
    <3>1. Continue(appr[a], claim').claim = claim' /\ Continue(appr[a], claim').marker = NoClaim
      BY <1>0, <1>3, ContinuePlace
    <3> QED BY <1>0, <1>1, <2>1, <2>3, <3>1
  <2> QED BY <2>2, <2>3
<1>8. Holders'
  <2>1. \A v \in Workers : Held(v)' => v = w \/ (v # w /\ Held(v))
    BY <1>7 DEF Held
  <2>2. \A v \in Workers : Held(v) =>
          /\ req[v].claim \in Claims /\ req[v].claim.appr \in Resolved
          /\ req[v].claim.seq < claim'.seq
          /\ req[v].claim.appr = a => req[v].claim.attempt < claim'.attempt
    BY <1>0, <1>2, <1>3 DEF Holders, TypeInv, TypeOK, Requests, Claims
  <2>3. ASSUME NEW v \in Workers, Held(v)'
        PROVE  /\ claim' # NoClaim
               /\ req'[v].claim.appr \in Resolved'
               /\ \/ req'[v].claim = claim'
                  \/ /\ req'[v].claim.seq < claim'.seq
                     /\ req'[v].claim.appr = claim'.appr =>
                          req'[v].claim.attempt < claim'.attempt
               /\ req'[v].marker # NoClaim =>
                    /\ req'[v].marker.appr = req'[v].claim.appr
                    /\ req'[v].marker.seq <= req'[v].claim.seq
    <3>1. CASE v = w
      BY <1>1, <1>3, <1>4, <1>7, <3>1
    <3>2. CASE v # w
      BY <1>0, <1>3, <1>4, <1>7, <2>1, <2>2, <2>3, <3>2 DEF Holders
    <3> QED BY <3>1, <3>2
  <2>4. ASSUME NEW u \in Workers, NEW v \in Workers, Held(u)', Held(v)',
               req'[u].claim = req'[v].claim
        PROVE  u = v
    <3>1. \A x \in Workers : (x # w /\ Held(x)) => req[x].claim # claim'
      BY <1>3, <2>2 DEF Claims
    <3> QED BY <1>0, <1>7, <2>1, <2>4, <3>1 DEF Holders
  <2> QED BY <2>3, <2>4 DEF Holders

<1>9. Placed(w)'
  <2>1. CASE wf.status \in TerminalStatuses
    <3>1. req'[w].pc \in {"enter_recover_review", "recover_mark"}
      BY <1>0, <1>1, <2>1 DEF Recovery
    <3>2. ~PolicyOwed' /\ ~RefundOwed'
      BY <1>4, <2>1 DEF IInv, SafeInv, Progress, TerminalStatuses
    <3> QED BY <3>1, <3>2 DEF Placed
  <2>2. CASE wf.status \notin TerminalStatuses
    <3> DEFINE row == appr[a]
               pc == Continue(row, claim').pc
    <3>1. req'[w].pc = pc /\ (req'[w].refunded <=> a \in refunds)
      BY <1>0, <1>1, <1>3, <2>2, ContinuePlace
    <3>2. /\ row.status \in {"approved", "rejected"}
          /\ row.approved_next \in ReviewNextAgents
          /\ NextAgent(row) = IF row.status = "approved" THEN row.approved_next
                              ELSE "response_agent"
      BY <1>0, <1>1 DEF Resolved, NextAgent, RejectedNextAgent, TypeInv, TypeOK, ApprovalRows
    <3>3. /\ PolicyOwed' <=> /\ row.status = "approved" /\ row.approved_next = "policy_agent"
                             /\ OwnRows(policyRows, a) = {}
          /\ RefundOwed' <=> RefundRoute(a) /\ a \notin refunds
      BY <1>1, <1>2, <1>4 DEF PolicyOwed, RefundOwed
    <3>4. a \in Approvals /\ a # 0
      BY DEF Approvals
    <3>5. \A r \in policyRows : r.claim.appr = a =>
            row.status = "approved" /\ row.approved_next = "policy_agent"
      BY DEF IInv, SafeInv, Progress
    <3>6. OwnRows(policyRows, a)' = OwnRows(policyRows, a)
      BY <1>1 DEF OwnRows
    <3>7. CASE NextAgent(row) = "policy_agent" /\ OwnRows(policyRows, a) = {}
      <4>1. pc = "enter_policy"
        BY <1>0, <1>3, <3>7, ContinuePlace
      <4>2. PolicyOwed' /\ ~RefundRoute(a)
        BY <3>2, <3>3, <3>7 DEF RefundRoute, OwnRows
      <4>3. a \notin refunds
        BY <3>4, <4>2 DEF IInv, SafeInv, Paid
      <4> QED BY <3>1, <3>3, <4>1, <4>2, <4>3 DEF Placed
    <3>8. CASE NextAgent(row) = "policy_agent" /\ OwnRows(policyRows, a) # {}
      <4>1. PICK r \in OwnRows(policyRows, a) : pc = EntryOf(r.route, a \in refunds)
        <5>1. \E r \in OwnRows(policyRows, claim'.appr) :
                pc = EntryOf(r.route, claim'.appr \in refunds)
          BY <1>0, <1>3, <3>8, ContinuePlace
        <5> QED BY <1>3, <5>1
      <4>2. /\ r \in policyRows /\ r.claim.appr = a /\ r.route \in PolicyRoutes
            /\ \A s \in policyRows : s.claim.appr = a => s = r
        BY <1>0, <4>1 DEF OwnRows, TypeInv, TypeOK, IInv, SafeInv, Progress, PolicyOnce
      <4>3. RefundRoute(a) <=> r.route = "refund_agent"
        BY <3>2, <3>5, <3>8, <4>2 DEF RefundRoute
      <4>4. /\ r.route = "human_approval" => pc = "enter_policy_review"
            /\ (r.route = "refund_agent" /\ a \in refunds) => pc = "enter_response"
            /\ (r.route = "refund_agent" /\ a \notin refunds) => pc = "enter_refund"
            /\ r.route = "response_agent" => pc = "enter_response"
        BY <4>1 DEF EntryOf
      <4>5. r.route \in {"human_approval", "refund_agent", "response_agent"}
        BY <4>2 DEF PolicyRoutes
      <4>6. r \in OwnRows(policyRows, claim.appr)'
        BY <1>1, <1>3, <4>1 DEF OwnRows
      <4> QED BY <3>1, <3>3, <3>8, <4>3, <4>4, <4>5, <4>6 DEF Placed
    <3>9. CASE NextAgent(row) # "policy_agent"
      <4>1. pc = EntryOf(NextAgent(row), a \in refunds)
        <5>1. pc = EntryOf(NextAgent(row), claim'.appr \in refunds)
          BY <1>0, <1>3, <3>9, ContinuePlace
        <5> QED BY <1>3, <5>1
      <4>2. ~PolicyOwed'
        BY <3>2, <3>3, <3>9
      <4>3. RefundOwed' <=> NextAgent(row) = "refund_agent" /\ a \notin refunds
        BY <3>2, <3>3, <3>5, <3>9 DEF RefundRoute
      <4>4. /\ (NextAgent(row) = "refund_agent" /\ a \in refunds) => pc = "enter_response"
            /\ (NextAgent(row) = "refund_agent" /\ a \notin refunds) => pc = "enter_refund"
            /\ NextAgent(row) = "response_agent" => pc = "enter_response"
            /\ NextAgent(row) = "end" => pc = "mark"
        BY <4>1 DEF EntryOf
      <4>5. NextAgent(row) \in {"refund_agent", "response_agent", "end"}
        BY <3>2, <3>9 DEF ReviewNextAgents
      <4> QED BY <3>1, <4>2, <4>3, <4>4, <4>5 DEF Placed
    <3> QED BY <3>7, <3>8, <3>9
  <2> QED BY <2>1, <2>2
<1>10. Progress'
  <2>1. ASSUME NEW v \in Workers, Owner(v)' PROVE Placed(v)'
    <3>1. Held(v)' /\ Token(req'[v].claim) = Token(claim')
      BY <2>1 DEF Owner, ActiveApprovalClaim, Token
    <3>2. req'[v].claim.appr = a /\ req'[v].claim.attempt = claim'.attempt
      BY <1>3, <3>1 DEF Token
    <3>3. v = w
      <4> SUFFICES ASSUME v # w PROVE FALSE
        OBVIOUS
      <4>1. Held(v) /\ req'[v] = req[v] /\ req[v].claim \in Claims
        BY <1>0, <1>7, <3>1 DEF Held, TypeInv, TypeOK, Requests
      <4>2. req[v].claim.attempt <= claim.attempt /\ req[v].claim.attempt \in Nat
        BY <1>2, <1>3, <3>2, <4>1 DEF IInv, SafeInv, Holders, Claims
      <4> QED BY <1>3, <3>2, <4>1, <4>2
    <3> QED BY <1>9, <3>3
  <2>2. PolicyOnce'
    BY <1>1 DEF IInv, SafeInv, Progress, PolicyOnce
  <2> QED BY <1>1, <1>4, <2>1, <2>2 DEF IInv, SafeInv, Progress
<1> QED BY <1>5, <1>6, <1>8, <1>10 DEF SafeInv

------------------------------------------------------------------------------------
(* Safety: the induction.                                                           *)

LEMMA InitSafe == Init => SafeInv
<1> SUFFICES ASSUME Init PROVE SafeInv
  OBVIOUS
<1>0. 1 \in Approvals
  BY BoundsAssumption DEF Approvals
<1>1. PICK row \in InitialReviews :
        /\ appr = [a \in Approvals |-> IF a = 1 THEN row ELSE AbsentRow]
        /\ refunds \in {{}} \cup (IF row.stage = "response" THEN {{0}} ELSE {})
  BY DEF Init
<1>2. /\ claim = NoClaim /\ nAppr = 1 /\ done = [a \in Approvals |-> NoRecord]
      /\ policyRows = {} /\ req = [w \in Workers |-> Idle]
  BY DEF Init
<1>3. /\ row.status = "pending" /\ row.trigger = NoClaim
      /\ row.stage = "triage" <=> row.approved_next = "policy_agent"
      /\ row.stage = "response" <=> row.approved_next = "end"
  BY DEF InitialReviews, PendingRow, ApprovedNextAgent, PolicyDecisions
<1>4. /\ AbsentRow.status = "absent" /\ AbsentRow.stage = "triage"
      /\ AbsentRow.approved_next = "policy_agent"
  BY DEF AbsentRow
<1>5. Pending = {1} /\ Resolved = {} /\ Finished = {}
  <2>1. \A a \in Approvals : appr[a] = IF a = 1 THEN row ELSE AbsentRow
    BY <1>1
  <2> QED BY <1>0, <1>2, <1>3, <1>4, <2>1 DEF Pending, Resolved, Finished
<1>6. \A w \in Workers : ~Held(w)
  BY <1>2 DEF Held, Idle
<1>7. Lineage
  <2>1. TerminalAgreement
    BY <1>5 DEF TerminalAgreement
  <2> QED BY <1>0, <1>1, <1>2, <1>3, <1>4, <1>5, <2>1 DEF Lineage, Approvals
<1>8. Holders
  BY <1>6 DEF Holders
<1>9. Progress
  BY <1>2, <1>6 DEF Progress, PolicyOwed, RefundOwed, Owner, PolicyOnce
<1>10. Paid
  BY <1>0, <1>1, <1>2, <1>3, <1>4, <1>5 DEF Paid
<1> QED BY <1>7, <1>8, <1>9, <1>10 DEF SafeInv

LEMMA RunStageSafe ==
  ASSUME IInv, NEW w \in Workers, RunStage(w)
  PROVE  SafeInv'
BY EnterStepSafe, HeartbeatSafe, PersistPolicySafe, EnsureReviewSafe, PersistRefundSafe,
   SaveResponseGovernanceSafe, PersistResponseSafe, MarkContinuationSafe DEF RunStage

LEMMA FailSafe ==
  ASSUME IInv, NEW w \in Workers, Fail(w)
  PROVE  SafeInv'
<1>0. req \in [Workers -> Requests]
  BY DEF IInv, TypeInv, TypeOK
<1>1. CASE StepFails(w)
  <2>1. \A v \in Workers : \/ req'[v] = req[v]
                           \/ req'[v] = [req[v] EXCEPT !.pc = "failing"] /\ Held(v)
    BY <1>0, <1>1 DEF StepFails, Goto, Held, RunPcs, EnterPcs, StagePcs
  <2> QED BY <1>1, <2>1, MovedSafe DEF StepFails, dbVars
<1>2. CASE RecordFailure(w)
  BY <1>2, RecordFailureSafe
<1>3. CASE RequestEnds(w)
  <2>1. \A v \in Workers : req'[v] = req[v] \/ req'[v] = Idle
    BY <1>0, <1>3 DEF RequestEnds
  <2> QED BY <1>3, <2>1, MovedSafe DEF RequestEnds, dbVars
<1> QED BY <1>1, <1>2, <1>3 DEF Fail

LEMMA SafeStep == IInv /\ [Next]_vars => SafeInv'
<1> SUFFICES ASSUME IInv, [Next]_vars PROVE SafeInv'
  OBVIOUS
<1>1. CASE LeaseExpires
  BY <1>1, MovedSafe DEF LeaseExpires
<1>2. ASSUME NEW w \in Workers, Resolve(w) PROVE SafeInv'
  BY <1>2, DecideReviewSafe, RetryContinuationSafe DEF Resolve
<1>3. ASSUME NEW w \in Workers, RunStage(w) PROVE SafeInv'
  BY <1>3, RunStageSafe
<1>4. ASSUME NEW w \in Workers, Fail(w) PROVE SafeInv'
  BY <1>4, FailSafe
<1>5. CASE UNCHANGED vars
  BY <1>5, MovedSafe DEF vars, dbVars
<1> QED BY <1>1, <1>2, <1>3, <1>4, <1>5 DEF Next

LEMMA InvStep == IInv /\ [Next]_vars => IInv'
BY TypeStep, SafeStep DEF IInv

LEMMA InvHolds == Spec => []IInv
<1>1. Init => IInv
  BY InitTypeInv, InitSafe DEF IInv
<1> QED BY <1>1, InvStep, PTL DEF Spec

------------------------------------------------------------------------------------
(* The safety theorems: consequences of the invariant.                              *)

LEMMA AtMostOneElement ==
  ASSUME NEW S, \A x, y \in S : x = y
  PROVE  Cardinality(S) <= 1
<1>1. CASE S = {}
  BY <1>1, FS_EmptySet
<1>2. CASE S # {}
  <2>1. PICK x \in S : S = {x}
    BY <1>2
  <2> QED BY <2>1, FS_Singleton
<1> QED BY <1>1, <1>2

LEMMA InvNotReissued == IInv => RefundNotReissued
<1> SUFFICES ASSUME IInv, NEW w \in Workers, req[w].pc \in {"enter_refund", "refund"},
                    ActiveApprovalClaim(req[w].claim)
             PROVE  req[w].claim.appr \notin refunds
  BY DEF RefundNotReissued
<1>1. Owner(w)
  BY DEF Owner, Held
<1>2. req[w].claim = claim
  BY <1>1, OwnerFacts DEF IInv, SafeInv
<1>3. RefundOwed
  BY <1>1 DEF IInv, SafeInv, Progress, Placed
<1> QED BY <1>2, <1>3 DEF RefundOwed

LEMMA InvDecidable == IInv => NoStuckReview
<1> SUFFICES ASSUME IInv, claim = NoClaim \/ claim.appr \in Finished, NEW a \in Pending
             PROVE  ParentContinuationComplete(a)
  BY DEF NoStuckReview
<1>1. CASE claim = NoClaim
  BY <1>1 DEF IInv, SafeInv, Lineage, ParentContinuationComplete
<1>2. CASE claim # NoClaim
  <2>1. /\ appr[a].trigger # NoClaim /\ appr[a].trigger.appr = claim.appr
        /\ appr[a].trigger.seq <= claim.seq
    BY <1>2 DEF IInv, SafeInv, Lineage
  <2>2. done[claim.appr].claim = claim /\ done[claim.appr] # NoRecord
    BY <1>2 DEF IInv, SafeInv, Lineage, Finished
  <2>3. done[claim.appr].status = "pending_human" /\ done[claim.appr].child = a
    BY <1>2 DEF IInv, SafeInv, Lineage, TerminalAgreement
  <2> QED BY <2>1, <2>2, <2>3 DEF ParentContinuationComplete
<1> QED BY <1>1, <1>2

LEMMA InvSafe ==
  ASSUME IInv
  PROVE  /\ AtMostOneRefund /\ RefundAuthorised /\ RefundDelivered /\ RefundNotReissued
         /\ OneOwner /\ AtMostOnePending /\ TerminalAgreement /\ NoStuckReview /\ PolicyOnce
<1>1. AtMostOneRefund
  BY AtMostOneElement DEF IInv, SafeInv, Paid, AtMostOneRefund
<1>2. RefundAuthorised /\ RefundDelivered
  BY DEF IInv, SafeInv, Paid, RefundRoute, RefundAuthorised, RefundDelivered
<1>3. OneOwner
  BY OneOwnerFact DEF IInv, SafeInv, OneOwner, Owner, Held
<1>4. AtMostOnePending
  BY AtMostOneElement DEF IInv, SafeInv, Lineage, AtMostOnePending
<1>5. TerminalAgreement /\ PolicyOnce
  BY DEF IInv, SafeInv, Lineage, Progress
<1> QED BY <1>1, <1>2, <1>3, <1>4, <1>5, InvNotReissued, InvDecidable

\* A case pays at most once, however many requests, retries and reviews it goes through.
THEOREM RefundOnce == Spec => []AtMostOneRefund
BY InvSafe, InvHolds, PTL

\* Money only moves for a review a human approved and whose route says refund.
THEOREM RefundIsAuthorised == Spec => []RefundAuthorised
BY InvSafe, InvHolds, PTL

\* No continuation that owed a refund, recovered ones included, ends without it.
THEOREM RefundIsDelivered == Spec => []RefundDelivered
BY InvSafe, InvHolds, PTL

\* The snapshot of refund_persistence_result a request acts on is never out of date
\* while its claim is good.
THEOREM RefundIsNotReissued == Spec => []RefundNotReissued
BY InvSafe, InvHolds, PTL

\* The fence lets at most one of the requests in flight write, whatever their number.
THEOREM FenceExcludes == Spec => []OneOwner
BY InvSafe, InvHolds, PTL

\* A reviewer never faces two open questions about one case.
THEOREM OneQuestion == Spec => []AtMostOnePending
BY InvSafe, InvHolds, PTL

\* Terminal marker, workflow row and open review agree from one decision to the next.
THEOREM EndsAgree == Spec => []TerminalAgreement
BY InvSafe, InvHolds, PTL

\* Once a continuation has ended, the review it opened may be decided.
THEOREM ReviewsStayDecidable == Spec => []NoStuckReview
BY InvSafe, InvHolds, PTL

\* Policy decides once per review, whatever number of attempts the review takes.
THEOREM PolicyDecidesOnce == Spec => []PolicyOnce
BY InvSafe, InvHolds, PTL
====================================================================================
