-------------------------- MODULE HumanApprovalRefinement --------------------------
(***********************************************************************************)
(* Proofs of the properties that speak of steps: what an ended continuation left       *)
(* behind never changes, nor what its state is rebuilt from, and every step of          *)
(* HumanApproval is a step of ReviewContract or none.  All rest on the invariant of      *)
(* HumanApprovalProofs.                                                                 *)
(***********************************************************************************)
EXTENDS HumanApprovalProofs, ReviewScope

------------------------------------------------------------------------------------
(* History.                                                                         *)

\* What HistoryIsFinal says of one ended continuation.
Kept(a) ==
  /\ appr'[a] = appr[a]
  /\ done'[a] = done[a]
  /\ OwnRows(policyRows, a)' = OwnRows(policyRows, a)
  /\ OwnRows(responseRows, a)' = OwnRows(responseRows, a)
  /\ OwnRows(blocks, a)' = OwnRows(blocks, a)
  /\ (a \in refunds') = (a \in refunds)

LEMMA KeptWithoutWrites ==
  ASSUME NEW a, UNCHANGED <<appr, done, policyRows, responseRows, blocks, refunds>>
  PROVE  Kept(a)
BY DEF Kept, OwnRows

LEMMA OtherRowAdded ==
  ASSUME NEW rows, NEW row, NEW a, row.claim.appr # a
  PROVE  OwnRows(rows \cup {row}, a) = OwnRows(rows, a)
BY DEF OwnRows

\* A finished review is decided and on record.
LEMMA FinishedFacts ==
  ASSUME IInv, NEW a \in Finished
  PROVE  /\ a \in Approvals /\ a \in Resolved /\ a \notin Pending /\ a # nAppr + 1
<1>1. a \in Approvals /\ a \in Resolved
  BY DEF IInv, SafeInv, Lineage, Finished
<1>2. a \notin Pending
  BY <1>1 DEF Resolved, Pending
<1>3. a # nAppr + 1
  <2>1. nAppr \in Nat /\ MaxApprovals \in Nat
    BY BoundsAssumption DEF IInv, TypeInv, TypeOK
  <2>2. nAppr + 1 \in Approvals => appr[nAppr + 1].status = "absent"
    BY <2>1 DEF IInv, SafeInv, Lineage
  <2> QED BY <1>1, <2>2 DEF Resolved
<1> QED BY <1>1, <1>2, <1>3

LEMMA InsertedElsewhere ==
  ASSUME IInv, NEW row, InsertReview(row), NEW a \in Approvals, a # nAppr + 1
  PROVE  appr'[a] = appr[a]
<1>1. appr \in [Approvals -> ApprovalRows]
  BY DEF IInv, TypeInv, TypeOK
<1> QED BY <1>1 DEF InsertReview

\* A late request has no claim left to write under.
LEMMA OwnerElsewhere ==
  ASSUME IInv, NEW w \in Workers, Owner(w), NEW a \in Finished
  PROVE  claim.appr # a
BY OwnerFacts DEF IInv, SafeInv

LEMMA PersistPolicyKeeps ==
  ASSUME IInv, NEW w \in Workers, NEW d \in PolicyDecisions, NEW b \in BOOLEAN,
         PersistPolicy(w, d, b), NEW a \in Finished
  PROVE  Kept(a)
<1>0. appr \in [Approvals -> ApprovalRows] /\ a \in Approvals /\ a \notin Pending
  BY FinishedFacts DEF IInv, TypeInv, TypeOK
<1>1. claim.appr # a
  BY OwnerElsewhere DEF PersistPolicy, AtStage, Owner, Held
<1>2. UNCHANGED <<done, responseRows, refunds>>
  BY DEF PersistPolicy
<1>3. appr'[a] = appr[a]
  <2>1. a \notin PendingPolicyApprovals /\ a # nAppr + 1
    BY <1>0, FinishedFacts DEF PendingPolicyApprovals
  <2> DEFINE route == PolicyNextAgent(d, b)
             row   == PendingRow("policy", TRUE, d, claim)
  <2>2. PersistPolicyApproval(d, route, claim)
    BY DEF PersistPolicy
  <2>3. CASE appr' = [x \in Approvals |-> IF x \in PendingPolicyApprovals
                                          THEN [appr[x] EXCEPT !.status = "deleted"]
                                          ELSE appr[x]]
    BY <1>0, <2>1, <2>3
  <2>4. CASE InsertReview(row)
    BY <1>0, <2>1, <2>4, InsertedElsewhere
  <2>5. CASE PendingPolicyApprovals # {}
             /\ appr' = [appr EXCEPT ![CHOOSE x \in PendingPolicyApprovals : TRUE] = row]
    <3>1. (CHOOSE x \in PendingPolicyApprovals : TRUE) # a
      BY <2>1, <2>5
    <3> QED BY <1>0, <2>5, <3>1
  <2> QED BY <2>2, <2>3, <2>4, <2>5 DEF PersistPolicyApproval
<1>4. OwnRows(policyRows, a)' = OwnRows(policyRows, a)
  <2> DEFINE r == [claim |-> claim, decision |-> d, route |-> PolicyNextAgent(d, b)]
  <2>1. policyRows' = policyRows \cup {r} /\ r.claim.appr # a
    BY <1>1 DEF PersistPolicy
  <2>2. OwnRows(policyRows \cup {r}, a) = OwnRows(policyRows, a)
    BY <2>1, OtherRowAdded
  <2>3. OwnRows(policyRows, a)' = OwnRows(policyRows', a)
    BY DEF OwnRows
  <2> QED BY <2>1, <2>2, <2>3
<1>5. OwnRows(blocks, a)' = OwnRows(blocks, a)
  <2> DEFINE r == [stage |-> "policy", claim |-> claim]
  <2>1. (blocks' = blocks \cup {r} \/ blocks' = blocks) /\ r.claim.appr # a
    BY <1>1 DEF PersistPolicy
  <2>2. OwnRows(blocks \cup {r}, a) = OwnRows(blocks, a)
    BY <2>1, OtherRowAdded
  <2>3. OwnRows(blocks, a)' = OwnRows(blocks', a)
    BY DEF OwnRows
  <2> QED BY <2>1, <2>2, <2>3
<1>6. OwnRows(responseRows, a)' = OwnRows(responseRows, a)
  BY <1>2 DEF OwnRows
<1> QED BY <1>2, <1>3, <1>4, <1>5, <1>6 DEF Kept

LEMMA EnsureKeeps ==
  ASSUME IInv, NEW w \in Workers, NEW stage, NEW marker, NEW pc,
         EnsureHumanApproval(w, stage, marker, pc), NEW a \in Finished
  PROVE  Kept(a)
<1>1. UNCHANGED <<done, policyRows, responseRows, blocks, refunds>>
  BY DEF EnsureHumanApproval
<1>2. appr'[a] = appr[a]
  <2>1. a \in Approvals /\ a # nAppr + 1
    BY FinishedFacts
  <2> QED BY <2>1, InsertedElsewhere DEF EnsureHumanApproval
<1> QED BY <1>1, <1>2 DEF Kept, OwnRows

\* Response's governance event and its handoff, stamped with a claim that is not a's.
LEMMA ResponseKeeps ==
  ASSUME IInv, NEW w \in Workers, NEW a \in Finished,
         PersistResponse(w) \/ \E b \in BOOLEAN : SaveResponseGovernance(w, b)
  PROVE  Kept(a)
<1>1. claim.appr # a
  BY OwnerElsewhere DEF PersistResponse, SaveResponseGovernance, AtStage, Owner, Held
<1>2. UNCHANGED <<appr, done, policyRows, refunds>>
  BY DEF PersistResponse, SaveResponseGovernance
<1>3. PICK r, s : /\ r.claim.appr # a /\ s.claim.appr # a
                  /\ responseRows' = responseRows \/ responseRows' = responseRows \cup {r}
                  /\ blocks' = blocks \/ blocks' = blocks \cup {s}
  <2>1. [claim |-> claim, blocked |-> req[w].status = "pending_human"].claim.appr # a
        /\ [stage |-> "response", claim |-> claim].claim.appr # a
    BY <1>1
  <2> QED BY <2>1 DEF PersistResponse, SaveResponseGovernance
<1>4. /\ OwnRows(responseRows \cup {r}, a) = OwnRows(responseRows, a)
      /\ OwnRows(blocks \cup {s}, a) = OwnRows(blocks, a)
  BY <1>3, OtherRowAdded
<1>5. /\ OwnRows(responseRows, a)' = OwnRows(responseRows', a)
      /\ OwnRows(blocks, a)' = OwnRows(blocks', a)
      /\ OwnRows(policyRows, a)' = OwnRows(policyRows, a)
  BY <1>2 DEF OwnRows
<1> QED BY <1>2, <1>3, <1>4, <1>5 DEF Kept

LEMMA HistoryStep ==
  ASSUME IInv, [Next]_vars, NEW a \in Finished
  PROVE  Kept(a)
<1>0. a \in Approvals /\ a \notin Pending
  BY FinishedFacts
<1>1. CASE LeaseExpires \/ UNCHANGED vars
  BY <1>1, KeptWithoutWrites DEF LeaseExpires, vars, dbVars
<1>2. ASSUME NEW w \in Workers, Resolve(w) PROVE Kept(a)
  <2>1. ASSUME NEW b \in Approvals, RetryContinuation(w, b) PROVE Kept(a)
    BY <2>1, KeptWithoutWrites DEF RetryContinuation
  <2>2. ASSUME NEW b \in Approvals, NEW d \in ReviewDecisions, DecideReview(w, b, d)
        PROVE  Kept(a)
    <3>1. appr'[a] = appr[a]
      BY <1>0, <2>2 DEF DecideReview, IInv, TypeInv, TypeOK
    <3>2. UNCHANGED <<done, policyRows, responseRows, blocks, refunds>>
      BY <2>2 DEF DecideReview
    <3> QED BY <3>1, <3>2 DEF Kept, OwnRows
  <2> QED BY <1>2, <2>1, <2>2 DEF Resolve
<1>3. ASSUME NEW w \in Workers, RunStage(w) PROVE Kept(a)
  <2>1. CASE EnterStep(w) \/ Heartbeat(w)
    BY <2>1, KeptWithoutWrites DEF EnterStep, Heartbeat
  <2>2. CASE \E d \in PolicyDecisions, b \in BOOLEAN : PersistPolicy(w, d, b)
    BY <2>2, PersistPolicyKeeps
  <2>3. CASE EnsurePolicyReview(w) \/ EnsureResponseReview(w) \/ EnsureRecoveredReview(w)
    BY <2>3, EnsureKeeps DEF EnsurePolicyReview, EnsureResponseReview, EnsureRecoveredReview
  <2>4. CASE PersistRefund(w)
    <3>1. claim.appr # a
      BY <2>4, OwnerElsewhere DEF PersistRefund, AtStage, Owner, Held
    <3>2. (a \in refunds') = (a \in refunds)
      BY <2>4, <3>1 DEF PersistRefund
    <3>3. UNCHANGED <<appr, done, policyRows, responseRows, blocks>>
      BY <2>4 DEF PersistRefund
    <3> QED BY <3>2, <3>3 DEF Kept, OwnRows
  <2>5. CASE PersistResponse(w) \/ \E b \in BOOLEAN : SaveResponseGovernance(w, b)
    BY <2>5, ResponseKeeps
  <2>6. CASE MarkContinuation(w)
    <3>1. claim.appr # a
      BY <2>6, OwnerElsewhere DEF MarkContinuation, Owner, Held
    <3>2. done'[a] = done[a]
      BY <1>0, <2>6, <3>1 DEF MarkContinuation, IInv, TypeInv, TypeOK
    <3>3. UNCHANGED <<appr, policyRows, responseRows, blocks, refunds>>
      BY <2>6 DEF MarkContinuation
    <3> QED BY <3>2, <3>3 DEF Kept, OwnRows
  <2> QED BY <1>3, <2>1, <2>2, <2>3, <2>4, <2>5, <2>6 DEF RunStage
<1>4. ASSUME NEW w \in Workers, Fail(w) PROVE Kept(a)
  BY <1>4, KeptWithoutWrites DEF Fail, StepFails, RecordFailure, RequestEnds, dbVars
<1> QED BY <1>1, <1>2, <1>3, <1>4 DEF Next

\* What an ended continuation left behind is never written again, by any request however
\* late: its decision, its marker, its stage rows, its events and its refund.
THEOREM HistoryStays == Spec => HistoryIsFinal
<1>1. IInv /\ [Next]_vars => [\A a \in Finished :
       /\ appr'[a] = appr[a]
       /\ done'[a] = done[a]
       /\ OwnRows(policyRows, a)' = OwnRows(policyRows, a)
       /\ OwnRows(responseRows, a)' = OwnRows(responseRows, a)
       /\ OwnRows(blocks, a)' = OwnRows(blocks, a)
       /\ (a \in refunds') = (a \in refunds)]_vars
  BY HistoryStep DEF Kept
<1> QED BY <1>1, InvHolds, PTL DEF Spec, HistoryIsFinal

------------------------------------------------------------------------------------
(* The contract.                                                                    *)

\* Between continuations the pending review is the open one; under one nothing is open.
OpenFact ==
  /\ ActiveReview # 0 => /\ claim # NoClaim /\ claim.appr \notin Finished
                         /\ ActiveReview = claim.appr /\ OpenReview = 0
  /\ ActiveReview = 0 => claim = NoClaim \/ claim.appr \in Finished
  /\ (ActiveReview = 0 /\ Pending = {}) => OpenReview = 0
  /\ ActiveReview = 0 => \A a \in Pending : OpenReview = a

LEMMA InvOpen == IInv => OpenFact
<1> SUFFICES ASSUME IInv PROVE OpenFact
  OBVIOUS
<1>1. 0 \notin Approvals /\ (claim # NoClaim => claim.appr \in Approvals)
  BY DEF Approvals, IInv, TypeInv, ClaimOK
<1>2. \A a \in Decidable : a \in Pending /\ ParentContinuationComplete(a)
  BY DEF Decidable
<1>3. ASSUME ActiveReview # 0
      PROVE  /\ claim # NoClaim /\ claim.appr \notin Finished
             /\ ActiveReview = claim.appr /\ OpenReview = 0
  <2>1. claim # NoClaim /\ claim.appr \notin Finished /\ ActiveReview = claim.appr
    BY <1>3 DEF ActiveReview
  <2>2. ASSUME NEW a \in Decidable PROVE FALSE
    <3>1. appr[a].trigger # NoClaim /\ appr[a].trigger.appr = claim.appr
      BY <1>2, <2>1, <2>2 DEF IInv, SafeInv, Lineage
    <3>2. done[claim.appr] # NoRecord
      BY <1>2, <2>2, <3>1 DEF ParentContinuationComplete
    <3> QED BY <1>1, <2>1, <3>2 DEF Finished
  <2> QED BY <2>1, <2>2 DEF OpenReview
<1>4. ASSUME ActiveReview = 0 PROVE claim = NoClaim \/ claim.appr \in Finished
  BY <1>1, <1>4 DEF ActiveReview
<1>5. Pending = {} => OpenReview = 0
  BY <1>2 DEF OpenReview
<1>6. ASSUME ActiveReview = 0, NEW a \in Pending PROVE OpenReview = a
  <2>1. a \in Decidable
    BY <1>4, <1>6, InvDecidable DEF NoStuckReview, Decidable
  <2>2. \A b \in Decidable : b = a
    BY <1>2, <1>6 DEF IInv, SafeInv, Lineage
  <2> QED BY <2>1, <2>2 DEF OpenReview
<1> QED BY <1>3, <1>4, <1>5, <1>6 DEF OpenFact

LEMMA InvOpenNext == IInv' => OpenFact'
BY InvOpen, PTL

\* A step that decides nothing and ends nothing shows a reviewer nothing.
LEMMA InvisibleStep ==
  ASSUME IInv, IInv', UNCHANGED <<done, refunds>>, ActiveReview' = ActiveReview,
         ActiveReview # 0 \/ Pending' = Pending,
         \A a \in Approvals : \/ appr'[a] = appr[a]
                              \/ a \notin Resolved /\ a \notin Resolved'
  PROVE  UNCHANGED <<OpenReview, ActiveReview, Verdict, Outcome, refunds>>
<1>1. Verdict' = Verdict
  BY DEF Verdict, Resolved
<1>2. Outcome' = Outcome
  BY DEF Outcome
<1>3. OpenReview' = OpenReview
  <2>1. CASE ActiveReview # 0
    BY <2>1, InvOpen, InvOpenNext DEF OpenFact
  <2>2. CASE ActiveReview = 0 /\ Pending' = Pending
    <3>1. CASE Pending = {}
      BY <2>2, <3>1, InvOpen, InvOpenNext DEF OpenFact
    <3>2. CASE Pending # {}
      <4>1. PICK a \in Pending : TRUE
        BY <3>2
      <4>2. OpenReview = a
        BY <2>2, <4>1, InvOpen DEF OpenFact
      <4>3. OpenReview' = a
        BY <2>2, <4>1, InvOpenNext DEF OpenFact
      <4> QED BY <4>2, <4>3
    <3> QED BY <3>1, <3>2
  <2> QED BY <2>1, <2>2
<1> QED BY <1>1, <1>2, <1>3

\* While somebody holds the claim the work on its review is under way.
LEMMA OwnerActive ==
  ASSUME IInv, NEW w \in Workers, Owner(w)
  PROVE  /\ ActiveReview = claim.appr /\ ActiveReview # 0 /\ ActiveReview \in Approvals
         /\ Outcome[ActiveReview] = "none" /\ Verdict[ActiveReview] = appr[claim.appr].status
<1>1. /\ claim # NoClaim /\ claim.appr \in Approvals /\ claim.appr \in Resolved
      /\ claim.appr \notin Finished /\ done[claim.appr] = NoRecord
  BY OwnerFacts DEF IInv, SafeInv
<1>2. ActiveReview = claim.appr /\ claim.appr # 0
  BY <1>1 DEF ActiveReview, Approvals
<1> QED BY <1>1, <1>2 DEF Outcome, Verdict, NoRecord

LEMMA DecideMaps ==
  ASSUME IInv, IInv', NEW w \in Workers, NEW a \in Approvals, NEW d \in ReviewDecisions,
         DecideReview(w, a, d)
  PROVE  Contract!Next
<1> DEFINE v == ResolutionStatus(d)
<1>0. /\ appr \in [Approvals -> ApprovalRows] /\ a \in Pending /\ a # 0
      /\ appr[a].status = "pending" /\ v \in {"approved", "rejected"}
  BY RoutingTypes DEF IInv, TypeInv, TypeOK, DecideReview, Pending, Approvals
<1>1. /\ UNCHANGED <<done, refunds>> /\ claim'.appr = a /\ claim' # NoClaim
      /\ appr'[a].status = v
      /\ \A x \in Approvals : x # a => appr'[x] = appr[x]
  <2>1. AppendClaim(w, a) /\ UNCHANGED <<policyRows, responseRows>>
    BY DEF DecideReview
  <2>2. claim'.appr = a /\ claim' # NoClaim
    BY <2>1, NewClaim DEF IInv
  <2> QED BY <1>0, <2>2 DEF DecideReview, ApprovalRows
<1>2. ActiveReview = 0 /\ OpenReview = a
  <2>1. a \in Decidable
    BY <1>0 DEF Decidable, DecideReview
  <2>2. \A x \in Decidable : x = a
    BY <1>0 DEF Decidable, IInv, SafeInv, Lineage
  <2>3. OpenReview = a
    BY <2>1, <2>2 DEF OpenReview
  <2> QED BY <1>0, <2>3, InvOpen DEF OpenFact
<1>3. ActiveReview' = a /\ OpenReview' = 0
  <2>1. a \notin Finished'
    BY <1>0, <1>1, FinishedFacts DEF Finished
  <2>2. ActiveReview' = a
    BY <1>1, <2>1 DEF ActiveReview
  <2> QED BY <1>0, <2>2, InvOpenNext DEF OpenFact
<1>4. Verdict[a] = "none" /\ Verdict' = [Verdict EXCEPT ![a] = v]
  BY <1>0, <1>1 DEF Verdict, Resolved
<1>5. Outcome' = Outcome
  BY <1>1 DEF Outcome
<1>6. Contract!Decide(v)
  BY <1>0, <1>1, <1>2, <1>3, <1>4, <1>5 DEF Contract!Decide
<1> QED BY <1>0, <1>6 DEF Contract!Next

LEMMA PayMaps ==
  ASSUME IInv, IInv', NEW w \in Workers, PersistRefund(w)
  PROVE  Contract!Next
<1>0. Owner(w) /\ req[w].pc = "refund"
  BY DEF PersistRefund, AtStage, Owner, Held
<1>1. /\ ActiveReview = claim.appr /\ ActiveReview # 0 /\ ActiveReview \in Approvals
      /\ Verdict[ActiveReview] = appr[claim.appr].status
  BY <1>0, OwnerActive
<1>2. RefundOwed
  BY <1>0 DEF IInv, SafeInv, Progress, Placed
<1>3. appr[claim.appr].status = "approved" /\ claim.appr \notin refunds
  BY <1>2 DEF RefundOwed, RefundRoute
<1>4. refunds = {}
  <2>1. claim # NoClaim /\ appr[claim.appr].stage # "response"
    BY <1>1, <1>2, RouteNotResponse DEF RefundOwed
  <2> QED BY <1>3, <2>1 DEF IInv, SafeInv, Paid
<1>5. UNCHANGED <<OpenReview, ActiveReview, Verdict, Outcome>> /\ refunds' = {ActiveReview}
  <2>1. UNCHANGED <<appr, claim, done>> /\ refunds' = {claim.appr}
    BY <1>4 DEF PersistRefund
  <2>2. Finished' = Finished /\ Resolved' = Resolved /\ Pending' = Pending
    BY <2>1 DEF Finished, Resolved, Pending
  <2>3. Decidable' = Decidable
    BY <2>1, <2>2 DEF Decidable, ParentContinuationComplete
  <2> QED BY <1>1, <2>1, <2>2, <2>3 DEF OpenReview, ActiveReview, Verdict, Outcome
<1>6. Contract!Pay
  BY <1>1, <1>3, <1>4, <1>5 DEF Contract!Pay
<1> QED BY <1>6 DEF Contract!Next

LEMMA FinishMaps ==
  ASSUME IInv, IInv', NEW w \in Workers, MarkContinuation(w)
  PROVE  Contract!Next
<1> DEFINE s     == req[w].status
           child == IF s = "pending_human" THEN req[w].child ELSE 0
<1>0. Owner(w) /\ s \in TerminalStatuses /\ done \in [Approvals -> Records]
  BY DEF MarkContinuation, Owner, Held, IInv, TypeInv, TypeOK, Requests
<1>1. /\ ActiveReview = claim.appr /\ ActiveReview # 0 /\ ActiveReview \in Approvals
      /\ Outcome[ActiveReview] = "none"
  BY <1>0, OwnerActive
<1>2. /\ UNCHANGED <<appr, claim, refunds>>
      /\ done' = [done EXCEPT ![claim.appr] =
                    [status |-> s, child |-> req[w].child, claim |-> claim]]
      /\ Pending = IF s = "pending_human" THEN {req[w].child} ELSE {}
  BY DEF MarkContinuation, MarkAdmitted
<1>3. Verdict' = Verdict /\ Pending' = Pending
  BY <1>2 DEF Verdict, Resolved, Pending
<1>4. Outcome' = [Outcome EXCEPT ![ActiveReview] = s]
  BY <1>0, <1>1, <1>2 DEF Outcome
<1>5. ActiveReview' = 0
  <2>1. claim.appr \in Finished'
    BY <1>0, <1>1, <1>2 DEF Finished, NoRecord, TerminalStatuses
  <2> QED BY <1>2, <2>1 DEF ActiveReview
<1>6. OpenReview' = child
  BY <1>2, <1>3, <1>5, InvOpenNext DEF OpenFact
<1>7. s = "pending_human" => child > ActiveReview /\ Verdict[child] = "none" /\ child \in Approvals
  <2> SUFFICES ASSUME s = "pending_human"
               PROVE  child > ActiveReview /\ Verdict[child] = "none" /\ child \in Approvals
    OBVIOUS
  <2>1. child \in Pending /\ child \in Approvals
    BY <1>2 DEF Pending
  <2>2. child > ActiveReview
    <3>1. claim # NoClaim
      BY <1>0, OwnerFacts DEF IInv, SafeInv
    <3>2. claim.appr < child
      BY <2>1, <3>1 DEF IInv, SafeInv, Lineage
    <3> QED BY <1>1, <2>1, <3>2 DEF Approvals
  <2>3. Verdict[child] = "none"
    BY <2>1 DEF Verdict, Resolved, Pending
  <2> QED BY <2>1, <2>2, <2>3
<1> HIDE DEF child
<1>8. Contract!Finish(s, child)
  BY <1>1, <1>2, <1>3, <1>4, <1>5, <1>6, <1>7 DEF Contract!Finish, child
<1>9. child \in {0} \cup Contract!Reviews /\ s \in Contract!TerminalStatuses
  BY <1>0, <1>7 DEF Contract!Reviews, Approvals, Contract!TerminalStatuses, TerminalStatuses, child
<1> QED BY <1>8, <1>9 DEF Contract!Next

\* Opening, refreshing or withdrawing a review under a claim is hidden until its end.
LEMMA ReviewWritesHidden ==
  ASSUME IInv, IInv', NEW w \in Workers, Owner(w), UNCHANGED <<claim, done, refunds>>,
         \A a \in Approvals : \/ appr'[a] = appr[a]
                              \/ a \notin Resolved /\ a \notin Resolved'
  PROVE  UNCHANGED <<OpenReview, ActiveReview, Verdict, Outcome, refunds>>
<1>1. ActiveReview' = ActiveReview
  BY DEF ActiveReview, Finished
<1> QED BY <1>1, InvisibleStep, OwnerActive

LEMMA UnwrittenReviewsHidden ==
  ASSUME UNCHANGED <<appr, claim, done, refunds>>
  PROVE  UNCHANGED <<OpenReview, ActiveReview, Verdict, Outcome, refunds>>
<1>1. UNCHANGED <<Pending, Resolved, Finished>>
  BY DEF Pending, Resolved, Finished
<1>2. Decidable' = Decidable
  BY <1>1 DEF Decidable, ParentContinuationComplete
<1> QED BY <1>1, <1>2 DEF OpenReview, ActiveReview, Verdict, Outcome

LEMMA InsertHidden ==
  ASSUME IInv, NEW row, row.status = "pending", InsertReview(row), NEW a \in Approvals
  PROVE  appr'[a] = appr[a] \/ (a \notin Resolved /\ a \notin Resolved')
<1>0. appr \in [Approvals -> ApprovalRows] /\ nAppr \in Nat
  BY DEF IInv, TypeInv, TypeOK
<1>1. CASE a = nAppr + 1
  <2>1. appr[a].status = "absent" /\ appr'[a] = row
    BY <1>0, <1>1 DEF InsertReview, IInv, SafeInv, Lineage
  <2> QED BY <2>1 DEF Resolved
<1>2. CASE a # nAppr + 1
  BY <1>2, InsertedElsewhere
<1> QED BY <1>1, <1>2

LEMMA PersistPolicyHidden ==
  ASSUME IInv, IInv', NEW w \in Workers, NEW d \in PolicyDecisions, NEW b \in BOOLEAN,
         PersistPolicy(w, d, b)
  PROVE  UNCHANGED <<OpenReview, ActiveReview, Verdict, Outcome, refunds>>
<1> DEFINE row == PendingRow("policy", TRUE, d, claim)
<1>0. Owner(w) /\ UNCHANGED <<claim, done, refunds>> /\ appr \in [Approvals -> ApprovalRows]
  BY DEF PersistPolicy, AtStage, Owner, Held, IInv, TypeInv, TypeOK
<1>1. row.status = "pending"
  BY DEF PendingRow
<1>2. PersistPolicyApproval(d, PolicyNextAgent(d, b), claim)
  BY DEF PersistPolicy
<1>3. \A a \in PendingPolicyApprovals : a \in Approvals /\ a \notin Resolved
  BY DEF PendingPolicyApprovals, Pending, Resolved
<1> HIDE DEF row
<1>4. ASSUME NEW a \in Approvals
      PROVE  appr'[a] = appr[a] \/ (a \notin Resolved /\ a \notin Resolved')
  <2>1. CASE appr' = [x \in Approvals |-> IF x \in PendingPolicyApprovals
                                          THEN [appr[x] EXCEPT !.status = "deleted"]
                                          ELSE appr[x]]
    <3>1. a \in PendingPolicyApprovals => appr'[a].status = "deleted"
      BY <1>0, <2>1 DEF ApprovalRows
    <3>2. a \notin PendingPolicyApprovals => appr'[a] = appr[a]
      BY <2>1
    <3> QED BY <1>3, <3>1, <3>2 DEF Resolved
  <2>2. CASE InsertReview(row)
    BY <1>1, <2>2, InsertHidden
  <2>3. CASE PendingPolicyApprovals # {}
             /\ appr' = [appr EXCEPT ![CHOOSE x \in PendingPolicyApprovals : TRUE] = row]
    <3> PICK c \in PendingPolicyApprovals : appr' = [appr EXCEPT ![c] = row]
      BY <2>3
    <3>1. a # c => appr'[a] = appr[a]
      BY <1>0
    <3>2. a = c => appr'[a] = row
      BY <1>0
    <3> QED BY <1>1, <1>3, <3>1, <3>2 DEF Resolved
  <2> QED BY <1>2, <2>1, <2>2, <2>3 DEF PersistPolicyApproval, row
<1> QED BY <1>0, <1>4, ReviewWritesHidden

LEMMA EnsureHidden ==
  ASSUME IInv, IInv', NEW w \in Workers, Owner(w), NEW stage, NEW marker, NEW pc,
         EnsureHumanApproval(w, stage, marker, pc)
  PROVE  UNCHANGED <<OpenReview, ActiveReview, Verdict, Outcome, refunds>>
<1>1. PendingRow(stage, FALSE, "none", marker).status = "pending"
  BY DEF PendingRow
<1>2. UNCHANGED <<claim, done, refunds>>
  BY DEF EnsureHumanApproval
<1>3. \A a \in Approvals : appr'[a] = appr[a] \/ (a \notin Resolved /\ a \notin Resolved')
  BY <1>1, InsertHidden DEF EnsureHumanApproval
<1> QED BY <1>2, <1>3, ReviewWritesHidden

\* A retry changes who works on a review, not that somebody does.
LEMMA RetryHidden ==
  ASSUME IInv, IInv', NEW w \in Workers, NEW a \in Approvals, RetryContinuation(w, a)
  PROVE  UNCHANGED <<OpenReview, ActiveReview, Verdict, Outcome, refunds>>
<1>1. /\ UNCHANGED <<appr, done, refunds>> /\ claim'.appr = a /\ claim' # NoClaim
      /\ a \in Resolved /\ a \notin Finished
  <2>1. AppendClaim(w, a) /\ UNCHANGED <<policyRows, responseRows>>
    BY DEF RetryContinuation
  <2> QED BY <2>1, NewClaim DEF IInv, RetryContinuation
<1>2. claim # NoClaim /\ claim.appr = a
  BY <1>1 DEF IInv, SafeInv, Lineage
<1>3. Pending' = Pending /\ Finished' = Finished
  BY <1>1 DEF Pending, Finished
<1>4. ActiveReview' = ActiveReview
  BY <1>1, <1>2, <1>3 DEF ActiveReview
<1> QED BY <1>1, <1>3, <1>4, InvisibleStep

LEMMA StepMaps ==
  ASSUME IInv, IInv', [Next]_vars
  PROVE  [Contract!Next]_Contract!contractVars
<1> DEFINE Hidden == UNCHANGED <<OpenReview, ActiveReview, Verdict, Outcome, refunds>>
<1>0. Hidden => UNCHANGED Contract!contractVars
  BY DEF Contract!contractVars
<1> HIDE DEF Hidden
<1>1. CASE LeaseExpires \/ UNCHANGED vars
  <2>1. UNCHANGED <<appr, claim, done, refunds>>
    BY <1>1 DEF LeaseExpires, vars, dbVars
  <2> QED BY <1>0, <2>1, UnwrittenReviewsHidden DEF Hidden
<1>2. ASSUME NEW w \in Workers, Resolve(w) PROVE Contract!Next \/ Hidden
  BY <1>2, DecideMaps, RetryHidden DEF Resolve, Hidden
<1>3. ASSUME NEW w \in Workers, RunStage(w) PROVE Contract!Next \/ Hidden
  <2>1. CASE EnterStep(w) \/ Heartbeat(w) \/ PersistResponse(w)
             \/ \E b \in BOOLEAN : SaveResponseGovernance(w, b)
    <3>1. UNCHANGED <<appr, claim, done, refunds>>
      BY <2>1 DEF EnterStep, Heartbeat, PersistResponse, SaveResponseGovernance
    <3> QED BY <3>1, UnwrittenReviewsHidden DEF Hidden
  <2>2. CASE \E d \in PolicyDecisions, b \in BOOLEAN : PersistPolicy(w, d, b)
    BY <2>2, PersistPolicyHidden DEF Hidden
  <2>3. CASE EnsurePolicyReview(w) \/ EnsureResponseReview(w) \/ EnsureRecoveredReview(w)
    <3>1. Owner(w)
      BY <2>3 DEF EnsurePolicyReview, EnsureResponseReview, EnsureRecoveredReview, AtStage,
                  Owner, Held
    <3> QED BY <2>3, <3>1, EnsureHidden
            DEF EnsurePolicyReview, EnsureResponseReview, EnsureRecoveredReview, Hidden
  <2>4. CASE PersistRefund(w)
    BY <2>4, PayMaps
  <2>5. CASE MarkContinuation(w)
    BY <2>5, FinishMaps
  <2> QED BY <1>3, <2>1, <2>2, <2>3, <2>4, <2>5 DEF RunStage
<1>4. ASSUME NEW w \in Workers, Fail(w) PROVE Hidden
  <2>1. UNCHANGED <<appr, claim, done, refunds>>
    BY <1>4 DEF Fail, StepFails, RecordFailure, RequestEnds, dbVars
  <2> QED BY <2>1, UnwrittenReviewsHidden DEF Hidden
<1> QED BY <1>0, <1>1, <1>2, <1>3, <1>4 DEF Next

LEMMA InitMaps == Init => Contract!Init
<1> SUFFICES ASSUME Init PROVE Contract!Init
  OBVIOUS
<1>1. IInv
  BY InitTypeInv, InitSafe DEF IInv
<1>2. /\ claim = NoClaim /\ done = [a \in Approvals |-> NoRecord]
      /\ refunds \in {{}, {0}}
  BY DEF Init
<1>3. 1 \in Pending /\ Resolved = {}
  <2>1. PICK row \in InitialReviews :
          appr = [a \in Approvals |-> IF a = 1 THEN row ELSE AbsentRow]
    BY DEF Init
  <2>2. row.status = "pending" /\ AbsentRow.status = "absent"
    BY DEF InitialReviews, PendingRow, AbsentRow
  <2>3. 1 \in Approvals /\ \A a \in Approvals : appr[a] = IF a = 1 THEN row ELSE AbsentRow
    BY <2>1, BoundsAssumption DEF Approvals
  <2> QED BY <2>2, <2>3 DEF Pending, Resolved
<1>4. ActiveReview = 0
  BY <1>2 DEF ActiveReview
<1>5. OpenReview = 1
  BY <1>1, <1>3, <1>4, InvOpen DEF OpenFact
<1>6. /\ Verdict = [a \in Contract!Reviews |-> "none"]
      /\ Outcome = [a \in Contract!Reviews |-> "none"]
  <2>1. Contract!Reviews = Approvals
    BY DEF Contract!Reviews, Approvals
  <2> QED BY <1>2, <1>3, <2>1 DEF Verdict, Outcome, NoRecord
<1> QED BY <1>2, <1>4, <1>5, <1>6 DEF Contract!Init

\* Whatever the number of requests, retries, crashes and lost leases, what a reviewer sees
\* of a case is a behaviour of the contract.
THEOREM ContractHolds == Spec => ImplementsContract
<1>1. IInv /\ IInv' /\ [Next]_vars => [Contract!Next]_Contract!contractVars
  BY StepMaps
<1> QED BY <1>1, InitMaps, InvHolds, PTL DEF Spec, ImplementsContract, Contract!Spec

------------------------------------------------------------------------------------
(* What a repeated request is answered from.  The rows in its scope that are not a     *)
(* review's own are older than every claim still to come.                               *)

\* What a decided review was opened by has ended, before any claim that may still write.
OriginPast(a) ==
  /\ Origin(a) \in Nat /\ Origin(a) < claim.seq
  /\ appr[a].trigger # NoClaim => appr[a].trigger.appr \in Finished

ScopeInv == \A a \in Resolved : OriginPast(a)

------------------------------------------------------------------------------------
(* A decided review stays as it is, and only a decision makes one.                   *)

LEMMA InsertedPending ==
  ASSUME IInv, NEW row \in ApprovalRows, row.status = "pending", InsertReview(row)
  PROVE  Resolved' = Resolved /\ \A a \in Resolved : appr'[a] = appr[a]
<1>1. appr \in [Approvals -> ApprovalRows] /\ nAppr \in Nat
  BY BoundsAssumption DEF IInv, TypeInv, TypeOK
<1>2. nAppr + 1 \in Approvals => appr[nAppr + 1].status = "absent"
  BY <1>1 DEF IInv, SafeInv, Lineage
<1>3. \A a \in Approvals : appr'[a] = IF a = nAppr + 1 THEN row ELSE appr[a]
  BY <1>1 DEF InsertReview
<1> QED BY <1>2, <1>3 DEF Resolved

LEMMA PersistPolicyDecidesNone ==
  ASSUME IInv, NEW w \in Workers, NEW d \in PolicyDecisions, NEW b \in BOOLEAN,
         PersistPolicy(w, d, b)
  PROVE  Resolved' = Resolved /\ \A a \in Resolved : appr'[a] = appr[a]
<1> DEFINE route == PolicyNextAgent(d, b)
           row   == PendingRow("policy", TRUE, d, claim)
<1>1. PersistPolicyApproval(d, route, claim)
  BY DEF PersistPolicy
<1>2. row \in ApprovalRows /\ row.status = "pending"
  BY RoutingTypes DEF PendingRow, ApprovalRows, Stages, IInv, TypeInv, TypeOK
<1>3. appr \in [Approvals -> ApprovalRows] /\ \A a \in PendingPolicyApprovals : a \in Approvals /\ a \notin Resolved
  BY DEF IInv, TypeInv, TypeOK, PendingPolicyApprovals, Pending, Resolved
<1>4. CASE appr' = [a \in Approvals |-> IF a \in PendingPolicyApprovals
                                        THEN [appr[a] EXCEPT !.status = "deleted"]
                                        ELSE appr[a]]
  <2>1. \A a \in Approvals : a \notin PendingPolicyApprovals => appr'[a] = appr[a]
    BY <1>4
  <2>2. \A a \in PendingPolicyApprovals : appr'[a].status = "deleted"
    BY <1>3, <1>4 DEF ApprovalRows
  <2> QED BY <1>3, <2>1, <2>2 DEF Resolved
<1>5. CASE InsertReview(row)
  BY <1>2, <1>5, InsertedPending
<1>6. CASE PendingPolicyApprovals # {}
           /\ appr' = [appr EXCEPT ![CHOOSE a \in PendingPolicyApprovals : TRUE] = row]
  <2>1. PICK p \in PendingPolicyApprovals : appr' = [appr EXCEPT ![p] = row]
    BY <1>6
  <2>2. \A a \in Approvals : appr'[a] = IF a = p THEN row ELSE appr[a]
    BY <1>3, <2>1
  <2> QED BY <1>2, <1>3, <2>1, <2>2 DEF Resolved
<1> QED BY <1>1, <1>4, <1>5, <1>6 DEF PersistPolicyApproval

LEMMA EnsureDecidesNone ==
  ASSUME IInv, NEW w \in Workers, NEW stage \in Stages, NEW marker \in Claims, NEW pc,
         EnsureHumanApproval(w, stage, marker, pc)
  PROVE  Resolved' = Resolved /\ \A a \in Resolved : appr'[a] = appr[a]
<1> DEFINE row == PendingRow(stage, FALSE, "none", marker)
<1>1. row \in ApprovalRows /\ row.status = "pending"
  BY RoutingTypes DEF PendingRow, ApprovalRows
<1>2. CASE UNCHANGED appr
  BY <1>2 DEF Resolved
<1>3. CASE InsertReview(row)
  BY <1>1, <1>3, InsertedPending
<1> QED BY <1>2, <1>3 DEF EnsureHumanApproval

LEMMA StageDecidesNone ==
  ASSUME IInv, NEW w \in Workers, RunStage(w)
  PROVE  Resolved' = Resolved /\ \A a \in Resolved : appr'[a] = appr[a]
<1>1. CASE \/ EnterStep(w) \/ Heartbeat(w) \/ PersistRefund(w) \/ PersistResponse(w)
           \/ MarkContinuation(w) \/ \E b \in BOOLEAN : SaveResponseGovernance(w, b)
  <2>1. UNCHANGED appr
    BY <1>1 DEF EnterStep, Heartbeat, PersistRefund, PersistResponse, MarkContinuation,
                SaveResponseGovernance
  <2> QED BY <2>1 DEF Resolved
<1>2. CASE \E d \in PolicyDecisions, b \in BOOLEAN : PersistPolicy(w, d, b)
  BY <1>2, PersistPolicyDecidesNone
<1>3. CASE EnsurePolicyReview(w) \/ EnsureResponseReview(w) \/ EnsureRecoveredReview(w)
  <2>1. claim \in Claims /\ req[w].marker \in Claims
    BY DEF IInv, TypeInv, TypeOK, Requests
  <2>2. "policy" \in Stages /\ "response" \in Stages
    BY DEF Stages
  <2> QED BY <1>3, <2>1, <2>2, EnsureDecidesNone
          DEF EnsurePolicyReview, EnsureResponseReview, EnsureRecoveredReview
<1> QED BY <1>1, <1>2, <1>3 DEF RunStage

------------------------------------------------------------------------------------
(* The invariant.                                                                    *)

\* A step that decides nothing leaves every decided review its past.
LEMMA PastKept ==
  ASSUME IInv, [Next]_vars, NEW a \in Resolved, OriginPast(a), claim'.seq \in Nat,
         claim.seq \in Nat, claim.seq <= claim'.seq, appr'[a] = appr[a]
  PROVE  OriginPast(a)'
<1>1. CASE appr[a].trigger = NoClaim
  <2>1. Origin(a) = 0 /\ Origin(a)' = 0
    BY <1>1 DEF Origin
  <2> QED BY <1>1, <2>1 DEF OriginPast
<1>2. CASE appr[a].trigger # NoClaim
  <2> DEFINE parent == appr[a].trigger.appr
  <2>1. parent \in Finished
    BY <1>2 DEF OriginPast
  <2>2. done'[parent] = done[parent]
    BY <2>1, HistoryStep DEF Kept
  <2>3. parent \in Finished'
    BY <2>1, <2>2 DEF Finished
  <2>4. Origin(a)' = Origin(a)
    BY <1>2, <2>2 DEF Origin
  <2> QED BY <2>3, <2>4 DEF OriginPast
<1> QED BY <1>1, <1>2

\* The review just decided was opened by the claim that was the newest until now, if by any.
LEMMA PastDecided ==
  ASSUME IInv, NEW w \in Workers, NEW a \in Approvals, NEW d \in ReviewDecisions,
         DecideReview(w, a, d)
  PROVE  OriginPast(a)'
<1>1. claim \in Claims /\ appr \in [Approvals -> ApprovalRows] /\ MaxClaims \in Nat
  BY BoundsAssumption DEF IInv, TypeInv, TypeOK
<1>2. claim'.seq = claim.seq + 1 /\ claim.seq \in Nat
  <2>1. AppendClaim(w, a) /\ UNCHANGED <<policyRows, responseRows>>
    BY DEF DecideReview
  <2> QED BY <1>1, <2>1, NewClaim DEF IInv, Claims
<1>3. appr'[a].trigger = appr[a].trigger /\ UNCHANGED done
  BY <1>1 DEF DecideReview, ApprovalRows
<1>4. CASE appr[a].trigger = NoClaim
  <2>1. Origin(a)' = 0
    BY <1>3, <1>4 DEF Origin
  <2> QED BY <1>2, <1>3, <1>4, <2>1 DEF OriginPast
<1>5. CASE appr[a].trigger # NoClaim
  <2>1. /\ claim # NoClaim /\ appr[a].trigger.appr = claim.appr
        /\ appr[a].trigger.seq <= claim.seq
    BY <1>5 DEF DecideReview, IInv, SafeInv, Lineage
  <2>2. claim.appr \in Finished
    BY <1>5, <2>1 DEF DecideReview, ParentContinuationComplete, Finished, IInv, TypeInv, ClaimOK
  <2>3. done[claim.appr].claim = claim
    BY <2>1, <2>2 DEF IInv, SafeInv, Lineage
  <2>4. Origin(a)' = claim.seq
    BY <1>3, <1>5, <2>1, <2>3 DEF Origin
  <2>5. appr[a].trigger.appr \in Finished'
    BY <1>3, <2>1, <2>2 DEF Finished
  <2> QED BY <1>2, <1>3, <2>4, <2>5 DEF OriginPast
<1> QED BY <1>4, <1>5

LEMMA ScopeStep == IInv /\ ScopeInv /\ [Next]_vars => ScopeInv'
<1> SUFFICES ASSUME IInv, ScopeInv, [Next]_vars PROVE ScopeInv'
  OBVIOUS
<1>0. claim \in Claims /\ claim.seq \in Nat /\ MaxClaims \in Nat
  BY BoundsAssumption DEF IInv, TypeInv, TypeOK, Claims
<1>1. ASSUME UNCHANGED claim, Resolved' = Resolved, \A a \in Resolved : appr'[a] = appr[a]
      PROVE  ScopeInv'
  BY <1>0, <1>1, PastKept DEF ScopeInv
<1>2. CASE LeaseExpires \/ UNCHANGED vars
  BY <1>1, <1>2 DEF LeaseExpires, vars, dbVars, Resolved
<1>3. ASSUME NEW w \in Workers, RunStage(w) PROVE ScopeInv'
  <2>1. UNCHANGED claim
    BY <1>3 DEF RunStage, EnterStep, Heartbeat, PersistPolicy, EnsurePolicyReview, PersistRefund,
       SaveResponseGovernance, PersistResponse, EnsureResponseReview, EnsureRecoveredReview,
       EnsureHumanApproval, MarkContinuation
  <2> QED BY <1>1, <1>3, <2>1, StageDecidesNone
<1>4. ASSUME NEW w \in Workers, Fail(w) PROVE ScopeInv'
  BY <1>1, <1>4 DEF Fail, StepFails, RecordFailure, RequestEnds, dbVars, Resolved
<1>5. ASSUME NEW w \in Workers, NEW b \in Approvals, RetryContinuation(w, b) PROVE ScopeInv'
  <2>1. AppendClaim(w, b) /\ UNCHANGED <<appr, policyRows, responseRows>>
    BY <1>5 DEF RetryContinuation
  <2>2. claim'.seq = claim.seq + 1
    BY <2>1, NewClaim DEF IInv
  <2>3. Resolved' = Resolved
    BY <2>1 DEF Resolved
  <2> QED BY <1>0, <2>1, <2>2, <2>3, PastKept DEF ScopeInv
<1>6. ASSUME NEW w \in Workers, NEW b \in Approvals, NEW d \in ReviewDecisions,
             DecideReview(w, b, d)
      PROVE  ScopeInv'
  <2>1. AppendClaim(w, b) /\ UNCHANGED <<policyRows, responseRows>>
    BY <1>6 DEF DecideReview
  <2>2. claim'.seq = claim.seq + 1
    BY <2>1, NewClaim DEF IInv
  <2>3. \A a \in Approvals : a # b => appr'[a] = appr[a]
    BY <1>6 DEF DecideReview, IInv, TypeInv, TypeOK
  <2>4. \A a \in Resolved' : a = b \/ (a \in Resolved /\ appr'[a] = appr[a])
    BY <2>3 DEF Resolved
  <2> QED BY <1>0, <1>6, <2>2, <2>4, PastKept, PastDecided DEF ScopeInv
<1> QED BY <1>2, <1>3, <1>4, <1>5, <1>6 DEF Next, Resolve

LEMMA InitScope == Init => ScopeInv
<1> SUFFICES ASSUME Init, NEW a \in Resolved PROVE FALSE
  BY DEF ScopeInv
<1>1. \A row \in InitialReviews \cup {AbsentRow} : row.status \in {"pending", "absent"}
  BY DEF InitialReviews, PendingRow, AbsentRow
<1>2. appr[a] \in InitialReviews \cup {AbsentRow}
  BY DEF Init, Resolved
<1> QED BY <1>1, <1>2 DEF Resolved

LEMMA ScopeHolds == Spec => []ScopeInv
BY InitScope, ScopeStep, InvHolds, PTL DEF Spec

------------------------------------------------------------------------------------
(* The theorem.                                                                      *)

\* A stage adds at most one row, under the claim of its owner.
LEMMA RowsGrow ==
  ASSUME IInv, [Next]_vars
  PROVE  /\ policyRows \subseteq policyRows' /\ responseRows \subseteq responseRows'
         /\ \A r \in (policyRows' \ policyRows) \cup (responseRows' \ responseRows) :
              r.claim = claim /\ \E w \in Workers : Owner(w)
<1>1. CASE UNCHANGED <<policyRows, responseRows>>
  BY <1>1
<1>2. ASSUME NEW w \in Workers, NEW d \in PolicyDecisions, NEW b \in BOOLEAN,
             PersistPolicy(w, d, b)
      PROVE  /\ policyRows \subseteq policyRows' /\ responseRows' = responseRows
             /\ \A r \in policyRows' \ policyRows : r.claim = claim
             /\ Owner(w)
  BY <1>2 DEF PersistPolicy, AtStage, Owner, Held
<1>3. ASSUME NEW w \in Workers, PersistResponse(w)
      PROVE  /\ responseRows \subseteq responseRows' /\ policyRows' = policyRows
             /\ \A r \in responseRows' \ responseRows : r.claim = claim
             /\ Owner(w)
  BY <1>3 DEF PersistResponse, AtStage, Owner, Held
<1>4. ASSUME NEW w \in Workers, Resolve(w) PROVE UNCHANGED <<policyRows, responseRows>>
  <2>1. ASSUME NEW b \in Approvals, RetryContinuation(w, b)
        PROVE  UNCHANGED <<policyRows, responseRows>>
    BY <2>1 DEF RetryContinuation
  <2>2. ASSUME NEW b \in Approvals, NEW d \in ReviewDecisions, DecideReview(w, b, d)
        PROVE  UNCHANGED <<policyRows, responseRows>>
    BY <2>2 DEF DecideReview
  <2> QED BY <1>4, <2>1, <2>2 DEF Resolve
<1>5. ASSUME NEW w \in Workers, RunStage(w)
      PROVE  \/ UNCHANGED <<policyRows, responseRows>>
             \/ \E d \in PolicyDecisions, b \in BOOLEAN : PersistPolicy(w, d, b)
             \/ PersistResponse(w)
  BY <1>5 DEF RunStage, EnterStep, Heartbeat, EnsurePolicyReview, EnsureResponseReview,
     EnsureRecoveredReview, EnsureHumanApproval, PersistRefund, SaveResponseGovernance,
     MarkContinuation
<1>6. ASSUME NEW w \in Workers, Fail(w)
      PROVE  UNCHANGED <<policyRows, responseRows>>
  BY <1>6 DEF Fail, StepFails, RecordFailure, RequestEnds, dbVars
<1>7. CASE LeaseExpires \/ UNCHANGED vars
  BY <1>1, <1>7 DEF LeaseExpires, vars, dbVars
<1> QED BY <1>1, <1>2, <1>3, <1>4, <1>5, <1>6, <1>7 DEF Next

LEMMA ReplayStep ==
  ASSUME IInv, ScopeInv, [Next]_vars, NEW a \in Finished
  PROVE  /\ Scope(policyRows, a)' = Scope(policyRows, a)
         /\ Scope(responseRows, a)' = Scope(responseRows, a)
<1>1. a \in Resolved /\ OriginPast(a) /\ claim.seq \in Nat
  BY FinishedFacts DEF ScopeInv, IInv, TypeInv, TypeOK, Claims
<1>2. appr'[a] = appr[a] /\ done'[a] = done[a]
  BY HistoryStep DEF Kept
<1>3. Origin(a)' = Origin(a)
  <2>1. CASE appr[a].trigger = NoClaim
    BY <1>2, <2>1 DEF Origin
  <2>2. CASE appr[a].trigger # NoClaim
    <3>1. done'[appr[a].trigger.appr] = done[appr[a].trigger.appr]
      BY <1>1, <2>2, HistoryStep DEF OriginPast, Kept
    <3> QED BY <1>2, <3>1 DEF Origin
  <2> QED BY <2>1, <2>2
<1>4. \A r : InScope(r, a)' = InScope(r, a)
  BY <1>2, <1>3 DEF InScope
<1>5. \A r : (r.claim = claim /\ \E w \in Workers : Owner(w)) => ~InScope(r, a)
  BY <1>1, OwnerElsewhere DEF InScope, OriginPast
<1>6. Scope(policyRows, a)' = Scope(policyRows, a)
  BY <1>4, <1>5, RowsGrow DEF Scope
<1>7. Scope(responseRows, a)' = Scope(responseRows, a)
  BY <1>4, <1>5, RowsGrow DEF Scope
<1> QED BY <1>6, <1>7

\* The answer to a repeated request stays the same: once a continuation has ended, no
\* review that follows it and no late attempt changes the rows its state is rebuilt from.
THEOREM ReplaysAreStable == Spec => ReplayIsStable
<1>1. IInv /\ ScopeInv /\ [Next]_vars => [\A a \in Finished :
        /\ Scope(policyRows, a)' = Scope(policyRows, a)
        /\ Scope(responseRows, a)' = Scope(responseRows, a)]_vars
  BY ReplayStep
<1> QED BY <1>1, InvHolds, ScopeHolds, PTL DEF Spec, ReplayIsStable
====================================================================================
