---------------------------------- MODULE CaseStatus ----------------------------------
(***********************************************************************************)
(* What the dashboard says of a case.  Nothing stores a case's status: every read      *)
(* projects the rows of the trace, of all its runs and continuations, onto the newest   *)
(* generation and derives it from those.  The answer each Response handoff carries is    *)
(* the one thing this needs that RefundCase leaves out.                                  *)
(***********************************************************************************)
EXTENDS RefundCase, ReviewScope

VARIABLES
  outcomes,       \* final_outcome of the Response handoffs, by the marker they carry
  early           \* history: a review was decided before the run that opened it ended

statusVars == <<caseVars, outcomes, early>>

Outcomes == {"approved", "denied", "need_info", "manual_review"}

Shown == {"quarantined", "manual_review", "needs_info", "execution_failed", "rejected",
          "human_approved", "auto_approved", "pending_review"}

------------------------------------------------------------------------------------
(* The answer a Response drafts.  "approved" stands for "partial_refund" too.         *)

\* Without a refund and without a human decision the Policy decision is the answer.
AnswerTo(decision) ==
  CASE decision = "deny"         -> "denied"
    [] decision = "request_info" -> "need_info"
    [] OTHER                     -> "manual_review"

\* A message that lacks its order asks for it, even one that Triage governance blocked.
InitialOutcomes(r) ==
  IF r.decision = "none" THEN {"need_info"} \cup (IF r.paused THEN {"manual_review"} ELSE {})
  ELSE {IF 0 \in refunds THEN "approved" ELSE AnswerTo(r.decision)}

\* A continuation forgets an approval that Policy or Refund has consumed; a denial stays.
ContinuationOutcome(c) ==
  LET own == OwnRows(policyRows, c.appr)
  IN IF appr[c.appr].status = "rejected" THEN "denied"
     ELSE IF c.appr \in refunds THEN "approved"
     ELSE AnswerTo(IF own = {} THEN appr[c.appr].policy ELSE Latest(own).decision)

Answered == Running("response") /\ run'.node \in {"human_approval", "verify"}

AnsweredUnder(w) == req[w].pc = "persist_response" /\ req'[w].pc \in {"response_review", "mark"}

\* A trace has one unclaimed Response handoff, and one more for every claim that wrote one.
TellOutcome ==
  \/ /\ Answered
     /\ \E o \in InitialOutcomes(run) : outcomes' = {[claim |-> NoClaim, outcome |-> o]}
  \/ /\ \E w \in Workers : AnsweredUnder(w)
     /\ outcomes' = outcomes \cup {[claim |-> claim, outcome |-> ContinuationOutcome(claim)]}
  \/ /\ ~Answered /\ \A w \in Workers : ~AnsweredUnder(w)
     /\ UNCHANGED outcomes

StatusInit == CaseInit /\ outcomes = {} /\ early = FALSE

StatusNext ==
  /\ CaseNext
  /\ TellOutcome
  /\ early' = (early \/ (claim' # claim /\ ~Running("end")))

StatusSpec == StatusInit /\ [][StatusNext]_statusVars
------------------------------------------------------------------------------------
(* The projection: the newest generation of every kind of row.                       *)

\* Seeded fault: the oldest handoff speaks for the case.
FinalOutcome_Oldest ==
  IF outcomes = {} THEN "none"
  ELSE (CHOOSE o \in outcomes : \A p \in outcomes : o.claim.seq <= p.claim.seq).outcome

FinalOutcome == IF outcomes = {} THEN "none" ELSE Latest(outcomes).outcome

DecisionType == IF policyRows = {} THEN "none" ELSE Latest(policyRows).decision

\* Everything Refund ever wrote for the trace; the model's executor always succeeds.
RefundSucceeded == refunds # {}

OutcomeSucceeded == FinalOutcome = "approved"

GovernanceEvents ==
  {[stage |-> b.stage, claim |-> b.claim, action |-> "block"] : b \in blocks} \cup
  {[stage |-> "response", claim |-> c, action |-> "allow"] : c \in allowed}

\* Seeded fault: a decided review answers every event of its stage.
Triggered_ByStage(a, e) == e.stage = appr[a].stage

\* Review a was opened for event e.  The event an unclaimed Response replaced keeps its id,
\* and with it its review.
Triggered(a, e) ==
  /\ e.stage = appr[a].stage
  /\ \/ e.claim = appr[a].trigger
     \/ /\ e.claim = NoClaim /\ e.stage = "response"
        /\ \A f \in GovernanceEvents : f.stage = "response" => f.claim # appr[a].trigger

\* What no decided review has answered.
CurrentEvents == {e \in GovernanceEvents : \A a \in Resolved : ~Triggered(a, e)}

\* Policy writes events only for findings: a newer handoff without any is its allowance.
SupersededByAllowance(e) ==
  /\ e.stage = "policy" /\ policyRows # {}
  /\ Latest(policyRows).claim.seq > e.claim.seq
  /\ [stage |-> "policy", claim |-> Latest(policyRows).claim] \notin blocks

EffectiveEvents ==
  {e \in CurrentEvents :
     /\ \A f \in CurrentEvents : f.stage = e.stage => f.claim.seq <= e.claim.seq
     /\ ~SupersededByAllowance(e)}

Blocked == \E e \in EffectiveEvents : e.action = "block"

ApprovedAs == IF Resolved # {} THEN "human_approved" ELSE "auto_approved"

\* _derive_status, first match first.
Status ==
  IF Pending # {} /\ Blocked THEN "quarantined"
  ELSE IF Pending # {} THEN "manual_review"
  ELSE IF FinalOutcome = "need_info" \/ DecisionType = "request_info"
            \/ wf.status = "waiting_user" THEN "needs_info"
  ELSE IF wf.status = "failed" /\ ~(RefundSucceeded \/ OutcomeSucceeded) THEN "execution_failed"
  ELSE IF FinalOutcome = "denied" \/ DecisionType = "deny" THEN "rejected"
  ELSE IF OutcomeSucceeded \/ RefundSucceeded THEN ApprovedAs
  ELSE IF FinalOutcome = "manual_review" \/ DecisionType = "manual_review"
            \/ wf.status = "pending_human" THEN "manual_review"
  ELSE "pending_review"

\* The continuation that wrote the newest answer, if one did.
ResolutionPath ==
  IF responseRows # {} /\ Latest(responseRows).claim # NoClaim THEN "human_approval" ELSE "none"

\* Completion that no person had a part in: neither a decided review nor a continuation.
CompletedWithoutHuman ==
  /\ ResolutionPath = "none"
  /\ Resolved = {}
  /\ wf.status = "completed" /\ Status \in {"auto_approved", "rejected"}

------------------------------------------------------------------------------------
(* Properties.                                                                      *)

StatusTypeOK ==
  /\ CaseTypeOK
  /\ outcomes \subseteq [claim : Claims, outcome : Outcomes]
  /\ {o.claim : o \in outcomes} = {r.claim : r \in responseRows}
  /\ early \in BOOLEAN
  /\ Status \in Shown

ResponseReviewWas(status) ==
  \E a \in Resolved : appr[a].stage = "response" /\ appr[a].status = status

\* The two ways the projection departs from the money or from the workflow: the answer of a
\* paid case was denied by its reviewer, and a question put to the customer was released by
\* one, or overruled.
DeniedAfterRefund == FinalOutcome = "denied" /\ ResponseReviewWas("rejected")
ReleasedQuestion == FinalOutcome = "need_info" /\ ResponseReviewWas("approved")
RefusedQuestion ==
  DecisionType = "request_info" /\ FinalOutcome = "denied"
    /\ \E a \in Resolved : appr[a].status = "rejected"

\* What the queue says of a completed case is what happened to it, whichever of its runs,
\* retries and continuations wrote the rows: approved is paid, rejected is not, it waits for
\* nobody, and it is called automatic exactly if no review was ever opened.
CompletedIsTold ==
  (~early /\ wf.status = "completed" /\ Pending = {}) =>
    /\ CASE Status \in {"auto_approved", "human_approved"} -> RefundSucceeded
         [] Status = "rejected" -> ~RefundSucceeded \/ DeniedAfterRefund
         [] Status = "needs_info" -> RefusedQuestion \/ ReleasedQuestion
         [] OTHER -> FALSE
    /\ CompletedWithoutHuman <=> nAppr = 0

\* A review that a blocking event opened and a reviewer may decide is shown as quarantined:
\* neither an older decided review nor a newer clean generation hides the event.
HeldIsBlocked ==
  (~early /\ \E a \in Decidable, b \in blocks :
                b.stage = appr[a].stage /\ b.claim = appr[a].trigger)
     => Status = "quarantined"

\* A reviewer's decision is applied to what the queue shows: the rows rebuilt for a review
\* that may be decided are the newest of the trace, the Policy decision among them is the
\* one the review was opened for, and the draft a release would send is the one held back,
\* whichever attempts of the run or of an earlier review wrote them.
ReadsWhatWasReviewed ==
  ~early => \A a \in Decidable :
    /\ policyRows # {} => ReadBack(policyRows, a) = Latest(policyRows)
    /\ appr[a].stage = "policy" => ReadBack(policyRows, a).decision = appr[a].policy
    /\ appr[a].stage = "response" =>
         /\ ReadBack(responseRows, a) = Latest(responseRows)
         /\ ReadBack(responseRows, a).blocked
====================================================================================
