--------------------------------- MODULE ReviewAmount ---------------------------------
(***********************************************************************************)
(* The money of a review.  The decision and the amount of a request pass the API's    *)
(* validator, then, for a pending review, the eligibility rules of the repository; a   *)
(* decided review only compares the request with what it stored.  Amounts are whole     *)
(* cents: the columns have two places, and API and repository refuse a finer request.   *)
(***********************************************************************************)
EXTENDS Integers, Routing

CONSTANTS
  None,           \* no amount: SQL NULL, JSON null
  MaxCents,       \* bound: the largest amount a request, a ticket or an order names
  Signatures      \* what reviewer and notes of a request amount to

ASSUME NoneAssumption == None \notin Int
ASSUME MaxCentsAssumption == MaxCents \in Nat

VARIABLES
  review,         \* the human_approvals row and the order it is about
  decided,        \* the request that decided the review
  request,        \* the request answered last
  answer          \* and its answer

amountVars == <<review, decided, request, answer>>

Cents == 0..MaxCents
Requests == [decision : ReviewDecisions, amount : (-1..MaxCents) \cup {None}, by : Signatures]
NoRequest == [decision |-> "none", amount |-> None]

Decided == review.status # "pending"

\* next: the agent this decision of this review leads to.
NextFor(d) ==
  IF ResolutionStatus(d) = "approved" THEN review.approved_next ELSE RejectedNextAgent

\* ApprovalResolutionRequest: what the API lets through.
ValidShape(d, amount) ==
  CASE d = "deny"           -> amount = None
    [] d = "partial_refund" -> amount # None /\ amount > 0
    [] d = "approve"        -> amount = None \/ amount > 0

Remaining == IF review.amount_paid > review.prior_refund_total
               THEN review.amount_paid - review.prior_refund_total ELSE 0

\* What a full refund of this review is.
FullAmount ==
  IF review.amount_requested = None THEN Remaining ELSE review.amount_requested

\* Seeded fault: an over-asked ticket cannot be paid in part either.
FullAmountAvailable_Always(d) == FullAmount <= Remaining

\* A full approval is off when the ticket asks for more than is left of the order.
FullAmountAvailable(d) ==
  (d = "approve" /\ review.amount_requested # None) => review.amount_requested <= Remaining

\* Seeded fault: only the ticket bounds the amount.
WithinMeans_TicketOnly(amount) ==
  review.amount_requested # None => amount <= review.amount_requested

WithinMeans(amount) ==
  /\ amount <= Remaining
  /\ review.amount_requested # None => amount <= review.amount_requested

\* Seeded fault: a partial refund may be the whole.
MatchesDecision_PartialIsFull(d, amount) == d = "approve" => amount = FullAmount

MatchesDecision(d, amount) ==
  /\ d = "approve" => amount = FullAmount
  /\ d = "partial_refund" => amount < FullAmount

\* Seeded fault: the amount need not be positive.
Eligible_Unsigned(d, amount, next) ==
  \/ d = "deny" /\ amount \in {None, 0}
  \/ d # "deny" /\ next # "refund_agent" /\ amount \in {None, 0}
  \/ /\ d # "deny" /\ next = "refund_agent" /\ amount # None
     /\ FullAmountAvailable(d) /\ WithinMeans(amount) /\ MatchesDecision(d, amount)

\* _validate_review_amount: what a pending review may be decided as.
Eligible(d, amount, next) ==
  \/ d = "deny" /\ amount \in {None, 0}
  \/ d = "approve" /\ next # "refund_agent" /\ amount \in {None, 0}
  \/ /\ d # "deny" /\ next = "refund_agent"
     /\ amount # None /\ amount > 0
     /\ FullAmountAvailable(d) /\ WithinMeans(amount) /\ MatchesDecision(d, amount)

\* The amount the row keeps: nothing unless a refund follows.
StoredAmount(d, amount, next) ==
  IF d = "deny" \/ next # "refund_agent" THEN None ELSE amount

\* Seeded fault: a replay is compared without canonicalization of an explicit zero.
CanonicalReplayAmount_Raw(d, amount, next) == amount

CanonicalReplayAmount(d, amount, next) ==
  IF (d = "deny" \/ next # "refund_agent") /\ amount \in {None, 0} THEN None ELSE amount

------------------------------------------------------------------------------------
Answer(r, a) == request' = r /\ answer' = a

\* The API refuses a request before it reaches the service; callers of the service
\* itself skip this test.
RefuseShape(r) ==
  ~ValidShape(r.decision, r.amount) /\ Answer(r, "invalid") /\ UNCHANGED <<review, decided>>

DecidePending(r) ==
  LET next == NextFor(r.decision)
  IN /\ ~Decided
     /\ IF Eligible(r.decision, r.amount, next)
        THEN /\ review' = [review EXCEPT
                  !.status = ResolutionStatus(r.decision), !.decision = r.decision,
                  !.resolved_amount = StoredAmount(r.decision, r.amount, next), !.by = r.by]
             /\ decided' = r
             /\ Answer(r, "resolved")
        ELSE Answer(r, "invalid") /\ UNCHANGED <<review, decided>>

\* A decided review answers the identical request and refuses any other.
ReplayDecided(r) ==
  LET stored    == <<review.status, review.decision, review.resolved_amount, review.by>>
      requested == <<ResolutionStatus(r.decision), r.decision,
                     CanonicalReplayAmount(r.decision, r.amount, NextFor(r.decision)), r.by>>
  IN /\ Decided
     /\ Answer(r, IF stored = requested THEN "idempotent" ELSE "conflict")
     /\ UNCHANGED <<review, decided>>

Pendings ==
  [status : {"pending"}, decision : {"none"}, resolved_amount : {None}, by : Signatures,
   approved_next : ReviewNextAgents, amount_requested : Cents \cup {None},
   amount_paid : Cents, prior_refund_total : Cents]

Init ==
  /\ review \in Pendings
  /\ decided = NoRequest /\ request = NoRequest
  /\ answer = "none"

Next == \E r \in Requests : RefuseShape(r) \/ DecidePending(r) \/ ReplayDecided(r)

Spec == Init /\ [][Next]_amountVars
------------------------------------------------------------------------------------
(* Properties.                                                                      *)

TypeOK ==
  /\ review \in [status : {"pending", "approved", "rejected"},
                 decision : ReviewDecisions \cup {"none"}, resolved_amount : Cents \cup {None},
                 by : Signatures, approved_next : ReviewNextAgents,
                 amount_requested : Cents \cup {None}, amount_paid : Cents,
                 prior_refund_total : Cents]
  /\ decided \in Requests \cup {NoRequest} /\ request \in Requests \cup {NoRequest}
  /\ answer \in {"none", "invalid", "resolved", "idempotent", "conflict"}

\* The amount a decided review hands to Refund is positive, within what is left of the
\* order and what the ticket asked for; a review that leads elsewhere hands over none.
AmountWithinMeans ==
  Decided =>
    IF review.status = "approved" /\ review.approved_next = "refund_agent"
      THEN /\ review.resolved_amount \in 1..Remaining
           /\ review.amount_requested # None
                => review.resolved_amount <= review.amount_requested
      ELSE review.resolved_amount = None

\* "approve" and "partial_refund" mean what they say: a full approval pays everything the
\* ticket (or, silent, the order) names, a partial one strictly less.
DecisionNamesAmount ==
  (Decided /\ review.resolved_amount # None) =>
    (review.decision = "approve" <=> review.resolved_amount = FullAmount)

\* Two requests ask for the same: an amount that pays nothing may be written null or 0.
SameRequest(r, s) ==
  LET unpaid(q) == q.decision = "deny" \/ NextFor(q.decision) # "refund_agent"
  IN /\ r.decision = s.decision /\ r.by = s.by
     /\ r.amount = s.amount \/ (unpaid(r) /\ {r.amount, s.amount} \subseteq {None, 0})

\* "Repeating the exact request is safe because the lifecycle is idempotent"
\* (dashboard_app/api.py), and no other request passes for it.
ReplayRecognised ==
  /\ answer = "idempotent" => SameRequest(request, decided)
  /\ answer = "conflict" => ~SameRequest(request, decided)

\* No review is a dead end: it can be denied through the API and, while the order has
\* money left and the ticket asks for some, its refund can be approved through it.
ReviewIsDecidable ==
  ~Decided =>
    /\ ValidShape("deny", None) /\ Eligible("deny", None, NextFor("deny"))
    /\ (review.approved_next = "refund_agent" /\ Remaining > 0 /\ review.amount_requested # 0)
         => \E d \in {"approve", "partial_refund"}, c \in Cents :
              ValidShape(d, c) /\ Eligible(d, c, "refund_agent")
====================================================================================
