------------------------------ MODULE ReviewAmountProofs ------------------------------
(***********************************************************************************)
(* ReviewAmount for amounts of any size: what a decided review pays, what a replay of  *)
(* its request is told, and that no review is a dead end.                               *)
(***********************************************************************************)
EXTENDS ReviewAmount, TLAPS

\* A decided row is what one eligible request made of it.
Settled ==
  Decided =>
    LET d == decided.decision
        n == NextFor(d)
    IN /\ decided \in Requests
       /\ review.status = ResolutionStatus(d) /\ review.decision = d /\ review.by = decided.by
       /\ Eligible(d, decided.amount, n)
       /\ review.resolved_amount = StoredAmount(d, decided.amount, n)

Inv == TypeOK /\ Settled /\ ReplayRecognised

LEMMA DecisionTypes ==
  /\ \A d \in ReviewDecisions : ResolutionStatus(d) \in {"approved", "rejected"}
  /\ \A d \in ReviewDecisions : ResolutionStatus(d) = "approved" <=> d # "deny"
  BY DEF ReviewDecisions, ResolutionStatus

\* An eligible amount is positive and in bounds wherever a refund follows.
LEMMA EligibleAmount ==
  ASSUME TypeOK, NEW r \in Requests, Eligible(r.decision, r.amount, NextFor(r.decision))
  PROVE  StoredAmount(r.decision, r.amount, NextFor(r.decision)) \in Cents \cup {None}
  BY MaxCentsAssumption DEF Requests, Eligible, StoredAmount, Cents

LEMMA InitInv == Init => Inv
<1> SUFFICES ASSUME Init PROVE Inv
  OBVIOUS
<1>1. TypeOK
  BY DEF Init, Pendings, TypeOK
<1>2. ~Decided
  BY DEF Init, Pendings, Decided
<1> QED BY <1>1, <1>2 DEF Init, Inv, Settled, ReplayRecognised

LEMMA DecidePendingInv ==
  ASSUME Inv, NEW r \in Requests, DecidePending(r)
  PROVE  Inv'
<1> DEFINE next == NextFor(r.decision)
<1>1. CASE ~Eligible(r.decision, r.amount, next)
  BY <1>1 DEF DecidePending, Answer, Inv, TypeOK, Settled, Decided, ReplayRecognised
<1>2. CASE Eligible(r.decision, r.amount, next)
  <2>1. /\ review' = [review EXCEPT
             !.status = ResolutionStatus(r.decision), !.decision = r.decision,
             !.resolved_amount = StoredAmount(r.decision, r.amount, next), !.by = r.by]
        /\ decided' = r /\ request' = r /\ answer' = "resolved"
    BY <1>2 DEF DecidePending, Answer
  <2>2. r.decision \in ReviewDecisions /\ r.by \in Signatures
    BY DEF Requests
  <2>3. StoredAmount(r.decision, r.amount, next) \in Cents \cup {None}
    BY <1>2, EligibleAmount DEF Inv
  <2>4. TypeOK'
    BY <2>1, <2>2, <2>3, DecisionTypes DEF Inv, TypeOK
  <2>5. /\ review'.status = ResolutionStatus(r.decision) /\ review'.decision = r.decision
        /\ review'.by = r.by
        /\ review'.resolved_amount = StoredAmount(r.decision, r.amount, next)
        /\ NextFor(r.decision)' = next
        /\ Eligible(r.decision, r.amount, next)' = Eligible(r.decision, r.amount, next)
    BY <2>1 DEF Inv, TypeOK, NextFor, Eligible, FullAmountAvailable, WithinMeans,
                MatchesDecision, FullAmount, Remaining
  <2>6. Settled'
    BY <1>2, <2>1, <2>5 DEF Settled, StoredAmount
  <2> QED BY <2>1, <2>4, <2>6 DEF Inv, ReplayRecognised
<1> QED BY <1>1, <1>2

LEMMA ReplayDecidedInv ==
  ASSUME Inv, NEW r \in Requests, ReplayDecided(r)
  PROVE  Inv'
<1> DEFINE next == NextFor(r.decision)
           dn   == NextFor(decided.decision)
           same == /\ review.status = ResolutionStatus(r.decision)
                   /\ review.decision = r.decision
                   /\ review.resolved_amount = CanonicalReplayAmount(r.decision, r.amount, next)
                   /\ review.by = r.by
<1>1. /\ Decided /\ review' = review /\ decided' = decided /\ request' = r
      /\ answer' = IF same THEN "idempotent" ELSE "conflict"
  BY DEF ReplayDecided, Answer
<1>2. TypeOK' /\ Settled'
  BY <1>1 DEF Inv, TypeOK, Settled, Decided, NextFor, Eligible, FullAmountAvailable,
              WithinMeans, MatchesDecision, FullAmount, Remaining
<1>3. same <=> SameRequest(r, decided)
  <2>1. /\ decided \in Requests /\ review.status = ResolutionStatus(decided.decision)
        /\ review.decision = decided.decision /\ review.by = decided.by
        /\ Eligible(decided.decision, decided.amount, dn)
        /\ review.resolved_amount = StoredAmount(decided.decision, decided.amount, dn)
    BY <1>1 DEF Inv, Settled
  <2>2. CASE r.decision # decided.decision \/ r.by # decided.by
    BY <2>1, <2>2 DEF SameRequest
  <2>3. CASE /\ r.decision = decided.decision /\ r.by = decided.by
             /\ r.decision = "deny" \/ next # "refund_agent"
    <3>1. review.resolved_amount = None /\ decided.amount \in {None, 0}
      BY <2>1, <2>3 DEF StoredAmount, Eligible
    <3>2. CanonicalReplayAmount(r.decision, r.amount, next) = None <=> r.amount \in {None, 0}
      BY <2>3 DEF CanonicalReplayAmount
    <3> QED BY <2>1, <2>3, <3>1, <3>2 DEF SameRequest
  <2>4. CASE /\ r.decision = decided.decision /\ r.by = decided.by
             /\ r.decision # "deny" /\ next = "refund_agent"
    <3>1. review.resolved_amount = decided.amount
      BY <2>1, <2>4 DEF StoredAmount
    <3>2. CanonicalReplayAmount(r.decision, r.amount, next) = r.amount
      BY <2>4 DEF CanonicalReplayAmount
    <3> QED BY <2>1, <2>4, <3>1, <3>2 DEF SameRequest
  <2> QED BY <2>2, <2>3, <2>4
<1>4. SameRequest(r, decided)' = SameRequest(r, decided)
  BY <1>1 DEF SameRequest, NextFor
<1>5. ReplayRecognised'
  BY <1>1, <1>3, <1>4 DEF ReplayRecognised, SameRequest, NextFor
<1> QED BY <1>2, <1>5 DEF Inv

LEMMA NextInv == Inv /\ [Next]_amountVars => Inv'
<1> SUFFICES ASSUME Inv, [Next]_amountVars PROVE Inv'
  OBVIOUS
<1>1. CASE UNCHANGED amountVars
  BY <1>1 DEF amountVars, Inv, TypeOK, Settled, ReplayRecognised, SameRequest, Decided, NextFor,
              Eligible, FullAmountAvailable, WithinMeans, MatchesDecision, FullAmount, Remaining
<1>2. ASSUME NEW r \in Requests, RefuseShape(r) PROVE Inv'
  BY <1>2 DEF RefuseShape, Answer, Inv, TypeOK, Settled, ReplayRecognised, Decided, NextFor,
              Eligible, FullAmountAvailable, WithinMeans, MatchesDecision, FullAmount, Remaining
<1>3. ASSUME NEW r \in Requests, DecidePending(r) PROVE Inv'
  BY <1>3, DecidePendingInv
<1>4. ASSUME NEW r \in Requests, ReplayDecided(r) PROVE Inv'
  BY <1>4, ReplayDecidedInv
<1> QED BY <1>1, <1>2, <1>3, <1>4 DEF Next

LEMMA InvHolds == Spec => []Inv
  BY InitInv, NextInv, PTL DEF Spec

LEMMA MeansOfInv == Inv => AmountWithinMeans
<1> SUFFICES ASSUME Inv, Decided
             PROVE  IF review.status = "approved" /\ review.approved_next = "refund_agent"
                      THEN /\ review.resolved_amount \in 1..Remaining
                           /\ review.amount_requested # None
                                => review.resolved_amount <= review.amount_requested
                      ELSE review.resolved_amount = None
  BY DEF AmountWithinMeans
<1> DEFINE d == decided.decision
           next == NextFor(d)
<1>1. /\ decided \in Requests /\ d \in ReviewDecisions
      /\ review.status = ResolutionStatus(d)
      /\ Eligible(d, decided.amount, next)
      /\ review.resolved_amount = StoredAmount(d, decided.amount, next)
  BY DEF Inv, Settled, Requests
<1>2. Remaining \in Nat
  BY DEF Inv, TypeOK, Remaining, Cents
<1>3. CASE review.status = "approved" /\ review.approved_next = "refund_agent"
  <2>1. d # "deny" /\ next = "refund_agent"
    BY <1>1, <1>3, DecisionTypes DEF NextFor
  <2>2. /\ review.resolved_amount = decided.amount /\ decided.amount # None
        /\ decided.amount > 0 /\ WithinMeans(decided.amount)
    BY <1>1, <2>1 DEF StoredAmount, Eligible
  <2>3. decided.amount \in Int
    BY <1>1, <2>2, MaxCentsAssumption DEF Requests
  <2> QED BY <1>2, <1>3, <2>2, <2>3 DEF WithinMeans
<1>4. CASE ~(review.status = "approved" /\ review.approved_next = "refund_agent")
  <2>1. d = "deny" \/ next # "refund_agent"
    BY <1>1, <1>4, DecisionTypes DEF NextFor, RejectedNextAgent
  <2> QED BY <1>1, <1>4, <2>1 DEF StoredAmount
<1> QED BY <1>3, <1>4

LEMMA NameOfInv == Inv => DecisionNamesAmount
<1> SUFFICES ASSUME Inv, Decided, review.resolved_amount # None
             PROVE  review.decision = "approve" <=> review.resolved_amount = FullAmount
  BY DEF DecisionNamesAmount
<1> DEFINE d == decided.decision
           next == NextFor(d)
<1>1. /\ decided \in Requests /\ d \in ReviewDecisions /\ review.decision = d
      /\ Eligible(d, decided.amount, next)
      /\ review.resolved_amount = StoredAmount(d, decided.amount, next)
  BY DEF Inv, Settled, Requests
<1>2. /\ d # "deny" /\ review.resolved_amount = decided.amount
      /\ MatchesDecision(d, decided.amount)
  BY <1>1 DEF StoredAmount, Eligible
<1>3. d = "approve" \/ d = "partial_refund"
  BY <1>1, <1>2 DEF ReviewDecisions
<1>4. FullAmount \in Int
  BY DEF Inv, TypeOK, FullAmount, Remaining, Cents
<1>5. decided.amount \in Int
  BY <1>1, <1>2, MaxCentsAssumption DEF Requests
<1> QED BY <1>1, <1>2, <1>3, <1>4, <1>5 DEF MatchesDecision

LEMMA DecidableOfInv == Inv => ReviewIsDecidable
<1> SUFFICES ASSUME Inv
             PROVE  /\ ValidShape("deny", None) /\ Eligible("deny", None, NextFor("deny"))
                    /\ (review.approved_next = "refund_agent" /\ Remaining > 0
                           /\ review.amount_requested # 0)
                         => \E d \in {"approve", "partial_refund"}, c \in Cents :
                              ValidShape(d, c) /\ Eligible(d, c, "refund_agent")
  BY DEF ReviewIsDecidable
<1>1. ValidShape("deny", None) /\ Eligible("deny", None, NextFor("deny"))
  BY DEF ValidShape, Eligible
<1>2. /\ Remaining \in Cents
      /\ review.amount_requested \in Cents \cup {None}
  BY MaxCentsAssumption DEF Inv, TypeOK, Remaining, Cents
<1>3. ASSUME Remaining > 0, review.amount_requested # 0
      PROVE  \E d \in {"approve", "partial_refund"}, c \in Cents :
               ValidShape(d, c) /\ Eligible(d, c, "refund_agent")
  \* The whole of the ticket when it is covered, else what is left of the order.
  <2>1. CASE review.amount_requested # None /\ review.amount_requested > Remaining
    <3>1. /\ ValidShape("partial_refund", Remaining)
          /\ Eligible("partial_refund", Remaining, "refund_agent")
      BY <1>2, <1>3, <2>1, MaxCentsAssumption, NoneAssumption
         DEF ValidShape, Eligible, FullAmountAvailable, WithinMeans, MatchesDecision,
             FullAmount, Cents
    <3> QED BY <1>2, <3>1
  <2>2. CASE review.amount_requested = None \/ review.amount_requested <= Remaining
    <3>1. FullAmount \in Cents
      BY <1>2 DEF FullAmount
    <3>2. ValidShape("approve", FullAmount) /\ Eligible("approve", FullAmount, "refund_agent")
      BY <1>2, <1>3, <2>2, MaxCentsAssumption, NoneAssumption
         DEF ValidShape, Eligible, FullAmountAvailable, WithinMeans, MatchesDecision,
             FullAmount, Cents
    <3> QED BY <3>1, <3>2
  <2> QED BY <1>2, <2>1, <2>2, MaxCentsAssumption DEF Cents
<1> QED BY <1>1, <1>3

------------------------------------------------------------------------------------
\* Every variable keeps its type: a decided row never keeps a negative amount, one the
\* column could not hold, or a status no decision leads to.
THEOREM AmountTypes == Spec => []TypeOK
  BY InvHolds, PTL DEF Inv

\* What a decided review hands to Refund is positive and covered by the order and the
\* ticket (_validate_review_amount).
THEOREM AmountIsCovered == Spec => []AmountWithinMeans
  BY InvHolds, MeansOfInv, PTL

\* A full approval and a partial one are told apart by the amount that was kept.
THEOREM AmountIsNamed == Spec => []DecisionNamesAmount
  BY InvHolds, NameOfInv, PTL

\* A decided review recognises its own request, however it writes "no amount", and no
\* other (_canonical_replay_amount).
THEOREM ReplayIsExact == Spec => []ReplayRecognised
  BY InvHolds, PTL DEF Inv

\* Whatever the ticket and the order say, a pending review can be denied, and approved
\* while there is money left to pay.
THEOREM AlwaysDecidable == Spec => []ReviewIsDecidable
  BY InvHolds, DecidableOfInv, PTL
====================================================================================
