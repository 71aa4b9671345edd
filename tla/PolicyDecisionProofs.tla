---------------------------- MODULE PolicyDecisionProofs ----------------------------
(***********************************************************************************)
(* Proofs about the decisions of Policy, for amounts of any size and fineness, any set of *)
(* rules and any number of precedents: no evidence supports two decisions, none leaves the  *)
(* model without an answer, what Policy approved a reviewer can release in cents, and what    *)
(* is paid without one is covered.                                                            *)
(***********************************************************************************)
EXTENDS PolicyDecision, TLAPS

Acts == ruling.kind \in {"approve", "partial_refund"}

\* What Policy was told, and how it compares with the row and the order.
InputInv ==
  /\ requested \in Amounts \cup {None}
  /\ (phase # "review" \/ ~Decided) => review \in Pendings /\ remaining_value \in RemainingValues

\* What was ruled was accepted, and the row about it names what the customer asked for.
RulingInv ==
  /\ phase \in {"asked", "repairing"} => ruling = NoRuling
  /\ phase = "ruled" => /\ evidence \in CoherentEvidence /\ ruling \in Rulings
                        /\ Accepts(evidence, ruling)
  /\ (phase \in {"automatic", "review"} /\ Acts) =>
       ruling.amount \in Nat \ {0} /\ ValidAmount(ruling)
  /\ (phase = "review" /\ ~Decided /\ Acts /\ review.approved_next = "refund_agent") =>
       review.amount_requested = ColumnCents(requested)

PolicyInv == InputInv /\ RulingInv

------------------------------------------------------------------------------------
(* Cents and parts of a cent.                                                        *)

LEMMA Cancel ==
  ASSUME NEW x \in Int, NEW y \in Int, NEW g \in Nat, g * x < g * y
  PROVE  x < y
<1>1. x >= y => g * x >= g * y
  OBVIOUS
<1> QED BY <1>1

LEMMA Quotient ==
  ASSUME NEW a \in Nat, NEW n \in Nat, n > 0
  PROVE  a \div n \in Nat /\ n * (a \div n) <= a /\ a < n * (a \div n + 1)
OBVIOUS

\* A column stays below every cent the amount does not come within half a cent of, and
\* reaches every cent the amount covers.
LEMMA Column ==
  ASSUME NEW a \in Nat
  PROVE  /\ ColumnCents(a) \in Nat
         /\ \A c \in Nat : 2 * a < 2 * (Grain * c) + Grain => ColumnCents(a) <= c
         /\ \A c \in Nat : Grain * c <= a => c <= ColumnCents(a)
<1> DEFINE q == ColumnCents(a)
<1>1. q \in Nat /\ (2 * Grain) * q <= 2 * a + Grain /\ 2 * a + Grain < (2 * Grain) * (q + 1)
  BY GrainAssumption, Quotient DEF ColumnCents
<1> HIDE DEF q
<1>2. ASSUME NEW c \in Nat, 2 * a < 2 * (Grain * c) + Grain PROVE q <= c
  <2>1. (2 * Grain) * q < (2 * Grain) * (c + 1)
    BY <1>1, <1>2, GrainAssumption
  <2> QED BY <1>1, <2>1, Cancel, GrainAssumption
<1>3. ASSUME NEW c \in Nat, Grain * c <= a PROVE c <= q
  <2>1. (2 * Grain) * c < (2 * Grain) * (q + 1)
    BY <1>1, <1>3, GrainAssumption
  <2> QED BY <1>1, <2>1, Cancel, GrainAssumption
<1> QED BY <1>1, <1>2, <1>3 DEF q

LEMMA ColumnMonotone ==
  ASSUME NEW a \in Nat, NEW b \in Nat, a <= b
  PROVE  ColumnCents(a) <= ColumnCents(b)
<1> DEFINE p == ColumnCents(a)
           q == ColumnCents(b)
<1>1. p \in Nat /\ (2 * Grain) * p <= 2 * a + Grain
  BY GrainAssumption, Quotient DEF ColumnCents
<1>2. q \in Nat /\ 2 * b + Grain < (2 * Grain) * (q + 1)
  BY GrainAssumption, Quotient DEF ColumnCents
<1> HIDE DEF p, q
<1>3. (2 * Grain) * p < (2 * Grain) * (q + 1)
  BY <1>1, <1>2, GrainAssumption
<1>4. p <= q
  BY <1>1, <1>2, <1>3, Cancel, GrainAssumption
<1> QED BY <1>4 DEF p, q

LEMMA MoneyTypes ==
  /\ Amounts \subseteq Nat /\ None \notin Amounts /\ 0 \in Amounts /\ Cents \subseteq Nat
  /\ \A a \in Amounts : ColumnCents(a) \in Cents
<1>1. Grain * MaxCents \in Nat
  BY GrainAssumption, MaxCentsAssumption
<1>2. Amounts \subseteq Nat /\ None \notin Amounts /\ 0 \in Amounts /\ Cents \subseteq Nat
  BY <1>1, NoneAssumption, MaxCentsAssumption DEF Amounts, Cents
<1>3. ASSUME NEW a \in Amounts PROVE ColumnCents(a) \in Cents
  <2>1. a \in Nat /\ a <= Grain * MaxCents
    BY <1>1, <1>3 DEF Amounts
  <2>2. 2 * a < 2 * (Grain * MaxCents) + Grain
    BY <1>1, <2>1, GrainAssumption
  <2> QED BY <2>1, <2>2, Column, MaxCentsAssumption DEF Cents
<1> QED BY <1>2, <1>3

\* The float difference is a cent's part away from what is left, and is not lost with it.
LEMMA RemainingTypes ==
  ASSUME review \in Pendings, remaining_value \in RemainingValues
  PROVE  /\ Remaining \in Cents /\ remaining_value \in Amounts
         /\ remaining_value <= Grain * Remaining + 1
<1>1. /\ Remaining \in Cents
      /\ Remaining # 0 /\ review.prior_refund_total # 0 => Remaining < MaxCents
  BY MaxCentsAssumption DEF Pendings, Remaining, Cents
<1>2. PICK e \in -1..1 : /\ remaining_value = Grain * Remaining + e
                         /\ Remaining = 0 \/ review.prior_refund_total = 0 => e = 0
  BY DEF RemainingValues
<1>3. Remaining \in Nat /\ Remaining <= MaxCents
  BY <1>1, MaxCentsAssumption DEF Cents
<1>4. Grain * Remaining \in Nat /\ Grain * MaxCents \in Nat
  BY <1>3, GrainAssumption, MaxCentsAssumption
<1>5. CASE e = 0
  <2>1. Grain * Remaining <= Grain * MaxCents
    BY <1>3, GrainAssumption, MaxCentsAssumption
  <2> QED BY <1>1, <1>2, <1>4, <1>5, <2>1 DEF Amounts
<1>6. CASE e # 0
  <2>1. 1 <= Remaining /\ Remaining + 1 <= MaxCents
    BY <1>1, <1>2, <1>3, <1>6, MaxCentsAssumption
  <2>2. Grain <= Grain * Remaining /\ Grain * Remaining + Grain <= Grain * MaxCents
    BY <1>3, <2>1, GrainAssumption, MaxCentsAssumption
  <2> QED BY <1>1, <1>2, <1>4, <2>2, GrainAssumption DEF Amounts
<1> QED BY <1>5, <1>6

------------------------------------------------------------------------------------
(* The decision.                                                                     *)

LEMMA EvidenceTypes ==
  ASSUME NEW e \in CoherentEvidence
  PROVE  /\ e \in [supporting : SUBSET Rules, reviewable : BOOLEAN,
                   comparison : Actionable \cup {"none"}, gaps : SUBSET Gaps,
                   required : SUBSET Facts, cited : Citations]
         /\ "R-REVIEW" \in e.supporting => e.reviewable
         /\ Coherent(e)
BY DEF CoherentEvidence, Evidence

\* The confidence of a decision is read off the evidence, not off the decision, once a
\* decisive rule supports all that can be called for.
LEMMA SameConfidence ==
  ASSUME NEW e \in CoherentEvidence, NEW d \in Rulings, NEW o \in Rulings,
         d.support = o.support, Decisive(e),
         d.kind \in Actionable \cup {"manual_review"},
         o.kind \in Actionable \cup {"manual_review"}
  PROVE  Confidence(e, d) = Confidence(e, o)
<1>1. Supported(e, d.kind) /\ Supported(e, o.kind)
  BY DEF Supported, Actionable
<1> QED BY <1>1 DEF Confidence

LEMMA OneDecision ==
  ASSUME NEW e \in CoherentEvidence, NEW d \in Rulings, NEW o \in Rulings,
         d.support = o.support, Accepts(e, d), Accepts(e, o)
  PROVE  o.kind = d.kind
<1>1. CASE Conflict(e) \/ e.reviewable \/ Missing(e) # {} \/ ~Decisive(e)
  BY <1>1 DEF Accepts, CalledFor
<1>2. CASE ~(Conflict(e) \/ e.reviewable \/ Missing(e) # {} \/ ~Decisive(e))
  <2>1. /\ IF d.score = 1 THEN d.kind = "manual_review" ELSE d.kind \in Actionable
        /\ IF o.score = 1 THEN o.kind = "manual_review" ELSE o.kind \in Actionable
    BY <1>2 DEF Accepts, CalledFor
  <2>2. d.score = o.score
    BY <1>2, <2>1, SameConfidence DEF Accepts, ValidConfidence
  <2>3. d.kind \in Actionable /\ o.kind \in Actionable => d.kind = o.kind
    BY DEF Accepts
  <2> QED BY <2>1, <2>2, <2>3
<1> QED BY <1>1, <1>2

\* A decision that is not left to a person owes nothing to the precedents cited for it.
LEMMA WithoutPrecedents ==
  ASSUME NEW e \in CoherentEvidence, NEW d \in Rulings, Accepts(e, d), d.kind # "manual_review"
  PROVE  \E s \in 0..3 :
           Accepts([e EXCEPT !.cited = NoPrecedents], [d EXCEPT !.score = s])
<1> DEFINE f == [e EXCEPT !.cited = NoPrecedents]
           s == Confidence(f, d)
           g == [d EXCEPT !.score = s]
<1>1. /\ f.supporting = e.supporting /\ f.reviewable = e.reviewable
      /\ f.comparison = e.comparison /\ f.gaps = e.gaps /\ f.required = e.required
      /\ f.cited = NoPrecedents
  BY EvidenceTypes
<1>2. g.kind = d.kind /\ g.amount = d.amount /\ g.support = d.support /\ g.score = s
  BY DEF Rulings
<1> HIDE DEF f, g
<1>3. /\ Missing(f) = Missing(e) /\ Conflict(f) = Conflict(e) /\ Decisive(f) = Decisive(e)
      /\ \A k : Supported(f, k) = Supported(e, k)
  BY <1>1 DEF Missing, Conflict, Decisive, Supported
<1>4. Assessment(f.cited) = "none_relevant"
  BY <1>1 DEF Assessment, NoPrecedents
<1>5. s \in 0..3 /\ s = Confidence(f, g)
  BY <1>2 DEF Confidence
<1>6. ~(Conflict(e) \/ e.reviewable)
  BY DEF Accepts, CalledFor
<1>7. CASE Missing(e) # {}
  BY <1>1, <1>2, <1>3, <1>5, <1>6, <1>7 DEF Accepts, CalledFor, ValidConfidence, ValidAmount, Coherent, f, g
<1>8. CASE Missing(e) = {}
  <2>1. Decisive(e) /\ d.kind \in Actionable /\ d.score # 1 /\ d.score = Confidence(e, d)
    BY <1>6, <1>8 DEF Accepts, CalledFor, ValidConfidence
  <2>2. Supported(e, d.kind) /\ d.support # "weak"
    BY <1>8, <2>1 DEF Supported, Actionable, Confidence
  <2>3. s # 1
    BY <1>3, <1>4, <1>6, <1>8, <2>2 DEF Confidence
  <2> QED BY <1>1, <1>2, <1>3, <1>5, <1>6, <1>8, <2>1, <2>3
          DEF Accepts, CalledFor, ValidConfidence, ValidAmount, Coherent, f, g
<1> QED BY <1>7, <1>8

------------------------------------------------------------------------------------
(* The answer there always is.                                                       *)

\* The decision that the evidence calls for, with the confidence it has, is accepted.
LEMMA Answered ==
  ASSUME NEW e \in CoherentEvidence, NEW kind \in Decisions, NEW amount \in Amounts,
         "missing_fact" \in e.gaps => Missing(e) # {},
         NEW support \in {"clear", "none"}, support = "none" <=> ~Supported(e, kind),
         NEW score \in 0..3,
         NEW d, d = [kind |-> kind, amount |-> amount, score |-> score, support |-> support],
         score = Confidence(e, d), WellFormed(d), ValidAmount(d), CalledFor(e, d),
         kind \in Actionable => kind = e.comparison
  PROVE  \E r \in Rulings : Accepts(e, r)
<1>1. d \in Rulings
  BY DEF Rulings
<1>2. Accepts(e, d)
  BY EvidenceTypes DEF Accepts, ValidConfidence
<1> QED BY <1>1, <1>2

LEMMA AnswersExist ==
  ASSUME requested \in Amounts \cup {None}, remaining_value \in Amounts,
         NEW e \in CoherentEvidence,
         ("missing_fact" \in e.gaps) <=> (Missing(e) # {}), "low_confidence" \in e.gaps,
         ~(e.comparison = "approve" /\ ({requested, remaining_value} \cap {None, 0} # {}))
  PROVE  \E d \in Rulings : Accepts(e, d)
<1> DEFINE Support(kind) == IF Supported(e, kind) THEN "clear" ELSE "none"
           Draft(kind, amount, score) ==
             [kind |-> kind, amount |-> amount, score |-> score, support |-> Support(kind)]
<1>0. 0 \in Amounts
  BY MoneyTypes
<1>1. CASE Conflict(e) \/ e.reviewable
  <2> DEFINE score == Confidence(e, Draft("manual_review", 0, 0))
             d == Draft("manual_review", 0, score)
  <2>1. score \in 0..3 /\ score = Confidence(e, d)
    BY DEF Confidence
  <2> HIDE DEF score
  <2>2. WellFormed(d) /\ ValidAmount(d) /\ CalledFor(e, d) /\ "manual_review" \in Decisions
    BY <1>1 DEF WellFormed, ValidAmount, CalledFor, Actionable, Decisions
  <2> QED BY <1>0, <2>1, <2>2, Answered DEF Actionable
<1>2. CASE ~(Conflict(e) \/ e.reviewable) /\ Missing(e) # {}
  <2> DEFINE d == Draft("request_info", 0, 0)
  <2>1. 0 = Confidence(e, d)
    BY <1>2 DEF Confidence
  <2>2. WellFormed(d) /\ ValidAmount(d) /\ CalledFor(e, d) /\ "request_info" \in Decisions
    BY <1>2 DEF WellFormed, ValidAmount, CalledFor, Actionable, Decisions
  <2> QED BY <1>0, <2>1, <2>2, Answered DEF Actionable
<1>3. CASE ~(Conflict(e) \/ e.reviewable) /\ Missing(e) = {} /\ ~Decisive(e)
  <2> DEFINE d == Draft("manual_review", 0, 0)
  <2>1. ~Supported(e, "manual_review")
    BY <1>3, EvidenceTypes DEF Supported
  <2>2. 0 = Confidence(e, d)
    BY <2>1 DEF Confidence
  <2>3. WellFormed(d) /\ ValidAmount(d) /\ CalledFor(e, d) /\ "manual_review" \in Decisions
    BY <1>3 DEF WellFormed, ValidAmount, CalledFor, Actionable, Decisions
  <2> QED BY <1>0, <2>2, <2>3, Answered DEF Actionable
<1>4. CASE ~(Conflict(e) \/ e.reviewable) /\ Missing(e) = {} /\ Decisive(e)
  <2>1. e.comparison \in {"approve", "deny"}
    BY <1>4, EvidenceTypes DEF Decisive, Effect, Actionable
  <2>2. Supported(e, "manual_review") /\ Supported(e, e.comparison)
    BY <1>4, <2>1 DEF Supported
  <2> DEFINE score == Confidence(e, Draft("manual_review", 0, 0))
  <2>3. /\ score \in 1..3 /\ score = Confidence(e, Draft("manual_review", 0, score))
        /\ \A m : score = Confidence(e, Draft(e.comparison, m, score))
    BY <1>4, <2>2 DEF Confidence
  <2> HIDE DEF score
  <2>4. CASE score = 1
    <3> DEFINE d == Draft("manual_review", 0, score)
    <3>1. WellFormed(d) /\ ValidAmount(d) /\ CalledFor(e, d) /\ "manual_review" \in Decisions
      BY <1>4, <2>4 DEF WellFormed, ValidAmount, CalledFor, Actionable, Decisions
    <3> QED BY <1>0, <2>3, <3>1, Answered DEF Actionable
  <2>5. CASE score # 1 /\ e.comparison = "deny"
    <3> DEFINE d == Draft("deny", 0, score)
    <3>1. WellFormed(d) /\ ValidAmount(d) /\ CalledFor(e, d) /\ "deny" \in Decisions
      BY <1>4, <2>3, <2>5 DEF WellFormed, ValidAmount, CalledFor, Actionable, Decisions
    <3> QED BY <1>0, <2>3, <2>5, <3>1, Answered
  <2>6. CASE score # 1 /\ e.comparison = "approve"
    <3>1. requested \in Amounts \ {0} /\ remaining_value \in Amounts \ {0} /\ requested # None
      BY <2>6
    <3> DEFINE amount == IF requested <= remaining_value THEN requested ELSE remaining_value
               d == Draft("approve", amount, score)
    <3>4. amount \in Amounts /\ amount > 0 /\ amount <= requested /\ amount <= remaining_value
      BY <3>1, MoneyTypes
    <3> HIDE DEF amount
    <3>5. WellFormed(d) /\ CalledFor(e, d) /\ "approve" \in Decisions
      BY <1>4, <2>3, <2>6, <3>4 DEF WellFormed, CalledFor, Actionable, Decisions
    <3>6. ValidAmount(d)
      BY <3>1, <3>4 DEF ValidAmount
    <3> QED BY <2>3, <2>6, <3>4, <3>5, <3>6, Answered
  <2> QED BY <2>1, <2>4, <2>5, <2>6
<1> QED BY <1>1, <1>2, <1>3, <1>4

------------------------------------------------------------------------------------
(* The invariant.                                                                    *)

LEMMA InitPolicy == PolicyInit => PolicyInv
BY AskedAssumption DEF PolicyInit, Init, PolicyInv, InputInv, RulingInv, NoRuling, Amounts

\* A ruling that acts carries an amount.
LEMMA RuledAmount ==
  ASSUME NEW d \in Rulings, d.kind \in {"approve", "partial_refund"}
  PROVE  d.amount \in Nat \ {0}
<1>1. d.amount \in Nat /\ d.amount > 0
  BY MoneyTypes DEF Rulings, WellFormed
<1> QED BY <1>1

\* A row that is opened is about the same order and names an amount of its stage.
LEMMA OpenReviewKeeps ==
  ASSUME InputInv, phase # "review", NEW stage \in Stages, NEW kind, OpenReview(stage, kind)
  PROVE  /\ InputInv' /\ phase' = "review"
         /\ review'.approved_next = ApprovedNextAgent(stage, RouteName(kind))
         /\ (stage = "policy" /\ requested # None) =>
              review'.amount_requested = ColumnCents(requested)
         /\ \A d : ValidAmount(d)' = ValidAmount(d)
<1>1. PICK amount \in RowAmounts(stage) :
         review' = [review EXCEPT !.amount_requested = amount,
                                  !.approved_next = ApprovedNextAgent(stage, RouteName(kind))]
  BY DEF OpenReview
<1>2. /\ requested \in Amounts \cup {None} /\ review \in Pendings
      /\ remaining_value \in RemainingValues
  BY DEF InputInv
<1>3. amount \in Cents \cup {None}
  BY <1>2, MoneyTypes DEF RowAmounts
<1>4. ApprovedNextAgent(stage, RouteName(kind)) \in ReviewNextAgents
  BY DEF ApprovedNextAgent, Stages, ReviewNextAgents
<1>5. /\ review' \in Pendings
      /\ review'.amount_requested = amount
      /\ review'.approved_next = ApprovedNextAgent(stage, RouteName(kind))
      /\ review'.amount_paid = review.amount_paid
      /\ review'.prior_refund_total = review.prior_refund_total
  BY <1>1, <1>2, <1>3, <1>4 DEF Pendings
<1>6. RemainingValues' = RemainingValues
  BY <1>5 DEF RemainingValues, Remaining
<1>7. UNCHANGED <<requested, remaining_value>> /\ phase' = "review"
  BY DEF OpenReview, inputVars
<1>8. InputInv'
  BY <1>2, <1>5, <1>6, <1>7 DEF InputInv
<1>9. \A d : ValidAmount(d)' = ValidAmount(d)
  BY <1>7 DEF ValidAmount
<1>10. (stage = "policy" /\ requested # None) => amount = ColumnCents(requested)
  BY DEF RowAmounts
<1> QED BY <1>5, <1>7, <1>8, <1>9, <1>10

\* A request either decides the review or leaves the row alone.
LEMMA ResolveKeeps ==
  ASSUME PolicyInv, Resolve
  PROVE  PolicyInv'
<1>0. phase = "review" /\ UNCHANGED policyVars /\ Next
  BY DEF Resolve
<1>1. PICK r \in Requests : RefuseShape(r) \/ DecidePending(r) \/ ReplayDecided(r)
  BY <1>0 DEF Next
<1>2. review' = review \/ Decided'
  <2>1. CASE RefuseShape(r) \/ ReplayDecided(r)
    BY <2>1 DEF RefuseShape, ReplayDecided
  <2>2. CASE DecidePending(r)
    <3>1. review \in Pendings
      BY <2>2 DEF PolicyInv, InputInv, DecidePending
    <3>2. review' = review \/ review'.status = ResolutionStatus(r.decision)
      BY <2>2, <3>1 DEF DecidePending, Pendings
    <3>3. ResolutionStatus(r.decision) \in {"approved", "rejected"}
      BY DEF ResolutionStatus
    <3> QED BY <3>1, <3>2, <3>3 DEF Decided
  <2> QED BY <1>1, <2>1, <2>2
<1>3. UNCHANGED <<phase, evidence, ruling, requested, remaining_value>>
  BY <1>0 DEF policyVars, inputVars
<1>4. Acts' = Acts /\ ValidAmount(ruling)' = ValidAmount(ruling)
      /\ ColumnCents(requested)' = ColumnCents(requested)
  BY <1>3 DEF Acts, ValidAmount, ColumnCents
<1>5. CASE review' = review
  <2>1. RemainingValues' = RemainingValues /\ Decided' = Decided
    BY <1>5 DEF RemainingValues, Remaining, Decided
  <2> QED BY <1>0, <1>3, <1>4, <1>5, <2>1 DEF PolicyInv, InputInv, RulingInv
<1>6. CASE Decided'
  BY <1>0, <1>3, <1>4, <1>6 DEF PolicyInv, InputInv, RulingInv
<1> QED BY <1>2, <1>5, <1>6

LEMMA GovernKeeps ==
  ASSUME PolicyInv, Govern
  PROVE  PolicyInv'
<1>1. /\ phase = "ruled" /\ InputInv /\ ruling \in Rulings /\ ValidAmount(ruling)
      /\ ruling' = [kind |-> ruling.kind, amount |-> ruling.amount]
  BY DEF PolicyInv, RulingInv, Govern, Accepts
<1>2. ruling'.kind = ruling.kind /\ ruling'.amount = ruling.amount
  BY <1>1
<1>3. Acts' => ruling'.amount \in Nat \ {0} /\ Acts
  BY <1>1, <1>2, RuledAmount DEF Acts
<1>4. CASE phase' = "automatic" /\ UNCHANGED <<amountVars, inputVars>>
  <2>1. UNCHANGED <<review, requested, remaining_value>>
    BY <1>4 DEF amountVars, inputVars
  <2>2. ValidAmount(ruling)'
    BY <1>1, <1>2, <2>1 DEF ValidAmount
  <2>3. InputInv'
    BY <1>1, <1>4, <2>1 DEF InputInv, RemainingValues, Remaining, Decided
  <2> QED BY <1>3, <1>4, <2>2, <2>3 DEF PolicyInv, RulingInv
<1>5. CASE OpenReview("policy", ruling.kind)
  <2>1. /\ InputInv' /\ phase' = "review"
        /\ requested # None => review'.amount_requested = ColumnCents(requested)
    BY <1>1, <1>5, OpenReviewKeeps DEF Stages
  <2>2. UNCHANGED <<requested, remaining_value>>
    BY <1>5 DEF OpenReview, inputVars
  <2>3. ValidAmount(ruling)'
    BY <1>1, <1>2, <2>2 DEF ValidAmount
  <2>4. Acts => requested # None
    BY <1>1 DEF ValidAmount, Acts
  <2> QED BY <1>3, <2>1, <2>2, <2>3, <2>4 DEF PolicyInv, RulingInv, ColumnCents
<1> QED BY <1>1, <1>4, <1>5 DEF Govern

\* Triage's review precedes the ruling, and Response's never leads to a refund.
LEMMA HoldElsewhereKeeps ==
  ASSUME PolicyInv, HoldElsewhere
  PROVE  PolicyInv'
<1>1. PICK stage \in {"triage", "response"}, kind \in {"manual_review", ruling.kind} :
        /\ OpenReview(stage, kind) /\ UNCHANGED <<evidence, ruling>>
        /\ phase = IF stage = "triage" THEN "asked" ELSE "automatic"
  BY DEF HoldElsewhere
<1>2. /\ InputInv' /\ phase' = "review" /\ ValidAmount(ruling)' = ValidAmount(ruling)
      /\ review'.approved_next = ApprovedNextAgent(stage, RouteName(kind))
  <2>1. /\ InputInv' /\ phase' = "review" /\ \A d : ValidAmount(d)' = ValidAmount(d)
        /\ review'.approved_next = ApprovedNextAgent(stage, RouteName(kind))
    BY <1>1, OpenReviewKeeps DEF PolicyInv, Stages
  <2>2. UNCHANGED <<requested, remaining_value, ruling>>
    BY <1>1 DEF OpenReview, inputVars
  <2> QED BY <2>1, <2>2 DEF ValidAmount
<1>3. review'.approved_next # "refund_agent"
  BY <1>2 DEF ApprovedNextAgent
<1>4. Acts' = Acts /\ (Acts => phase = "automatic")
  BY <1>1 DEF Acts, PolicyInv, RulingInv, NoRuling
<1> QED BY <1>1, <1>2, <1>3, <1>4 DEF PolicyInv, RulingInv

LEMMA StepPolicy == PolicyInv /\ [PolicyNext]_<<amountVars, policyVars>> => PolicyInv'
<1> SUFFICES ASSUME PolicyInv, [PolicyNext]_<<amountVars, policyVars>> PROVE PolicyInv'
  OBVIOUS
<1>1. CASE UNCHANGED <<amountVars, policyVars>>
  BY <1>1 DEF amountVars, policyVars, inputVars, PolicyInv, InputInv, RulingInv, Acts, Decided,
     Accepts, CalledFor, ValidAmount, Remaining, RemainingValues, ValidConfidence, Confidence,
     Missing
<1>2. CASE Rule
  <2>1. PICK e \in CoherentEvidence, d \in Rulings :
          Accepts(e, d) /\ evidence' = e /\ ruling' = d
    BY <1>2 DEF Rule
  <2>2. /\ UNCHANGED <<review, absent, requested, remaining_value>>
        /\ phase' = "ruled" /\ phase # "review"
    BY <1>2 DEF Rule, amountVars, inputVars
  <2>3. Accepts(evidence, ruling)'
    BY <2>1, <2>2 DEF Accepts, CalledFor, ValidAmount, ValidConfidence,
       Confidence, Missing, Coherent, Conflict, Decisive, Supported
  <2>4. InputInv'
    BY <2>2 DEF PolicyInv, InputInv, RemainingValues, Remaining, Decided
  <2> QED BY <2>1, <2>2, <2>3, <2>4 DEF PolicyInv, RulingInv
<1>3. CASE Refuse
  <2>1. /\ UNCHANGED <<review, requested, remaining_value, evidence, ruling>>
        /\ phase \in {"asked", "repairing"} /\ phase' \in {"repairing", "failed"}
    BY <1>3 DEF Refuse, amountVars, inputVars
  <2>2. InputInv'
    BY <2>1 DEF PolicyInv, InputInv, RemainingValues, Remaining, Decided
  <2> QED BY <2>1, <2>2 DEF PolicyInv, RulingInv
<1>4. CASE Govern
  BY <1>4, GovernKeeps
<1>5. CASE HoldElsewhere
  BY <1>5, HoldElsewhereKeeps
<1>6. CASE Resolve
  BY <1>6, ResolveKeeps
<1> QED BY <1>1, <1>2, <1>3, <1>4, <1>5, <1>6 DEF PolicyNext

LEMMA PolicyInvHolds == PolicySpec => []PolicyInv
BY InitPolicy, StepPolicy, PTL DEF PolicySpec

------------------------------------------------------------------------------------
(* The theorems.                                                                     *)

\* The language model has no say in the decision: the validators accept one kind for the
\* evidence and its reading, and one that acts or asks would pass without any precedent.
THEOREM RulesDecide == PolicySpec => []RulingRestsOnRules
<1>1. PolicyInv => RulingRestsOnRules
  BY OneDecision, WithoutPrecedents DEF PolicyInv, RulingInv, RulingRestsOnRules
<1> QED BY <1>1, PolicyInvHolds, PTL

\* Evidence that states its gaps has an answer the validators take, unless it speaks for a
\* refund and there is none to pay.
THEOREM ModelCanAnswer == PolicySpec => []AnswerExists
<1>1. PolicyInv => AnswerExists
  <2> SUFFICES ASSUME PolicyInv, phase = "asked", NEW e \in CoherentEvidence,
                      ("missing_fact" \in e.gaps) <=> (Missing(e) # {}),
                      "low_confidence" \in e.gaps,
                      ~(e.comparison = "approve"
                        /\ ({requested, remaining_value} \cap {None, 0} # {}))
               PROVE  \E d \in Rulings : Accepts(e, d)
    BY DEF AnswerExists
  <2>1. requested \in Amounts \cup {None} /\ remaining_value \in Amounts
    BY RemainingTypes DEF PolicyInv, InputInv
  <2> QED BY <2>1, AnswersExist
<1> QED BY <1>1, PolicyInvHolds, PTL

\* Of what Policy approved and a finding held, a reviewer can release every whole cent: the
\* float bounds of the validators are, cent for cent, those of the review.
THEOREM RulingsCanBeReleased == PolicySpec => []ReleasableInCents
<1>1. PolicyInv => ReleasableInCents
  <2> SUFFICES ASSUME PolicyInv, phase = "review", ~Decided, Acts,
                      review.approved_next = "refund_agent",
                      NEW cents \in Cents \ {0}, Grain * cents <= ruling.amount
               PROVE  \E d \in {"approve", "partial_refund"} :
                        ValidShape(d, cents) /\ Eligible(d, cents, NextFor(d))
    BY DEF ReleasableInCents, Acts
  <2> DEFINE asked == review.amount_requested
  <2>1. /\ ruling.amount \in Nat /\ requested \in Amounts /\ asked = ColumnCents(requested)
        /\ ruling.amount <= requested /\ ruling.amount <= remaining_value
        /\ review \in Pendings /\ remaining_value \in RemainingValues
    BY DEF PolicyInv, InputInv, RulingInv, ValidAmount, Acts
  <2>2. /\ cents \in Nat /\ cents > 0 /\ cents # None /\ requested \in Nat
        /\ Remaining \in Nat /\ remaining_value \in Nat
        /\ remaining_value <= Grain * Remaining + 1
    <3>1. requested \in Nat /\ cents \in Nat /\ cents # 0
      BY <2>1, MoneyTypes
    <3>2. /\ Remaining \in Nat /\ remaining_value \in Nat
          /\ remaining_value <= Grain * Remaining + 1
      BY <2>1, MoneyTypes, RemainingTypes
    <3> QED BY <3>1, <3>2, NoneAssumption
  \* The float difference may be a part of a cent too much, which makes no cent.
  <2>3. cents <= Remaining
    <3>1. Grain * cents < Grain * (Remaining + 1)
      BY <2>1, <2>2, GrainAssumption
    <3> QED BY <2>2, <3>1, Cancel, GrainAssumption
  <2>4. Grain * cents <= requested
    BY <2>1, <2>2, GrainAssumption
  <2>5. asked \in Nat /\ asked # None /\ cents <= asked
    BY <2>1, <2>2, <2>4, Column, NoneAssumption
  <2>6. NextFor("approve") = "refund_agent" /\ NextFor("partial_refund") = "refund_agent"
    BY DEF NextFor, ResolutionStatus
  <2>7. CASE cents = asked
    <3>1. ValidShape("approve", cents) /\ Eligible("approve", cents, "refund_agent")
      BY <2>2, <2>3, <2>5, <2>7 DEF ValidShape, Eligible, FullAmountAvailable, WithinMeans,
                                    MatchesDecision, FullAmount
    <3> QED BY <2>6, <3>1
  <2>8. CASE cents < asked
    <3>1. /\ ValidShape("partial_refund", cents)
          /\ Eligible("partial_refund", cents, "refund_agent")
      BY <2>2, <2>3, <2>5, <2>8 DEF ValidShape, Eligible, FullAmountAvailable, WithinMeans,
                                    MatchesDecision, FullAmount
    <3> QED BY <2>6, <3>1
  <2> QED BY <2>2, <2>5, <2>7, <2>8
<1> QED BY <1>1, PolicyInvHolds, PTL

\* What is paid without a person, as the database records it, is covered by the order and
\* by what the customer asked for, for floats of any fineness and amounts of any size.
THEOREM PaymentsAreCovered == PolicySpec => []PaymentIsCovered
<1>1. PolicyInv => PaymentIsCovered
  <2> SUFFICES ASSUME PolicyInv, phase = "automatic", Acts
               PROVE  /\ ColumnCents(ruling.amount) <= Remaining
                      /\ ColumnCents(ruling.amount) <= ColumnCents(requested)
    BY DEF PaymentIsCovered, Acts
  <2> DEFINE amount == ruling.amount
  <2>1. /\ amount \in Nat /\ requested \in Amounts
        /\ amount <= requested /\ amount <= remaining_value
        /\ review \in Pendings /\ remaining_value \in RemainingValues
    BY DEF PolicyInv, InputInv, RulingInv, ValidAmount, Acts
  <2>2. /\ requested \in Nat /\ Remaining \in Nat /\ remaining_value \in Nat
        /\ remaining_value <= Grain * Remaining + 1
    BY <2>1, MoneyTypes, RemainingTypes
  <2> HIDE DEF amount
  <2>3. 2 * amount < 2 * (Grain * Remaining) + Grain
    BY <2>1, <2>2, GrainAssumption
  <2>4. ColumnCents(amount) <= Remaining
    BY <2>1, <2>2, <2>3, Column
  <2>5. ColumnCents(amount) <= ColumnCents(requested)
    BY <2>1, <2>2, ColumnMonotone
  <2> QED BY <2>4, <2>5 DEF amount
<1> QED BY <1>1, PolicyInvHolds, PTL
====================================================================================
