------------------------------- MODULE PolicyDecision -------------------------------
(***********************************************************************************)
(* Where a decision comes from, down to the review it may need.  A language model       *)
(* answers with a decision and the evidence for it; deterministic validators refuse      *)
(* every answer the evidence does not support, one repair is allowed, and what passes is  *)
(* paid, told to the customer or held for a reviewer.  The order is that of ReviewAmount,  *)
(* so what Policy may decide meets what a reviewer may release.  Policy reckons in floats,  *)
(* which can be finer than a cent and off by their rounding; the review and the columns of   *)
(* the database hold whole cents.                                                            *)
(***********************************************************************************)
EXTENDS ReviewAmount

CONSTANTS
  Rules,          \* the kinds of rules in the knowledge base
  Citations,      \* bound: the relevant precedents an answer cites, <<agreeing, disagreeing>>
  Grain,          \* bound: the parts of a cent an amount of Policy is measured in
  Asked           \* bound: the amounts customers name, in such parts

RuleKinds == {"R-APPROVE", "R-DENY", "R-REVIEW", "R-REQUEST"}

ASSUME RulesAssumption == Rules \subseteq RuleKinds
ASSUME CitationsAssumption == Citations \subseteq Nat \X Nat /\ <<0, 0>> \in Citations
\* One part is also what a float subtraction may be off by: less than half a cent.
ASSUME GrainAssumption == Grain \in Nat /\ Grain > 2
ASSUME AskedAssumption == Asked \subseteq 0..(Grain * MaxCents)

VARIABLES
  phase,          \* how far the Policy stage of the case is
  absent,         \* facts the customer did not give
  requested,      \* the amount Triage read from the message, a float
  remaining_value, \* what Policy takes to be left of the order, a float
  evidence,       \* the evidence the model's answer lists, once the answer passed
  ruling          \* and the decision it draws

inputVars == <<absent, requested, remaining_value>>

policyVars == <<phase, inputVars, evidence, ruling>>

Phases == {"asked", "repairing", "ruled", "automatic", "review", "failed"}

Facts == {"requested_amount", "refund_reason"}

Actionable == {"approve", "deny", "partial_refund"}

Decisions == Actionable \cup {"request_info", "manual_review"}

Gaps == {"missing_fact", "policy_conflict", "low_confidence"}

NoEvidence == [supporting |-> {}]

NoRuling == [kind |-> "none", amount |-> 0]

NoPrecedents == <<0, 0>>

\* Floats, in parts of a cent.
Amounts == 0..(Grain * MaxCents)

\* What a DECIMAL(10,2) column keeps of a float: the nearest cent, halves rounded up.
ColumnCents(amount) == (2 * amount + Grain) \div (2 * Grain)

\* Floats hold the order's two amounts as read, but not their difference: 0.30 - 0.10 is
\* less than 0.20.  It is exact where nothing was refunded before or nothing is left.
RemainingValues ==
  LET error == IF Remaining = 0 \/ review.prior_refund_total = 0 THEN {0} ELSE -1..1
  IN {Grain * Remaining + e : e \in error}

------------------------------------------------------------------------------------
(* The answer: the evidence it lists and the decision it draws.                      *)

\* Supporting rules are applied ones; of the others only a review rule has a consequence.
Evidence ==
  {e \in [supporting : SUBSET Rules, reviewable : BOOLEAN, comparison : Actionable \cup {"none"},
          gaps : SUBSET Gaps, required : SUBSET Facts, cited : Citations] :
     "R-REVIEW" \in e.supporting => e.reviewable}

\* What PolicyDecision admits whatever the evidence: confidence 2 or 3 to act, 0 to ask,
\* and an amount where money moves.
WellFormed(d) ==
  /\ d.kind \in Actionable => d.score >= 2
  /\ d.kind = "request_info" => d.score = 0
  /\ d.amount > 0 <=> d.kind \in {"approve", "partial_refund"}

Rulings ==
  {d \in [kind : Decisions, amount : Amounts, score : 0..3,
          support : {"clear", "minor_ambiguity", "weak", "none"}] : WellFormed(d)}

\* The decision a rule speaks for; no kind of rule speaks for a partial refund.
Effect(rule) ==
  CASE rule = "R-APPROVE" -> "approve"
    [] rule = "R-DENY"    -> "deny"
    [] OTHER              -> "requires_review"

Missing(e) == e.required \cap absent

Conflict(e) == "policy_conflict" \in e.gaps

Decisive(e) == \E r \in e.supporting : Effect(r) = e.comparison

\* The comparison decision is what the supporting rules speak for, and without one no
\* precedent can be cited.
Coherent(e) ==
  /\ \A r \in e.supporting : Effect(r) \in {e.comparison, "requires_review"}
  /\ e.comparison = "none" => e.cited = NoPrecedents

CoherentEvidence == {e \in Evidence : Coherent(e)}

\* Seeded fault: only a review rule supports a manual review.
Supported_ReviewRule(e, kind) ==
  CASE kind = "request_info"  -> "R-REQUEST" \in e.supporting
    [] kind = "manual_review" -> "R-REVIEW" \in e.supporting
    [] OTHER                  -> Decisive(e)

Supported(e, kind) ==
  CASE kind = "request_info"  -> "R-REQUEST" \in e.supporting
    [] kind = "manual_review" -> "R-REVIEW" \in e.supporting \/ Decisive(e)
    [] OTHER                  -> Decisive(e)

\* Three relevant precedents of which two thirds disagree weigh as much as a conflict.
Assessment(cited) ==
  LET agree == cited[1]
      contradict == cited[2]
  IN CASE agree + contradict = 0 -> "none_relevant"
       [] agree > 0 /\ contradict = 0 -> "supportive"
       [] contradict > 0 /\ agree + contradict >= 3
            /\ 3 * contradict >= 2 * (agree + contradict) -> "strongly_disagrees"
       [] OTHER -> "mixed"

\* The confidence the validators compute and the answer has to report.
Confidence(e, d) ==
  IF Missing(e) # {} \/ ~Supported(e, d.kind) THEN 0
  ELSE IF Conflict(e) \/ d.support = "weak" \/ Assessment(e.cited) = "strongly_disagrees" THEN 1
  ELSE IF d.support = "minor_ambiguity" \/ Assessment(e.cited) = "mixed" THEN 2
  ELSE 3

ValidConfidence(e, d) ==
  /\ d.score = Confidence(e, d)
  /\ d.support = "none" <=> ~Supported(e, d.kind)

\* Seeded fault: the order's earlier refunds are not deducted.
ValidAmount_Gross(d) ==
  d.kind \in {"approve", "partial_refund"} =>
    /\ requested # None
    /\ d.amount <= requested /\ d.amount <= Grain * review.amount_paid
    /\ d.kind = "partial_refund" => d.amount < requested

\* Seeded fault: either bound is enough.
ValidAmount_EitherBound(d) ==
  d.kind \in {"approve", "partial_refund"} =>
    /\ requested # None
    /\ d.amount <= requested \/ d.amount <= remaining_value
    /\ d.kind = "partial_refund" => d.amount < requested

ValidAmount(d) ==
  d.kind \in {"approve", "partial_refund"} =>
    /\ requested # None
    /\ d.amount <= requested /\ d.amount <= remaining_value
    /\ d.kind = "partial_refund" => d.amount < requested

\* Seeded fault: clear evidence may still be left to a person.
CalledFor_MayDefer(e, d) ==
  IF Conflict(e) \/ e.reviewable THEN d.kind = "manual_review"
  ELSE IF Missing(e) # {} THEN d.kind = "request_info" /\ "missing_fact" \in e.gaps
  ELSE ~Decisive(e) => d.kind = "manual_review" /\ d.score = 0 /\ "low_confidence" \in e.gaps

\* The decision the evidence calls for, in order of precedence, and the gap that explains it.
CalledFor(e, d) ==
  IF Conflict(e) \/ e.reviewable THEN d.kind = "manual_review"
  ELSE IF Missing(e) # {} THEN d.kind = "request_info" /\ "missing_fact" \in e.gaps
  ELSE IF ~Decisive(e)
         THEN d.kind = "manual_review" /\ d.score = 0 /\ "low_confidence" \in e.gaps
  ELSE IF d.score = 1 THEN d.kind = "manual_review" /\ "low_confidence" \in e.gaps
  ELSE d.kind \in Actionable

\* validate_policy_result.
Accepts(e, d) ==
  /\ d.kind \in Actionable => d.kind = e.comparison
  /\ CalledFor(e, d)
  /\ ValidAmount(d)
  /\ ValidConfidence(e, d)
  /\ "missing_fact" \in e.gaps => Missing(e) # {}
  /\ Coherent(e)

------------------------------------------------------------------------------------
\* An answer passes: the first one, or the repaired one.  The repair replaces any part.
Rule ==
  /\ phase \in {"asked", "repairing"}
  /\ \E e \in CoherentEvidence, d \in Rulings :
       Accepts(e, d) /\ evidence' = e /\ ruling' = d
  /\ phase' = "ruled" /\ UNCHANGED <<amountVars, inputVars>>

\* An answer the validators refuse can come back for any case (a wrong confidence will do):
\* one repair, then the stage fails.
Refuse ==
  /\ phase \in {"asked", "repairing"}
  /\ phase' = IF phase = "asked" THEN "repairing" ELSE "failed"
  /\ UNCHANGED <<amountVars, inputVars, evidence, ruling>>

\* partial_refund takes the route of approve.
RouteName(kind) == IF kind = "partial_refund" THEN "approve" ELSE kind

\* Policy writes the row with the amount it went by, the other stages with the ticket's.
RowAmounts(stage) ==
  IF stage # "policy" THEN Cents \cup {None}
  ELSE {IF requested = None THEN None ELSE ColumnCents(requested)}

OpenReview(stage, kind) ==
  /\ phase' = "review"
  /\ \E amount \in RowAmounts(stage) :
       review' = [review EXCEPT !.amount_requested = amount,
                                !.approved_next = ApprovedNextAgent(stage, RouteName(kind))]
  /\ UNCHANGED <<decided, request, answer, inputVars>>

\* Governance may block any ruling; the evidence is of no use from here.
Govern ==
  /\ phase = "ruled"
  /\ evidence' = NoEvidence /\ ruling' = [kind |-> ruling.kind, amount |-> ruling.amount]
  /\ \E blocked \in BOOLEAN :
       IF PolicyNextAgent(RouteName(ruling.kind), blocked) = "human_approval"
         THEN OpenReview("policy", ruling.kind)
         ELSE phase' = "automatic" /\ UNCHANGED <<amountVars, inputVars>>

\* The reviews that are not about the ruling: Triage's before it, Response's after it.
HoldElsewhere ==
  \/ phase = "asked" /\ OpenReview("triage", "manual_review") /\ UNCHANGED <<evidence, ruling>>
  \/ phase = "automatic" /\ OpenReview("response", ruling.kind) /\ UNCHANGED <<evidence, ruling>>

Resolve == phase = "review" /\ Next /\ UNCHANGED policyVars

PolicyInit ==
  /\ Init /\ review.approved_next = "policy_agent" /\ review.amount_requested = None
  /\ review.by = CHOOSE s \in Signatures : TRUE
  /\ absent \in SUBSET Facts /\ requested \in Asked \cup {None}
  /\ "requested_amount" \in absent <=> requested = None
  /\ remaining_value \in RemainingValues
  /\ phase = "asked" /\ evidence = NoEvidence /\ ruling = NoRuling

PolicyNext == Rule \/ Refuse \/ Govern \/ HoldElsewhere \/ Resolve

PolicySpec == PolicyInit /\ [][PolicyNext]_<<amountVars, policyVars>>
------------------------------------------------------------------------------------
(* Properties.                                                                      *)

\* The model has no say in the decision: no second decision passes for the same evidence
\* and the same reading of the rules, and precedents only ever hold a decision back - one
\* that acts or asks would have passed had none been cited (agents/policy/README.md:88-96).
RulingRestsOnRules ==
  phase = "ruled" =>
    /\ \A o \in Rulings :
         (o.kind # ruling.kind /\ o.support = ruling.support) => ~Accepts(evidence, o)
    /\ ruling.kind # "manual_review" =>
         \E s \in 0..3 :
           Accepts([evidence EXCEPT !.cited = NoPrecedents], [ruling EXCEPT !.score = s])

\* What Policy approved and a finding held can be released in cents: a reviewer can pay
\* every whole-cent amount up to the ruling, so one that is finer loses less than a cent and
\* one in whole cents nothing.  (_validate_refund_amount against _validate_review_amount.)
ReleasableInCents ==
  (phase = "review" /\ ~Decided /\ ruling.kind \in {"approve", "partial_refund"}
     /\ review.approved_next = "refund_agent") =>
    \A cents \in Cents \ {0} :
      Grain * cents <= ruling.amount =>
        \E d \in {"approve", "partial_refund"} :
          ValidShape(d, cents) /\ Eligible(d, cents, NextFor(d))

\* Nobody looks at an automatic payment again: as recorded, neither the rounding of the
\* float difference nor that of the column takes it past what is left of the order, or past
\* what the customer asked for in cents (_validate_refund_amount, persist_refund_result).
PaymentIsCovered ==
  (phase = "automatic" /\ ruling.kind \in {"approve", "partial_refund"}) =>
    /\ ColumnCents(ruling.amount) <= Remaining
    /\ ColumnCents(ruling.amount) <= ColumnCents(requested)

\* Evidence that states its gaps never leaves the model without an answer the validators
\* take, unless it speaks for a refund and there is none to pay.
AnswerExists ==
  phase = "asked" =>
    \A e \in CoherentEvidence :
      \/ "low_confidence" \notin e.gaps \/ ("missing_fact" \in e.gaps) # (Missing(e) # {})
      \/ e.comparison = "approve" /\ ({requested, remaining_value} \cap {None, 0} # {})
      \/ \E d \in Rulings : Accepts(e, d)
====================================================================================
