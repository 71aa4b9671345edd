------------------------------- MODULE ReviewContract -------------------------------
(***********************************************************************************)
(* What the human-approval service promises the people who use it, with no workflow,  *)
(* claim, lease, stage or failure in sight.  Reviews of a case are decided one at a    *)
(* time and once each; a decided review is worked on until it ends; a refund is paid   *)
(* only for a review that was approved, while it is being worked on, and only once in   *)
(* the life of the case; the next review is opened by the very step that ends this one. *)
(***********************************************************************************)
EXTENDS Naturals, Routing

CONSTANT MaxApprovals

VARIABLES
  open,       \* the review a reviewer may decide now, 0 when there is none
  active,     \* the decided review being worked on, 0 when there is none
  verdict,    \* what became of each review
  outcome,    \* how the work on each review ended
  paid        \* the reviews a refund was paid for; 0 is the run before any review

contractVars == <<open, active, verdict, outcome, paid>>

Reviews == 1..MaxApprovals

Init ==
  /\ open = 1
  /\ active = 0
  /\ verdict = [a \in Reviews |-> "none"]
  /\ outcome = [a \in Reviews |-> "none"]
  /\ paid \in {{}, {0}}

Decide(v) ==
  /\ open # 0
  /\ active = 0
  /\ verdict[open] = "none"
  /\ open' = 0
  /\ active' = open
  /\ verdict' = [verdict EXCEPT ![open] = v]
  /\ UNCHANGED <<outcome, paid>>

Pay ==
  /\ active # 0
  /\ verdict[active] = "approved"
  /\ paid = {}
  /\ paid' = {active}
  /\ UNCHANGED <<open, active, verdict, outcome>>

Finish(s, next) ==
  /\ active # 0
  /\ outcome[active] = "none"
  /\ IF s = "pending_human" THEN next > active /\ verdict[next] = "none" ELSE next = 0
  /\ open' = next
  /\ active' = 0
  /\ outcome' = [outcome EXCEPT ![active] = s]
  /\ UNCHANGED <<verdict, paid>>

Next ==
  \/ \E v \in {"approved", "rejected"} : Decide(v)
  \/ Pay
  \/ \E s \in TerminalStatuses, next \in {0} \cup Reviews : Finish(s, next)

Spec == Init /\ [][Next]_contractVars
====================================================================================
