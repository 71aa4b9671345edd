# Verification of customer-refund-service

This directory models the part of the service that decides what a refund case does next
and who may still write to it. TLC checks the models on small instances. TLAPS proves the
main results for instances of any size.

## 1. The system

A *case* is one `trace_id`. Its state is a set of MySQL rows. Three programs work on it.

| Program | Entry point | What it does to a case |
| --- | --- | --- |
| initial run | `demo/runner.py`, `app/graph.py` | runs Triage, Policy, Refund, Response and the human-approval node once, without a claim |
| approval service | `app/review.py` over `db/database.py` | records a reviewer's decision, claims the continuation and runs the stages that follow |
| customer follow-up | `refund_app/followup.py` over `db/followup_store.py` | continues a case that waited for the customer, under a claim of its own |

They never call each other. They share the rows of the trace, and inside one process the
environment variable and lock of `demo/runner.py`. A
transaction of the approval service or of the follow-up first locks the trace's
`workflow_runs` row.

### Inventory

| Component | State it keeps | Operations | What is hard | What makes it correct |
| --- | --- | --- | --- | --- |
| approval continuation (`resolve_human_approval`, `HumanApprovalService`) | workflow row, reviews, claims in `audit_log`, stage handoffs, refunds | decide, retry, heartbeat, claimed stage writes, terminal marker, failure record | concurrent requests, expired leases, crashes between transactions, retries | one refund at most, none lost, none unauthorised; one owner; a review that can always be decided |
| initial run (`build_graph`, `PipelineStore`, `DemoRunner`) | the graph state in memory, the rows | one write per node, `record_workflow_failure` | it holds no claim, and a reviewer can be faster than it | what it leaves behind is a state the approval service starts from; its refund is the last |
| amounts (`_validate_review_amount`, `_canonical_replay_amount`, `ApprovalResolutionRequest`) | amount columns of review, ticket and order | validate, resolve, replay | boundaries at the full amount, null against zero | never more than is covered; a replay recognises its own request only |
| routing tables | none | pure functions | two tables must agree | a denial never leads to Refund |
| review scope (`_reconstruct_review_state`, `_review_handoff_sort_key`) | handoffs with continuation markers | rebuild the state of a case | rows of several attempts and of later reviews | a decision is applied to what was reviewed; a repeated request always sees the same |
| customer follow-up (`CustomerFollowupStore`, `CustomerFollowupService`) | receipt, snapshot, claim, failure and completion rows | claim, heartbeat, complete, fail, restore, the graph's nodes under the fence | restore beside a late writer, a reviewer in the middle of the turn, recovery after a lost completion | the first turn survives; one answer with one payment; a retry inherits nothing |
| Policy agent (`agents/policy`) | none of its own | prompt, one repair, validation, governance | answers of a language model, a dozen validators that must agree | the evidence decides, not the model; every ruling can be acted on |
| Triage, Response agents, governance checkers | events, handoffs | draft, check, persist | verdict saved before the draft | a blocked draft is reviewed |
| refund executor | none | deterministic stub | - | idempotent by transaction id |
| transaction retry (`_retry_mysql_transaction`) | attempt counter | repeat a rolled-back transaction | the last attempt fails the step | no retry without end |
| catalogue, seeding, reset (`demo/catalog.py`, `db/admin.py`, `db/orders.py`) | fixtures, tables | seed, verify, reset | a reset beside a live run | a run starts from the seed |
| batch runner (`DemoRunner`, `_scoped_environment`) | worker pool, environment variable, lock | `run_case`, `run_batch`, follow-up | threads of several calls share one variable | runs do not disturb one another; every call returns |
| dashboard read side (`dashboard_app/service.py`) | none | status, resolution path, metrics, search | many generations of every row | what the queue says is what happened |
| frontend, refund API, acceptance harness, `main.py` | none the database does not hold | views, HTTP | - | - |

`PROJECT.json` names each component with its sources and says whether it is modelled. It
also lists every hazard at its line with the properties that cover it.

## 2. Modules

| Module | Models | Rests on |
| --- | --- | --- |
| `Routing` | routing tables and status tables shared by all modules | - |
| `HumanApproval` | the approval service with any number of concurrent requests of one trace | `Routing` |
| `ReviewContract` | what the service promises a reviewer: reviews decided once and one at a time, a refund only for an approved one while it is worked on | `Routing` |
| `HumanApprovalProofs` | inductive invariant and its theorems | `HumanApproval` |
| `HumanApprovalRefinement` | the refinement, the history theorem, and that a repeated request always sees the same rows | `HumanApprovalProofs`, `ReviewScope` |
| `ReviewScope` | the rows a review's case state is rebuilt from | `HumanApproval` |
| `RefundCase` | the initial run of a case composed with the approval service | `HumanApproval` |
| `RefundCaseProofs` | its invariant: what the run hands over and that it pays last | `RefundCase`, `HumanApprovalProofs` |
| `CaseStatus` | the status the dashboard derives from the rows of that composition | `RefundCase`, `ReviewScope` |
| `CaseStatusProofs` | whole cases: safety from the first message on, what a decision is applied to, what the queue says | `CaseStatus`, `RefundCaseProofs`, `HumanApprovalRefinement` |
| `ReviewAmount` | the amount of a review, its shape, its eligibility and its replay | `Routing` |
| `ReviewAmountProofs` | the theorems of `ReviewAmount` for amounts of any size | `ReviewAmount` |
| `PolicyDecision` | which answers the Policy agent takes from the model, down to the review that follows | `ReviewAmount` |
| `PolicyDecisionProofs` | its theorems for any rules, precedents and amounts | `PolicyDecision` |
| `DemoRunner` | the calls that run cases, in several processes: pool, lock, retries, seed check, reset | - |
| `DemoRunnerProofs` | runs of one process keep apart, for any number of everything | `DemoRunner` |
| `CustomerFollowup` | the second turn of a waiting case, with the approval service beside it | `HumanApproval` |
| `FollowupContract` | what the customer is promised: clean attempts, one answer, exactly one payment behind it | - |
| `CustomerFollowupProofs` | its theorems for any number of turns, requests and reviews, and the refinement | `CustomerFollowup`, `HumanApprovalProofs` |
| `MCHumanApproval`, `MCCustomerFollowup` | the same with a symmetry set for TLC | |
| `MCPolicyDecision`, `MCDemoRunner` | the same with a set of citations, and with a set of calls | |

### State and actions of `HumanApproval`

| Variable | In the code |
| --- | --- |
| `wf` | `workflow_runs.status`, `current_agent` |
| `fresh` | whether the newest claim or workflow update is younger than the lease |
| `appr`, `nAppr` | the `human_approvals` rows of the trace in order of insertion |
| `claim` | newest `human_approval_continuation_claimed` row: approval, attempt, log id |
| `revoked` | tokens named by `human_approval_continuation_failed` rows |
| `done` | `human_approval_continued` row per approval: status, child review, claim |
| `policyRows`, `responseRows` | handoffs with the continuation marker they carry |
| `blocks` | blocking governance events with their marker |
| `refunds` | refund transactions by approval, 0 being the initial run's |
| `req` | the local variables of each request in flight |

One action is one transaction, because every transaction locks the workflow row first.
What a request read in one transaction and uses in a later one is a field of `req`. That
is where the races are: `refunded` is such a field, and so are the claim and the status it
means to record.

| Action | In the code |
| --- | --- |
| `DecideReview`, `RetryContinuation` | `resolve_human_approval`: first decision and identical replay |
| `EnterStep`, `Heartbeat` | `_ApprovalClaimLeaseHeartbeat` and `heartbeat_human_approval_continuation` |
| `PersistPolicy`, `PersistRefund`, `SaveResponseGovernance`, `PersistResponse` | the claimed stage writes |
| `EnsurePolicyReview`, `EnsureResponseReview`, `EnsureRecoveredReview` | `ensure_human_approval` under a claim |
| `MarkContinuation` | `mark_human_approval_continuation` |
| `StepFails`, `RecordFailure` | an exception in the service's `try`, then the failure record |
| `RequestEnds` | the process dies, or an error nothing records |
| `LeaseExpires` | time |

A request that is answered without a write (already completed, in progress, refused) is a
stuttering step. A superseded request stays in flight and keeps trying; its writes need
`ActiveApprovalClaim`, so they can only fail.

### `RefundCase`

Each node of the parent graph is an action with its own transaction. `run` holds the next
node and the parts of the graph state that routing reads. Any node may raise
(`RunRaises`, then `RecordWorkflowFailure`), and the process may die anywhere
(`RunDies`). The approval service is used unchanged beside it. The initial run's writes
carry no claim. They replace the single Response event and the single Response handoff
of the trace, whoever wrote them, and several are an error.

The module finds how far the guarantees of `HumanApproval` carry to a whole case. `HandsOver`
says that a run that has ended leaves an initial state of `HumanApproval`. So the theorems
hold of every case whose reviewer waited for the run to end. What can happen to the
others is in section 6.

### `ReviewScope` and `CaseStatus`

No case state is stored between turns. `Scope` is the filter and `ReadBack` the merge of
`_reconstruct_review_state`: rows of the review's own continuation up to its recorded
end, rows of others up to the end of the continuation that opened the review.

`CaseStatus` adds the answer every Response handoff carries (`outcomes`) and takes each
step of `RefundCase` with it. `Status` is `_derive_status`, first match first, over the
projection: newest handoff, effective governance events, pending reviews. Nothing of it
is state, since the dashboard only reads. `early` is a history variable: a review was
decided before the run that opened it had ended. Section 6 is about those cases, so the
properties of `Status` and `ReadBack` are stated for the others.

### `ReviewAmount`

Amounts are whole cents: the columns of reviews, tickets and orders have two places, and
both the API and `_optional_decimal` refuse a request that is finer. Policy's own amounts
are another matter, see below. `RefuseShape` is the API's validator, and `DecidePending` and
`ReplayDecided` also take the requests it would have refused, since the service has callers
other than the API.

### `PolicyDecision`

| Action | In the code |
| --- | --- |
| `Rule` | an answer that `validate_policy_result` accepts; `Accepts` has one conjunct per validator |
| `Refuse` | one it refuses: `_call_llm_result` asks once for a repair, then the stage fails |
| `Govern` | governance and route: paid, told, or held in a review |
| `HoldElsewhere` | a Triage review before the ruling, a Response review after it |
| `Resolve` | the requests of `ReviewAmount` to that review |

The evidence and the ruling are free choices over everything the result schema admits. A
rule is one of the four kinds the knowledge base has. `Confidence` is the calculation the
validators compare the reported score with.

Money is where Policy and the review differ. `PolicyDecision.refund_amount` is a float with
no limit to its places, and what is left of the order is a difference of floats, so
0.30 - 0.10 falls short of 0.20. An amount of Policy (`Amounts`) is therefore a number of
parts of a cent, `Grain` of them to one. `RemainingValues` is the difference, off by one
part either way unless it is exact, and `requested` is what Triage read from the message,
whatever the ticket says. `ColumnCents` is the rounding of a `DECIMAL(10,2)` column, through
which `requested` reaches the row of a Policy review and the ruling the record of an
automatic payment. The rows of the other stages take the amount from the ticket
(`RowAmounts`).

Two facts found on the way. `_policy_effect` never yields `partial_refund`, so an answer of
that kind cannot pass, although `agents/policy/README.md:94` allows it. And an approving
rule with nothing left to pay has no acceptable answer: the run fails after its repair.
`AnswerExists` names that exception.

### `DemoRunner`

| Variable | In the code |
| --- | --- |
| `env`, `lock` | `POLICY_EVALUATION_DATE` and `_ENVIRONMENT_LOCK` of a process |
| `call` | a call: where it is, and the value `_scoped_environment` will restore |
| `work` | its cases: the step each is at, and the attempts of that step's transaction |
| `written` | which processes have left rows for a case since its seeding |

`Acquire`, `Raise` and `Leave` are entry, exceptional exit and exit of the scope; `Take` is
the pool; `Verify` is `verify_seeded_case`; `Commit`, `Break` and `Deadlock` are the outcomes
of a transaction attempt; `Reset` is `reset_demo`. The nodes of a case are `RefundCase`, so
here they are three transactions: first rows, the rest, the failure record.

The seed check holds up to the first write only against runs of the same process. Two
processes can start the same case, and a reset can remove the rows of a live run. Both
happen in the model, and `RunsAreIsolated` claims nothing about them.

### `CustomerFollowup`

| Variable | In the code |
| --- | --- |
| `rows` | handoffs, governance events and refunds of both turns; `turn` is the follow-up marker they carry |
| `token`, `failed`, `completion` | `customer_followup_claimed`, `_failed` and `_completed` rows of `audit_log` |
| `turn` | per request: the node it is at, its token, the parts of the graph state that routing reads |
| the rest | the variables of `HumanApproval`, as the approval service uses them on the same trace |

| Action | In the code |
| --- | --- |
| `FirstClaim`, `Reclaim`, `RecoverCompletion` | the three writing outcomes of `CustomerFollowupStore.claim` |
| `TurnTriageGovernance` ... `TurnPersistResponse` | the nodes of the parent graph, each write behind `_require_active_followup_claim` |
| `TurnHumanApproval` | `HumanApprovalNode`; the fence refuses it unless a reviewer has set the workflow running again |
| `TurnHeartbeat`, `CompleteTurn`, `FailTurn` | `heartbeat`, `complete`, `fail` |
| `TurnRaises`, `TurnEnds` | an error handed to `fail`; a death, a conflict, an error nothing records |
| `ReviewService` | `HumanApproval`, unchanged |

A handoff and its audit row are written in one transaction, so one record stands for both.
The initial state is a first turn that ended by asking the customer and that no reviewer
touched. `fresh` is shared with the approval service: both leases are measured from the
same `updated_at`, and a restored snapshot has no approval claim of an earlier date.

## 3. Runs

| Run | Result | Question |
| --- | --- | --- |
| `human_approval` | holds | the safety invariants of the approval service; it implements `ReviewContract`, and ended continuations are history |
| `failed_retry` | violated | is a recorded failure retryable? |
| `live_retry_lease` | violated | does a heartbeat keep the claim of a running stage? |
| `refund_case` | holds | the initial run beside an early reviewer: hand-over, money, what the dashboard says, what a decision is applied to |
| `two_pending` | violated | one pending review at a time |
| `two_reviews` | violated | one review per Policy route |
| `empty_pause` | violated | a case that waits for a reviewer has a review |
| `policy_decision` | holds | which rulings pass and why, what is paid at once, what a reviewer can release, replays, no dead end from evidence to release |
| `demo_runner` | holds | runs of a process do not meet, and every call returns |
| `customer_followup` | holds | one answer, one payment, clean retries, one owner; implements `FollowupContract` |
| `retryable_case` | violated | has a case the API calls retryable been restored? |
| `decisions_kept` | violated | does a review a person decided stay on record? |

Every property of a passing run has a seeded fault (`Name_Fault` beside the definition it
replaces) that makes TLC find it violated.

### Bounds

- `Workers`: two requests in the runs of the approval service. A third adds nothing new
  to a race, since all but the newest claim are equally powerless. One in `RefundCase`,
  where the initial run is the second actor and a retry may follow a dead request.
- `MaxApprovals`: three in the approval service, so that a Triage review can lead to a
  Policy review and that to a Response review. Two in `RefundCase`, three where the
  counterexample needs a second open review.
- `MaxClaims`: three claims, enough for a retry of a retry while a late holder is
  still alive. Two in `RefundCase`.
- `Customers`, `MaxTurns`: two requests and two claims, so that a takeover, a repeat after
  a failure and a recovery each happen beside a late holder. With one reviewer request and
  one approval claim the run has 660,000 states; a second approval claim multiplies them
  by more than ten and adds only retries of the approval service, which `human_approval`
  covers. The two violated runs use one request and two approval claims.
- `MaxCents`: two, so that nothing, a part and the whole of an amount exist for ticket,
  order and earlier refunds, and a request can be below, at and above what is left.
  `Signatures`: two, to tell requests apart.
- `Grain`: three parts to a cent, the fewest for which one part, the error of the float
  difference, is less than half a cent. In the code it is far less: a `DECIMAL(10,2)` is
  below 10^8, and the difference of two such floats is off by less than a millionth. So
  an amount can be whole, round up, round down, or be next to a bound on either side.
- `Asked`: a customer names no amount, a whole cent, or one and two thirds, which rounds up
  to more than was asked. What is left of the order is less than either and more than either,
  and for the whole cent also equal or one part away. A ruling is any number of parts. The
  theorems hold for every `Asked`.
- `Citations`: no precedent, one agreeing with one against it, one with two against it;
  the last is the least that weighs as much as a conflict. The calculation for any other
  number is part of the theorem `RulesDecide`.
- `Attempts`: two instead of the three of the code, so that a step fails at once, after a
  deadlock, and after the last attempt. `MaxResets`: one.
- `Calls` of `demo_runner`: a batch of two cases with two workers, a second request for
  one of them and a follow-up in the same process, the same case in another process. That
  is every pair of kinds of call on one lock, and one pair without a lock in common.

All runs say `CHECK_DEADLOCK FALSE`, because the systems do stop: when claims and reviews
are used up, when the Policy stage of a case is over, when every call has returned.
That none stops too early is what `NoStuckReview`, `ReviewIsDecidable`, `AnswerExists` and
`EveryCallReturns` say.

### Fairness

`DemoRunner` is weakly fair in every thread: a thread that can enter the scope, take a case,
leave, or make the next step of a case does so eventually. A step of a case may be a
success, an error or a deadlock. This needs a scheduler that runs every thread, a
database and a model that answer or time out (model requests and connections have a
timeout, a lock wait has the server's), and nothing about which of them happens. `threading.Lock` promises no order, and weak fairness of
`Acquire` alone would not give a thread the lock against endless competitors. Here a call
wants the lock once and there are as many calls as requests, so it is enough.
`EveryCallReturns` is the liveness property. `Raise` and `Reset` need not happen.

For the approval service and the follow-up none is assumed and no liveness is claimed. A
continuation only ends if its process lives and Azure answers, and the code retries
nothing by itself. Its progress depends on a person repeating a request, so no fairness is
justified by the code. What stands in for liveness are safety properties that say progress
stays possible: `NoStuckReview`, `ReviewIsDecidable`, `AnswerExists` and, violated,
`FailedIsRetryable`.

## 4. Proofs

Every safety property, action property and refinement that a passing run checks is also a
theorem, for any set of requests, calls, rules and amounts, and any bounds.

| Module | Theorems about |
| --- | --- |
| `HumanApprovalProofs` | `TypeOK`, `AtMostOneRefund`, `RefundAuthorised`, `RefundDelivered`, `RefundNotReissued`, `OneOwner`, `AtMostOnePending`, `TerminalAgreement`, `NoStuckReview`, `PolicyOnce` |
| `HumanApprovalRefinement` | `HistoryIsFinal`, `ImplementsContract`, `ReplayIsStable` |
| `RefundCaseProofs` | `CaseTypeOK`, `InitialRefundIsLast`, `HandsOver` |
| `CaseStatusProofs` | `StatusTypeOK`, `ReadsWhatWasReviewed`, `HeldIsBlocked`, `CompletedIsTold`; for whole cases all that `HumanApprovalProofs` and `HumanApprovalRefinement` say of the service, but for the contract |
| `CustomerFollowupProofs` | `FollowupTypeOK`, `OneTurnOwner`, `RetryStartsClean`, `AnswerStands`, `AnswerIsFinal`, `LeaseRespected`, `ImplementsFollowup` |
| `ReviewAmountProofs` | the invariants of `ReviewAmount` for its own `Spec`; the run checks them under `PolicySpec`, where a ruling opens the review |
| `PolicyDecisionProofs` | `RulingRestsOnRules`, `AnswerExists`, `ReleasableInCents`, `PaymentIsCovered` |
| `DemoRunnerProofs` | `RunnerTypeOK`, `RunsAreIsolated` |

The assumptions are on the constants, and TLC evaluates them:

- bounds are natural numbers (`BoundsAssumption`, `MaxCentsAssumption`, `ResetsAssumption`;
  `AttemptsAssumption` and `TurnsAssumption` are positive);
- a float difference is off by less than half a cent (`GrainAssumption`);
- values that mean "nothing" are not values (`NoneAssumption`, `FreeAssumption`);
- rules are of the kinds of the knowledge base, and citing nothing is allowed
  (`RulesAssumption`, `CitationsAssumption`);
- calls are well formed and a batch has each case once (`JobAssumption`,
  `DistinctAssumption`), which `main.py` and the order of the catalogue ensure.

### The approval service

None of the invariants of `HumanApproval` is inductive alone. `IInv` joins them:

- `TypeInv`: types, claims count their attempts, stage rows are stamped in claim order.
- `Lineage`: only the claimed review can be unfinished, and the pending one is its child.
- `Holders`: claims in flight are distinct, and an old one never carries the newest token.
- `Progress`: what the newest claim still owes can be read off the durable rows, and the
  request that owns it stands exactly there. This is what makes a stale
  `refund_persistence_result` harmless and keeps a recovery from skipping a refund. It is
  about marked rows: an unmarked one is the initial run's, which no continuation owes.
- `Paid`: once money has moved, every later review is a Response review, whose hand-over
  never pays.

Each action has a lemma for the types and one for the rest. Most actions are the owner's,
so `OwnerStepSafe` and the `...Kept` lemmas say once what such a step leaves alone. `InvSafe`
draws the properties from `IInv` without the specification, so that the cases below can use
it too.

`ReplaysAreStable` adds to `IInv` one fact, `ScopeInv`: the scope of a review that has been
decided ends before the claim in force. Every new row is stamped with the claim in force,
so it is outside the scope of every ended continuation.

### The initial run and whole cases

`CaseInv` is what holds of every case, early reviewers included:

- `Opening`: up to its Refund node the run is alone; no review, no claim and no money
  exists.
- `RunPaid`: once the run has paid, only Response reviews can follow it, and no request
  stands where a refund is issued.
- `Undecided`: before the first decision every row is the run's, and it has asked at most
  one question, of a case that waits or has failed.

`RunPaysOnce` and `RunHandsOver` follow. `Orderly` then says: until a review is decided
before its run ended (`early`), the case satisfies the invariant of the approval service.
Before the first decision that follows from `Undecided` (`UndecidedSafe`); after it the run
is over and every step is one of `HumanApproval`, whose `InvStep` applies. So
`OrderlyCasesAreSafe` needs no step of the service to be proved again, and
`OrderlyHistoryStays` needs only `ScopeInv` carried over the same way.

What reviewers and the queue see needs more, each in the same two parts: what holds of the
run's rows before the first decision, and an invariant of the service's steps after it.

| Theorem | Before | After | The second says |
| --- | --- | --- | --- |
| `DecisionsReadTheirReview` | `FirstRead` | `ReadInv` | no two rows carry one claim; the Policy row of the continuation under way is the newest; a case waits only for what a row of that continuation holds back |
| `HeldCasesAreShown` | `FirstEvents` | `EventInv` | no event is newer than the claim; a decided review was opened by an earlier continuation; a pause is recorded only of what an event holds back |
| `CompletedCasesAreTold` | `FirstAnswer` | `AnswerInv` | `Accounts`: the newest ruling agrees with the money, the newest answer fits both, and a completed continuation was released or answered; `Answering`: a request on its way to an answer will not end in a question that is called completed |

`OneRuling` is the heart of the last: the newest ruling is one row, so a case that was paid
cannot also have been ruled denied or asked.

### The customer follow-up

`FollowupInv` is types and five facts. `Counted`: tokens count the claims, and requests in
flight hold different ones. `Clean`: every row is the first turn's or the newest turn's.
`Called`: the approval service was only called in by the newest turn. `Restored`: a recorded
failure has put the first turn back. `Proven`: a recorded answer can still be proved from
its rows. The approval service is looked into no further than that it writes nothing
without a review and a claim (`ServiceStep`); an answer is safe
because a turn that can be proved complete has never asked a reviewer.

The contract was made stronger on the way. It asked for a payment behind the answer; the
proof shows exactly one, and the contract says so now.

### Amounts, rulings, runs

In `ReviewAmountProofs` the strengthening is `Settled`: a decided row is what one eligible
request made of it. The replay theorem needs it, and the rest are arithmetic on it.
`AlwaysDecidable` names its witness: the whole of the ticket when the order covers it,
otherwise what is left of the order.

`PolicyInv` says that an accepted ruling stays accepted by the input it was made for, that
the float difference stays within a part of what is left of the order, and that the row of
a held approval names the customer's amount as the column rounds it. With it `RulesDecide`
is an argument about `Accepts` alone, by the cases of `CalledFor`, and `ModelCanAnswer`
writes down the acceptable ruling for each case. `RulingsCanBeReleased` and
`PaymentsAreCovered` compare parts with cents: `Column` says which cents a rounded amount can
reach, and an error of less than half a cent reaches none. `PaymentsAreCovered` bounds the
record of a payment from above only. From below there is no bound: `persist_refund_result`
tests that the float is positive, and an approval of less than half a cent is recorded as
0.00.

`RulingsCanBeReleased` does not say that an approval can be released as ruled. That is false:
33.333 passes Policy, and the review refuses it. It says that every whole cent of the ruling
can be released, so the reviewer's decision loses less than a cent, and nothing of a ruling
in whole cents. Of an approval under one cent nothing can be released; it can be denied.

`DemoRunnerProofs` needs three invariants. `Locked`: who is inside holds the lock, and
saved the operator's value. `Scoped`: a case is at work only inside. `Unwritten`: while a
case is between its seed check and its first write, its process has not written it. The
third rests on the second and on `DistinctAssumption`, since two cases of one batch do run
at once.

## 5. Only model-checked, or only proved

- `EveryCallReturns` is only model-checked: liveness under fairness is out of the prover's
  reach, as are `ENABLED`, induction over data and `RECURSIVE` operators, none of which is
  used here.
- The disagreements of section 6 are counterexamples, and TLC finds them.
- The other way round, `ReplayIsStable`, `CaseTypeOK`, `StatusTypeOK` and what
  `OrderlyCasesAreSafe` and `OrderlyHistoryStays` say of whole cases are proved and not part of
  a run.

## 6. Where code and documents disagree

Each has a run whose counterexample shows it. `PROJECT.json` quotes the lines.

1. `failed_retry`: a retry of a recorded failure can be unable to end, when the failed
   attempt had opened its Response review before it failed.
2. `live_retry_lease`: while such a retry runs, the workflow still says failed, so a
   duplicate takes its claim although its heartbeat is on time.
3. `two_reviews`: a Policy review decided before the human-approval node has run is opened
   a second time, and both can pay.
4. `two_pending`: a Triage review decided while the initial run is still drafting leads to
   two pending reviews.
5. `empty_pause`: the initial run's late Response write makes a completed case wait for a
   review that does not exist.
6. `retryable_case`: the second turn itself can ask the customer again; when its holder
   has not failed yet or has died, the API calls the case retryable although nothing was
   restored and the claim is still refused.
7. `decisions_kept`: a review opened by the second turn and decided by a person is deleted,
   with its claim and its payment record, when that turn fails or is taken over.

Items 3 to 5 have one cause: the run that opens a review goes on writing without a claim.
It also makes `RefundDelivered`, `TerminalAgreement` and `HistoryIsFinal` fail in
`RefundCase`, and `CompletedIsTold`, `HeldIsBlocked` and `ReadsWhatWasReviewed` without
`~early`. They are not repeated as runs.

What the dashboard says departs from the money in three ways, which `CompletedIsTold` names
instead of hiding. They may be meant, so they are no findings:

- a paid case whose answer a reviewer denied is shown as rejected (`DeniedAfterRefund`);
- a completed case is shown as needing information when a reviewer denied the Policy
  decision to ask (`RefusedQuestion`), or released a question held by Response governance
  (`ReleasedQuestion`).

A further observation: a retry of a failed attempt keeps the review that attempt opened,
with the reason of the first event, while the draft that a release sends is the retry's
newer, equally blocked one.

## 7. Not modelled

- Payloads of handoffs, texts, timings, token counts: no property is about them.
- Time: a lease is fresh or not, and may expire at any moment.
- MySQL errors inside a transaction: a transaction happens or its step fails.
- Two initial runs of one trace in `RefundCase`: `verify_seeded_case` refuses a case with
  any row. Two processes that pass that check together are in `DemoRunner` only, without
  the nodes of the case.
- A follow-up to a first turn that a reviewer has already worked on: the two cases that
  have a follow-up reach `waiting_user` without a review.
- Tampered receipts and changed root rows: the code refuses them before it writes.
- The unclaimed `ensure_human_approval` locks only the reviews it finds. The model gives it
  the whole transaction at once, which is stronger than the code.
- How a policy rule matches a case, the prompt, and what precedents say. A match is part
  of the evidence, and a precedent counts as agreeing or not.
- Metrics, timelines, search and layout of the dashboard; the HTTP acceptance harness, which
  is a client and holds no state of the system; the frontend, whose form repeats rules taken
  from the server.
- Amounts that are no number or too large for their columns: the database refuses the row.
- Fixture data, installation of the schema, migrations: run once, with nothing beside them.

## 8. Plan

Built: the approval service with its contract, its scope and their proofs; the initial
run beside it with the dashboard's status; amounts and Policy decisions with their proofs;
the customer follow-up with its contract; the runner with its liveness; the proofs of all
of them.
What is left, in this order:

1. What remains true of cases a reviewer did touch early, beyond `InitialRefundIsLast`: which
   requests can still write, and which refunds are authorised.
2. `RefundCase` started twice, from two processes of `DemoRunner`: which of its properties a
   second run without a claim breaks.
3. The matching of policy rules, as a pure operator against a reference definition.
