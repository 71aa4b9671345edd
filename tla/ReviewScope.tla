---------------------------------- MODULE ReviewScope ----------------------------------
(***********************************************************************************)
(* What a decision is applied to.  No case state is stored between turns: whoever       *)
(* decides or repeats a review rebuilds it from the handoffs of the trace, written by     *)
(* many runs, continuations and attempts, of which some came before the review, some are   *)
(* its own and some belong to reviews that followed.                                        *)
(***********************************************************************************)
EXTENDS HumanApproval

\* Seeded fault: what a review is about ends with the event that opened it.
Origin_Trigger(a) == appr[a].trigger.seq

\* Rows up to here are about review a: a continuation that opened it may have gone on, in
\* another attempt, until it recorded its end.
Origin(a) ==
  LET opened == appr[a].trigger
      ended == done[opened.appr].claim
  IN IF opened = NoClaim THEN 0
     ELSE IF opened.seq <= ended.seq THEN ended.seq ELSE opened.seq

\* What carries no marker has the sequence 0 and is always in scope.
InScope(r, a) ==
  IF r.claim.appr = a THEN done[a] # NoRecord => r.claim.seq <= done[a].claim.seq
                      ELSE r.claim.seq <= Origin(a)

Scope(rows, a) == {r \in rows : InScope(r, a)}

\* The state given to the stages has one artifact of each.
ReadBack(rows, a) == Latest(Scope(rows, a))

\* The answer to a repeated request stays the same: once a continuation has ended, no
\* review that follows, and no late attempt, changes what the state is rebuilt from.
ReplayIsStable ==
  [][\A a \in Finished :
       /\ Scope(policyRows, a)' = Scope(policyRows, a)
       /\ Scope(responseRows, a)' = Scope(responseRows, a)]_vars
====================================================================================
