------------------------------ MODULE FollowupContract ------------------------------
(***********************************************************************************)
(* What a customer who sends the missing facts is promised: the case waits, is worked  *)
(* on or is answered.  Work may be given up and begun again any number of times, and    *)
(* every beginning is clean: what earlier work paid has been taken off the record.      *)
(* There is one answer, it rests on exactly one payment, and nothing follows it.         *)
(***********************************************************************************)
CONSTANT Payments

VARIABLES
  phase,          \* "waiting", "working" or "answered"
  paid            \* the payments on record for the case

Init == phase = "waiting" /\ paid = {}

\* The waiting request is taken up.
Take ==
  /\ phase = "waiting"
  /\ phase' = "working"
  /\ paid' = {}

\* Somebody else takes the work over, from the beginning.
TakeOver ==
  /\ phase = "working"
  /\ paid' = {}
  /\ UNCHANGED phase

Pay(p) ==
  /\ phase = "working"
  /\ paid' = paid \cup {p}
  /\ UNCHANGED phase

GiveUp ==
  /\ phase = "working"
  /\ phase' = "waiting"
  /\ paid' = {}

Answer ==
  /\ phase = "working"
  /\ \E p \in Payments : paid = {p}
  /\ phase' = "answered"
  /\ UNCHANGED paid

Next == Take \/ TakeOver \/ GiveUp \/ Answer \/ \E p \in Payments : Pay(p)

Spec == Init /\ [][Next]_<<phase, paid>>
====================================================================================
