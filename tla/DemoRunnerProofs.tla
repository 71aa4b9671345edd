------------------------------ MODULE DemoRunnerProofs ------------------------------
(***********************************************************************************)
(* Proof that the runs of a process do not disturb one another, for any number of       *)
(* processes, calls and workers.  The lock is what the date and the seed checks rest on:  *)
(* whoever works holds it, and a process without a holder has its own date back.           *)
(***********************************************************************************)
EXTENDS DemoRunner, TLAPS

Steps == [at : Active \cup Ended \cup {"queued"}, tries : 1..Attempts]

\* The holder of the lock is inside, with the date set and the operator's kept.
Locked ==
  /\ \A c \in Calls : call[c].pc = "inside" =>
       /\ lock[Home(c)] = c /\ env[Home(c)] = FixedDate /\ call[c].saved = Configured
  /\ \A p \in Processes : lock[p] = Free => env[p] = Configured
  /\ \A p \in Processes : lock[p] # Free => /\ Home(lock[p]) = p
                                            /\ call[lock[p]].pc = "inside"

\* Cases are worked on inside the scope only.
Scoped == \A c \in Calls : \A i \in Items(c) : At(c, i) \in Active => call[c].pc = "inside"

\* What a seed check found is still so.
Unwritten ==
  \A c \in Calls : \A i \in Items(c) :
    (At(c, i) = "triage" /\ Job[c].kind # "followup") => Home(c) \notin written[CaseOf(c, i)]

RunnerInv == RunnerTypeOK /\ Locked /\ Scoped /\ Unwritten

------------------------------------------------------------------------------------
LEMMA Constants == \A c \in Calls : /\ Home(c) \in Processes
                                    /\ \A i \in Items(c) : CaseOf(c, i) \in Cases
<1> SUFFICES ASSUME NEW c \in Calls
             PROVE  Home(c) \in Processes /\ \A i \in Items(c) : CaseOf(c, i) \in Cases
  OBVIOUS
<1>1. Job[c].home \in Processes /\ Job[c].cases \in Seq(Cases)
  BY JobAssumption
<1> QED BY <1>1 DEF Home, Items, CaseOf

LEMMA InitHolds == Init => RunnerInv
<1> SUFFICES ASSUME Init PROVE RunnerInv
  OBVIOUS
<1>1. \A c \in Calls : \A i \in Items(c) : work[c][i] = [at |-> "queued", tries |-> 1]
  BY DEF Init
<1>2. RunnerTypeOK
  <2>1. 1 \in 1..Attempts /\ 0 \in 0..MaxResets
    BY AttemptsAssumption, ResetsAssumption
  <2>2. \A c \in Calls : work[c] \in [Items(c) -> Steps]
    BY <2>1 DEF Init, Steps
  <2>3. work = [c \in Calls |-> work[c]]
    BY DEF Init
  <2> QED BY <2>1, <2>2, <2>3 DEF Init, RunnerTypeOK, Steps
<1>3. Locked
  BY Constants DEF Init, Locked
<1>4. Scoped /\ Unwritten
  BY <1>1 DEF Scoped, Unwritten, At, Active, Transactions
<1> QED BY <1>2, <1>3, <1>4 DEF RunnerInv

\* One item of one call moves.
LEMMA ItemMoves ==
  ASSUME RunnerTypeOK, NEW c \in Calls, NEW i \in Items(c), NEW v \in Steps,
         work' = [work EXCEPT ![c][i] = v]
  PROVE  /\ work' = [d \in Calls |-> work'[d]]
         /\ \A d \in Calls : work'[d] \in [Items(d) -> Steps]
         /\ \A d \in Calls : \A j \in Items(d) :
              work'[d][j] = IF d = c /\ j = i THEN v ELSE work[d][j]
<1>1. work = [d \in Calls |-> work[d]] /\ \A d \in Calls : work[d] \in [Items(d) -> Steps]
  BY DEF RunnerTypeOK, Steps
<1>2. \A d \in Calls : work'[d] = IF d = c THEN [work[c] EXCEPT ![i] = v] ELSE work[d]
  BY <1>1
<1>3. work' = [d \in Calls |-> work'[d]]
  BY <1>1
<1> QED BY <1>1, <1>2, <1>3

\* A step of an item is taken inside the scope, and no other call of the process is there.
LEMMA ItemKeeps ==
  ASSUME RunnerInv, NEW c \in Calls, NEW i \in Items(c), NEW v \in Steps,
         work' = [work EXCEPT ![c][i] = v],
         UNCHANGED <<env, lock, call, resets>>,
         v.at \in Active => call[c].pc = "inside",
         (v.at = "triage" /\ Job[c].kind # "followup") => Home(c) \notin written'[CaseOf(c, i)],
         \/ UNCHANGED written
         \/ /\ call[c].pc = "inside" /\ v.at # "triage"
            /\ written' = [written EXCEPT ![CaseOf(c, i)] = @ \cup {Home(c)}]
  PROVE  RunnerInv'
<1>0. /\ written \in [Cases -> SUBSET Processes]
      /\ CaseOf(c, i) \in Cases /\ Home(c) \in Processes
  BY Constants DEF RunnerInv, RunnerTypeOK
<1>1. /\ work' = [d \in Calls |-> work'[d]]
      /\ \A d \in Calls : work'[d] \in [Items(d) -> Steps]
      /\ \A d \in Calls : \A j \in Items(d) :
           work'[d][j] = IF d = c /\ j = i THEN v ELSE work[d][j]
  BY ItemMoves DEF RunnerInv
<1>2. RunnerTypeOK'
  <2>1. written' \in [Cases -> SUBSET Processes]
    BY <1>0
  <2> QED BY <1>1, <2>1 DEF RunnerInv, RunnerTypeOK, Steps
<1>3. Locked'
  BY DEF RunnerInv, Locked
<1>4. Scoped'
  BY <1>1 DEF RunnerInv, Scoped, At
<1>5. Unwritten'
  <2> SUFFICES ASSUME NEW d \in Calls, NEW j \in Items(d), At(d, j)' = "triage",
                      Job[d].kind # "followup"
               PROVE  Home(d) \notin written'[CaseOf(d, j)]
    BY DEF Unwritten
  <2>1. CASE d = c /\ j = i
    BY <1>1, <2>1 DEF At
  <2>2. CASE ~(d = c /\ j = i)
    <3>1. At(d, j) = "triage" /\ Home(d) \notin written[CaseOf(d, j)]
      BY <1>1, <2>2 DEF At, RunnerInv, Unwritten
    <3>2. CASE UNCHANGED written
      BY <3>1, <3>2
    <3>3. CASE /\ call[c].pc = "inside"
               /\ written' = [written EXCEPT ![CaseOf(c, i)] = @ \cup {Home(c)}]
      <4>1. CASE d = c
        <5>1. CaseOf(d, j) # CaseOf(c, i)
          BY <2>2, <4>1, DistinctAssumption DEF CaseOf, Items
        <5> QED BY <1>0, <3>1, <3>3, <5>1, Constants
      <4>2. CASE d # c
        <5>1. call[d].pc = "inside"
          BY <3>1 DEF RunnerInv, Scoped, Active, Transactions
        <5>2. Home(d) # Home(c)
          BY <3>3, <4>2, <5>1 DEF RunnerInv, Locked
        <5> QED BY <1>0, <3>1, <3>3, <5>2, Constants
      <4> QED BY <4>1, <4>2
    <3> QED BY <3>2, <3>3
  <2> QED BY <2>1, <2>2
<1> QED BY <1>2, <1>3, <1>4, <1>5 DEF RunnerInv

\* A call enters: nobody of its process was inside.
LEMMA AcquireKeeps ==
  ASSUME RunnerInv, NEW c \in Calls, Acquire(c)
  PROVE  RunnerInv'
<1>0. /\ Home(c) \in Processes /\ env \in [Processes -> {Configured, FixedDate}]
      /\ lock \in [Processes -> Calls \cup {Free}] /\ env[Home(c)] = Configured
      /\ call \in [Calls -> [pc : {"new", "refused", "wait", "inside", "raised", "returned"},
                             saved : {Configured, FixedDate}]]
  BY Constants DEF RunnerInv, RunnerTypeOK, Locked, Acquire
<1>1. RunnerTypeOK'
  <2>1. call' \in [Calls -> [pc : {"new", "refused", "wait", "inside", "raised", "returned"},
                             saved : {Configured, FixedDate}]]
    BY <1>0 DEF Acquire
  <2> QED BY <1>0, <2>1 DEF RunnerInv, RunnerTypeOK, Acquire
<1>2. Locked'
  <2>1. \A d \in Calls : (d # c /\ call[d].pc = "inside") => Home(d) # Home(c)
    BY <1>0, FreeAssumption DEF RunnerInv, Locked, Acquire
  <2>2. \A d \in Calls : call'[d].pc = "inside" =>
          /\ lock'[Home(d)] = d /\ env'[Home(d)] = FixedDate /\ call'[d].saved = Configured
    BY <1>0, <2>1, Constants DEF RunnerInv, Locked, Acquire
  <2>3. \A p \in Processes : lock'[p] = Free => env'[p] = Configured
    BY <1>0, FreeAssumption DEF RunnerInv, Locked, Acquire
  <2>4. \A p \in Processes : lock'[p] # Free => Home(lock'[p]) = p /\ call'[lock'[p]].pc = "inside"
    BY <1>0 DEF RunnerInv, Locked, Acquire
  <2> QED BY <2>2, <2>3, <2>4 DEF Locked
<1>3. Scoped' /\ Unwritten'
  BY <1>0 DEF RunnerInv, Scoped, Unwritten, At, Acquire
<1> QED BY <1>1, <1>2, <1>3 DEF RunnerInv

\* A call leaves, having nothing to do any more: its process gets lock and date back.
LEMMA LeaveKeeps ==
  ASSUME RunnerInv, NEW c \in Calls, NEW pc \in {"raised", "returned"},
         call[c].pc = "inside", \A i \in Items(c) : At(c, i) \notin Active,
         call' = [call EXCEPT ![c].pc = pc], Restore(c), UNCHANGED <<work, written, resets>>
  PROVE  RunnerInv'
<1>0. /\ Home(c) \in Processes /\ env \in [Processes -> {Configured, FixedDate}]
      /\ lock \in [Processes -> Calls \cup {Free}]
      /\ lock[Home(c)] = c /\ call[c].saved = Configured
      /\ call \in [Calls -> [pc : {"new", "refused", "wait", "inside", "raised", "returned"},
                             saved : {Configured, FixedDate}]]
  BY Constants DEF RunnerInv, RunnerTypeOK, Locked
<1>1. RunnerTypeOK'
  BY <1>0 DEF RunnerInv, RunnerTypeOK, Restore
<1>2. Locked'
  <2>1. \A d \in Calls : d # c /\ call[d].pc = "inside" => Home(d) # Home(c)
    BY <1>0 DEF RunnerInv, Locked
  <2>2. \A d \in Calls : call'[d].pc = "inside" =>
          /\ d # c
          /\ lock'[Home(d)] = d /\ env'[Home(d)] = FixedDate /\ call'[d].saved = Configured
    BY <1>0, <2>1, Constants DEF RunnerInv, Locked, Restore
  <2>3. \A p \in Processes : lock'[p] = Free => env'[p] = Configured
    BY <1>0 DEF RunnerInv, Locked, Restore
  <2>4. \A p \in Processes : lock'[p] # Free => Home(lock'[p]) = p /\ call'[lock'[p]].pc = "inside"
    <3> SUFFICES ASSUME NEW p \in Processes, lock'[p] # Free
                 PROVE  Home(lock'[p]) = p /\ call'[lock'[p]].pc = "inside"
      OBVIOUS
    <3>1. p # Home(c) /\ lock'[p] = lock[p]
      BY <1>0 DEF Restore
    <3>2. Home(lock[p]) = p /\ call[lock[p]].pc = "inside" /\ lock[p] \in Calls
      BY <1>0, <3>1 DEF RunnerInv, Locked
    <3> QED BY <1>0, <3>1, <3>2
  <2> QED BY <2>2, <2>3, <2>4 DEF Locked
<1>3. Scoped' /\ Unwritten'
  BY <1>0 DEF RunnerInv, Scoped, Unwritten, At
<1> QED BY <1>1, <1>2, <1>3 DEF RunnerInv

LEMMA ArriveKeeps ==
  ASSUME RunnerInv, NEW c \in Calls, Arrive(c)
  PROVE  RunnerInv'
<1>0. /\ call \in [Calls -> [pc : {"new", "refused", "wait", "inside", "raised", "returned"},
                             saved : {Configured, FixedDate}]]
      /\ lock \in [Processes -> Calls \cup {Free}]
  BY DEF RunnerInv, RunnerTypeOK
<1>1. PICK pc \in {"refused", "wait"} : call' = [call EXCEPT ![c].pc = pc]
  BY DEF Arrive
<1>2. \A d \in Calls : /\ call[d].pc = "inside" <=> call'[d].pc = "inside"
                       /\ call'[d].saved = call[d].saved
  BY <1>0, <1>1 DEF Arrive
<1>3. RunnerTypeOK'
  BY <1>0, <1>1 DEF RunnerInv, RunnerTypeOK, Arrive
<1>4. Locked'
  BY <1>0, <1>2 DEF RunnerInv, Locked, Arrive
<1>5. Scoped' /\ Unwritten'
  BY <1>2 DEF RunnerInv, Scoped, Unwritten, At, Arrive
<1> QED BY <1>3, <1>4, <1>5 DEF RunnerInv

LEMMA ResetKeeps == RunnerInv /\ Reset => RunnerInv'
<1> SUFFICES ASSUME RunnerInv, Reset PROVE RunnerInv'
  OBVIOUS
<1>1. RunnerTypeOK'
  <2>1. resets' \in 0..MaxResets
    BY ResetsAssumption DEF RunnerInv, RunnerTypeOK, Reset
  <2> QED BY <2>1 DEF RunnerInv, RunnerTypeOK, Reset
<1>2. Locked' /\ Scoped'
  BY DEF RunnerInv, Locked, Scoped, At, Reset
<1>3. Unwritten'
  BY Constants DEF Unwritten, Reset
<1> QED BY <1>1, <1>2, <1>3 DEF RunnerInv

LEMMA TakeKeeps ==
  ASSUME RunnerInv, NEW c \in Calls, Take(c)
  PROVE  RunnerInv'
<1>1. PICK i \in Items(c) :
        Goto(c, i, IF Job[c].kind = "followup" THEN "triage" ELSE "verify")
  BY DEF Take
<1> DEFINE v == [at |-> IF Job[c].kind = "followup" THEN "triage" ELSE "verify", tries |-> 1]
<1>2. v \in Steps
  BY AttemptsAssumption DEF Steps, Active, Transactions
<1> QED BY <1>1, <1>2, ItemKeeps DEF Take, Goto

LEMMA ItemStepKeeps ==
  ASSUME RunnerInv, NEW c \in Calls, NEW i \in Items(c), ItemStep(c, i)
  PROVE  RunnerInv'
<1>0. 1 \in 1..Attempts /\ work[c][i] \in Steps
  BY AttemptsAssumption DEF RunnerInv, RunnerTypeOK, Steps
<1>1. call[c].pc = "inside"
  BY DEF RunnerInv, Scoped, ItemStep, Verify, Commit, Break, Deadlock, Active
<1>2. ASSUME NEW at \in Active \cup Ended, Goto(c, i, at),
             UNCHANGED <<env, lock, call, resets>>,
             (at = "triage" /\ Job[c].kind # "followup") =>
               Home(c) \notin written'[CaseOf(c, i)],
             \/ UNCHANGED written
             \/ /\ at # "triage"
                /\ written' = [written EXCEPT ![CaseOf(c, i)] = @ \cup {Home(c)}]
      PROVE  RunnerInv'
  <2>1. [at |-> at, tries |-> 1] \in Steps
    BY <1>0 DEF Steps
  <2> QED BY <1>1, <1>2, <2>1, ItemKeeps DEF Goto
<1>3. CASE Verify(c, i)
  <2>1. Seeded(CaseOf(c, i)) => Home(c) \notin written[CaseOf(c, i)]
    BY DEF Seeded
  <2> QED BY <1>2, <1>3, <2>1 DEF Verify, Active, Transactions, Ended
<1>4. CASE Commit(c, i)
  <2>1. After(At(c, i)) \in (Active \cup Ended) \ {"triage"}
    BY <1>4 DEF Commit, After, Active, Transactions, Ended
  <2> QED BY <1>2, <1>4, <2>1 DEF Commit
<1>5. CASE Break(c, i)
  BY <1>2, <1>5 DEF Break, Active, Transactions, Ended
<1>6. CASE Deadlock(c, i)
  <2> DEFINE v == [work[c][i] EXCEPT !.tries = @ + 1]
  <2>1. v \in Steps /\ v.at = At(c, i)
    BY <1>0, <1>6, AttemptsAssumption DEF Deadlock, Steps, At
  <2>2. work' = [work EXCEPT ![c][i] = v]
    BY <1>6 DEF Deadlock
  <2>3. (v.at = "triage" /\ Job[c].kind # "followup") => Home(c) \notin written[CaseOf(c, i)]
    BY <2>1 DEF RunnerInv, Unwritten
  <2>4. UNCHANGED <<env, lock, call, written, resets>>
    BY <1>6 DEF Deadlock
  <2> HIDE DEF v
  <2> QED BY <1>1, <2>1, <2>2, <2>3, <2>4, ItemKeeps
<1> QED BY <1>3, <1>4, <1>5, <1>6 DEF ItemStep

LEMMA StepHolds == RunnerInv /\ [Next]_runnerVars => RunnerInv'
<1> SUFFICES ASSUME RunnerInv, [Next]_runnerVars PROVE RunnerInv'
  OBVIOUS
<1>1. CASE UNCHANGED runnerVars
  BY <1>1 DEF runnerVars, RunnerInv, RunnerTypeOK, Locked, Scoped, Unwritten, At
<1>2. CASE Reset
  BY <1>2, ResetKeeps
<1>3. ASSUME NEW c \in Calls, Acquire(c) PROVE RunnerInv'
  BY <1>3, AcquireKeeps
<1>4. ASSUME NEW c \in Calls, CallStep(c) PROVE RunnerInv'
  <2>1. CASE Arrive(c)
    BY <2>1, ArriveKeeps
  <2>2. CASE Take(c)
    BY <2>2, TakeKeeps
  <2>3. CASE Raise(c)
    BY <2>3, LeaveKeeps DEF Raise, Active, Transactions
  <2>4. CASE Leave(c)
    BY <2>4, LeaveKeeps DEF Leave, Active, Transactions, Ended
  <2>5. CASE \E i \in Items(c) : ItemStep(c, i)
    BY <2>5, ItemStepKeeps
  <2> QED BY <1>4, <2>1, <2>2, <2>3, <2>4, <2>5 DEF CallStep
<1> QED BY <1>1, <1>2, <1>3, <1>4 DEF Next

LEMMA RunnerInvHolds == Spec => []RunnerInv
BY InitHolds, StepHolds, PTL DEF Spec

------------------------------------------------------------------------------------
(* The theorems.                                                                     *)

\* Every variable keeps its type, whatever calls, processes and cases there are.
THEOREM RunnerTypes == Spec => []RunnerTypeOK
BY RunnerInvHolds, PTL DEF RunnerInv

\* The runs of a process see the fixed date and the case their seed check saw; the operator's
\* date is back when nobody runs.
THEOREM RunsDoNotMeet == Spec => []RunsAreIsolated
<1>1. RunnerInv => RunsAreIsolated
  <2> SUFFICES ASSUME RunnerInv PROVE RunsAreIsolated
    OBVIOUS
  <2>1. \A c \in Calls : Busy(c) # {} => env[Home(c)] = FixedDate
    BY DEF RunnerInv, Scoped, Locked, Busy
  <2>2. ASSUME NEW p \in Processes, \A c \in Calls : Home(c) = p => call[c].pc # "inside"
        PROVE  env[p] = Configured
    BY <2>2 DEF RunnerInv, RunnerTypeOK, Locked
  <2>3. Unwritten
    BY DEF RunnerInv
  <2> QED BY <2>1, <2>2, <2>3 DEF RunsAreIsolated, Unwritten
<1> QED BY <1>1, RunnerInvHolds, PTL
====================================================================================
