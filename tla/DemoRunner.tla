--------------------------------- MODULE DemoRunner ---------------------------------
(***********************************************************************************)
(* The processes that run the demo corpus against one database: the command line's     *)
(* batch with its pool of workers, a request for one case, a customer's follow-up.       *)
(* Policy reads its evaluation date from an environment variable, which a process has      *)
(* one of, so every run of the graph happens inside a scope that holds one lock, sets the   *)
(* variable and restores it.  Transactions are retried after a deadlock, three times.        *)
(***********************************************************************************)
EXTENDS Integers, Sequences, FiniteSets

CONSTANTS
  Processes,
  Cases,
  Calls,          \* bound: the calls made, each by a thread of its own
  Job,            \* what a call is: its process, its kind, its cases in order, its workers
  Waiting,        \* the cases that wait for a customer from the start
  Configured,     \* what the operator set the variable to
  Attempts,       \* MYSQL_TRANSACTION_ATTEMPTS
  MaxResets       \* bound: resets of the corpus

Kinds == {"batch", "case", "followup"}

ASSUME JobAssumption ==
  Job \in [Calls -> [home : Processes, kind : Kinds, cases : Seq(Cases), workers : 1..4]]
\* A batch runs each case of the corpus once (main.py, and the order of DEMO_IDS).
ASSUME DistinctAssumption ==
  \A c \in Calls : \A i, j \in DOMAIN Job[c].cases : Job[c].cases[i] = Job[c].cases[j] => i = j
ASSUME AttemptsAssumption == Attempts \in Nat \ {0}
ASSUME ResetsAssumption == MaxResets \in Nat

VARIABLES
  env,            \* POLICY_EVALUATION_DATE of a process
  lock,           \* _ENVIRONMENT_LOCK of a process
  call,           \* a call: where it is and the value of the variable it will restore
  work,           \* its cases, by position: the step each is at, the attempts at it
  written,        \* the processes whose runs have left rows for a case since its seeding
  resets

runnerVars == <<env, lock, call, work, written, resets>>

FixedDate == "fixed"
Free == "free"
ASSUME FreeAssumption == Free \notin Calls

Items(c) == DOMAIN Job[c].cases
Home(c) == Job[c].home

\* A run of the graph until its first rows, those of Triage, and from there to its last; and
\* the record of a run that failed.
Transactions == {"triage", "rest", "record"}
Ended == {"ok", "failed"}
Active == Transactions \cup {"verify"}

At(c, i) == work[c][i].at

CaseOf(c, i) == Job[c].cases[i]

Busy(c) == {i \in Items(c) : At(c, i) \in Active}

\* An item moves on, to the first attempt at its next step.
Goto(c, i, at) == work' = [work EXCEPT ![c][i] = [at |-> at, tries |-> 1]]

------------------------------------------------------------------------------------
(* A call and its scope.                                                             *)

Claimable(x) == x \in Waiting /\ resets = 0

\* The case has no rows but its seed.
Seeded(x) == written[x] = {} /\ (x \in Waiting => resets > 0)

\* A follow-up claims its case before it asks for the lock; other calls just wait.
Arrive(c) ==
  /\ call[c].pc = "new"
  /\ call' = [call EXCEPT ![c].pc =
       IF Job[c].kind = "followup" /\ ~Claimable(CaseOf(c, 1)) THEN "refused" ELSE "wait"]
  /\ UNCHANGED <<env, lock, work, written, resets>>

\* Seeded fault: the variable is set and restored without the lock.
Acquire_Unlocked(c) ==
  /\ call[c].pc = "wait"
  /\ call' = [call EXCEPT ![c] = [pc |-> "inside", saved |-> env[Home(c)]]]
  /\ env' = [env EXCEPT ![Home(c)] = FixedDate]
  /\ UNCHANGED <<lock, work, written, resets>>

\* _scoped_environment, entry.
Acquire(c) ==
  /\ call[c].pc = "wait" /\ lock[Home(c)] = Free
  /\ lock' = [lock EXCEPT ![Home(c)] = c]
  /\ call' = [call EXCEPT ![c] = [pc |-> "inside", saved |-> env[Home(c)]]]
  /\ env' = [env EXCEPT ![Home(c)] = FixedDate]
  /\ UNCHANGED <<work, written, resets>>

\* _scoped_environment, exit.
Restore(c) ==
  /\ lock' = [lock EXCEPT ![Home(c)] = Free]
  /\ env' = [env EXCEPT ![Home(c)] = call[c].saved]

\* Seeded fault: the scope of a batch that raises is never left.
Raise_InScope(c) ==
  /\ call[c].pc = "inside" /\ Job[c].kind = "batch"
  /\ \A i \in Items(c) : At(c, i) = "queued"
  /\ call' = [call EXCEPT ![c].pc = "raised"]
  /\ UNCHANGED <<env, lock, work, written, resets>>

\* A batch builds the repository and the graph before its first case; if it cannot, it raises.
Raise(c) ==
  /\ call[c].pc = "inside" /\ Job[c].kind = "batch"
  /\ \A i \in Items(c) : At(c, i) = "queued"
  /\ call' = [call EXCEPT ![c].pc = "raised"]
  /\ Restore(c)
  /\ UNCHANGED <<work, written, resets>>

\* The cases of a call are taken in order, at most as many at a time as it has workers; the
\* graph of a follow-up starts at once, its claim has taken the place of the seed check.
Take(c) ==
  /\ call[c].pc = "inside" /\ Cardinality(Busy(c)) < Job[c].workers
  /\ \E i \in Items(c) :
       /\ At(c, i) = "queued" /\ \A j \in Items(c) : j < i => At(c, j) # "queued"
       /\ Goto(c, i, IF Job[c].kind = "followup" THEN "triage" ELSE "verify")
  /\ UNCHANGED <<env, lock, call, written, resets>>

\* The call returns when all its cases have ended; the pool is drained before that.
Leave(c) ==
  /\ call[c].pc = "inside"
  /\ \A i \in Items(c) : At(c, i) \in Ended
  /\ call' = [call EXCEPT ![c].pc = "returned"]
  /\ Restore(c)
  /\ UNCHANGED <<work, written, resets>>

------------------------------------------------------------------------------------
(* A case of a call.                                                                 *)

\* verify_seeded_case; a failure here is recorded nowhere.
Verify(c, i) ==
  /\ At(c, i) = "verify"
  /\ \/ Seeded(CaseOf(c, i)) /\ Goto(c, i, "triage")
     \/ Goto(c, i, "failed")
  /\ UNCHANGED <<env, lock, call, written, resets>>

After(step) == [triage |-> "rest", rest |-> "ok", record |-> "failed"][step]

Commit(c, i) ==
  /\ At(c, i) \in Transactions
  /\ written' = [written EXCEPT ![CaseOf(c, i)] = @ \cup {Home(c)}]
  /\ Goto(c, i, After(At(c, i)))
  /\ UNCHANGED <<env, lock, call, resets>>

\* A step fails, of itself or after its last attempt: the run is recorded as failed, and if
\* that fails too it just ends.
Break(c, i) ==
  /\ At(c, i) \in Transactions
  /\ Goto(c, i, IF At(c, i) = "record" THEN "failed" ELSE "record")
  /\ UNCHANGED <<env, lock, call, written, resets>>

\* _retry_mysql_transaction: a deadlock or a lock timeout rolls back and the method runs
\* again; the last attempt's goes the way of any other error.
Deadlock(c, i) ==
  /\ At(c, i) \in Transactions
  /\ work[c][i].tries < Attempts
  /\ work' = [work EXCEPT ![c][i].tries = @ + 1]
  /\ UNCHANGED <<env, lock, call, written, resets>>

\* reset_demo: every case is its seed again, whoever is running it.
Reset ==
  /\ resets < MaxResets
  /\ resets' = resets + 1
  /\ written' = [x \in Cases |-> {}]
  /\ UNCHANGED <<env, lock, call, work>>

ItemStep(c, i) == Verify(c, i) \/ Commit(c, i) \/ Break(c, i) \/ Deadlock(c, i)

CallStep(c) ==
  \/ Arrive(c) \/ Raise(c) \/ Take(c) \/ Leave(c)
  \/ \E i \in Items(c) : ItemStep(c, i)

Init ==
  /\ env = [p \in Processes |-> Configured]
  /\ lock = [p \in Processes |-> Free]
  /\ call = [c \in Calls |-> [pc |-> "new", saved |-> Configured]]
  /\ work = [c \in Calls |-> [i \in Items(c) |-> [at |-> "queued", tries |-> 1]]]
  /\ written = [x \in Cases |-> {}]
  /\ resets = 0

Next == Reset \/ \E c \in Calls : CallStep(c) \/ Acquire(c)

\* A thread that can go on does, and database and model answer or time out.  The lock is not
\* fair; a call still gets it, for the others that want it are as many as there are calls.
Fairness ==
  \A c \in Calls :
    /\ WF_runnerVars(Acquire(c))
    /\ WF_runnerVars(Arrive(c)) /\ WF_runnerVars(Take(c)) /\ WF_runnerVars(Leave(c))
    /\ \A i \in Items(c) : WF_runnerVars(ItemStep(c, i))

Spec == Init /\ [][Next]_runnerVars /\ Fairness
------------------------------------------------------------------------------------
(* Properties.                                                                      *)

RunnerTypeOK ==
  /\ env \in [Processes -> {Configured, FixedDate}]
  /\ lock \in [Processes -> Calls \cup {Free}]
  /\ call \in [Calls -> [pc : {"new", "refused", "wait", "inside", "raised", "returned"},
                         saved : {Configured, FixedDate}]]
  /\ work = [c \in Calls |-> work[c]]
  /\ \A c \in Calls :
       work[c] \in [Items(c) -> [at : Active \cup Ended \cup {"queued"}, tries : 1..Attempts]]
  /\ written \in [Cases -> SUBSET Processes]
  /\ resets \in 0..MaxResets

\* The runs of one process do not disturb one another.  Whatever thread Policy runs on, the
\* date is the fixed one while it runs and the operator's when nobody runs; and a seed check
\* that passed still holds when the run first writes, for no other run of the process has
\* written since.
RunsAreIsolated ==
  /\ \A c \in Calls : Busy(c) # {} => env[Home(c)] = FixedDate
  /\ \A p \in Processes :
       (\A c \in Calls : Home(c) = p => call[c].pc # "inside") => env[p] = Configured
  /\ \A c \in Calls : \A i \in Items(c) :
       (At(c, i) = "triage" /\ Job[c].kind # "followup") => Home(c) \notin written[CaseOf(c, i)]

\* Every call comes back, with a result for each of its cases: neither the lock, nor a worker
\* that failed, nor deadlocks without end keep it ("failure isolation", main.py).
EveryCallReturns ==
  \A c \in Calls : <>[](/\ call[c].pc \in {"refused", "raised", "returned"}
                        /\ call[c].pc = "returned" => \A i \in Items(c) : At(c, i) \in Ended)
====================================================================================
