--------------------------- MODULE JobQueueProofs ---------------------------
(***************************************************************************)
(* Proofs about JobQueue for any jobs, instances, batch size, attempts and *)
(* interruptions.  What concerns the work being done once at a time is     *)
(* proved for batches that do not outlive the stale lock.                  *)
(***************************************************************************)
EXTENDS JobQueue, TLAPS

(***************************************************************************)
(* The inductive invariant.  Whoever holds a row in its batch holds it     *)
(* alone, RUNNING, with a fresh lock and the attempts the row still has;   *)
(* an instance that handles a job holds it, and has done its work once it  *)
(* gets to record so; one between two ticks holds nothing; and the         *)
(* attempts of a job stay within the budget and what interruptions added.  *)
(***************************************************************************)
HeldInv == \A i \in Instances : \A j \in Jobs :
             Holds(i, j) => /\ status[j] = "RUNNING"
                            /\ ~stale[j]
                            /\ attempts[j] = claimed[i][j]

HandlingInv == \A i \in Instances :
  /\ pc[i] \in {"handle", "returned"} => handling[i] \in Jobs /\ Holds(i, handling[i])
  /\ pc[i] = "returned" => effects[handling[i]] > 0
  /\ pc[i] \in {"idle", "claim"} => \A j \in Jobs : ~Holds(i, j)

Held(j) == \E i \in Instances : Holds(i, j)

BudgetInv == \A j \in Jobs :
  /\ attempts[j] <= MaxAttempts + interruptions
  /\ status[j] \in {"NONE", "QUEUED"} => attempts[j] < MaxAttempts + interruptions
  /\ status[j] = "RUNNING" /\ ~Held(j) => attempts[j] < MaxAttempts + interruptions

TInv == TypeOK /\ HandlingInv
IInv == TInv /\ OneRunner /\ HeldInv /\ BudgetInv

-----------------------------------------------------------------------------
(* Types, and what an instance knows of the job it handles: true however    *)
(* slow the handlers are.                                                   *)

LEMMA InitTInv == Init => TInv
BY JobQueueAssumption DEF Init, TInv, TypeOK, HandlingInv, Statuses, NoBatch, Holds

\* Leaving a job for the next one, or for the end of the tick.
LEMMA NextJobHandling ==
  ASSUME TInv, NEW i \in Instances, NEW j \in Jobs, NextJob(i, j), UNCHANGED effects
  PROVE /\ HandlingInv'
        /\ pc' \in [Instances -> {"idle", "claim", "run", "handle", "returned"}]
        /\ claimed' \in [Instances -> [Jobs -> Nat]]
        /\ handling' \in [Instances -> Jobs \union {NoJob}]
<1> USE DEF TInv, TypeOK, NextJob
<1>1. \A k \in Instances \ {i} : /\ pc'[k] = pc[k]
                                 /\ claimed'[k] = claimed[k]
                                 /\ handling'[k] = handling[k]
  OBVIOUS
<1>2. claimed'[i] = [claimed[i] EXCEPT ![j] = 0]
  OBVIOUS
<1>3. pc'[i] = IF Batch(i) \subseteq {j} THEN "idle" ELSE "run"
  OBVIOUS
<1>4. pc'[i] = "idle" => \A k \in Jobs : ~Holds(i, k)'
  BY <1>2, <1>3 DEF Batch, Holds
<1>5. HandlingInv'
  BY <1>1, <1>3, <1>4 DEF HandlingInv, Holds
<1> QED
  BY <1>5

\* Nothing but the rows of the table changes.
LEMMA RowsOnly == ASSUME HandlingInv, UNCHANGED <<instanceVars, effects>> PROVE HandlingInv'
BY DEF HandlingInv, Holds, instanceVars

LEMMA StepTInv == TInv /\ [Next]_vars => TInv'
<1> SUFFICES ASSUME TInv, [Next]_vars PROVE TInv'
  OBVIOUS
<1> USE JobQueueAssumption DEF TInv, TypeOK, Statuses
<1>1. CASE UNCHANGED vars
  BY <1>1, RowsOnly DEF vars, rowVars, instanceVars
<1>2. CASE \E j \in Jobs : Enqueue(j) \/ BecomesDue(j) \/ BecomesStale(j) \/ Retry(j) \/ Cancel(j)
  <2>1. ASSUME NEW j \in Jobs, Enqueue(j) PROVE TInv'
    BY <2>1, RowsOnly DEF Enqueue, instanceVars
  <2>2. ASSUME NEW j \in Jobs, BecomesDue(j) \/ BecomesStale(j) PROVE TInv'
    BY <2>2, RowsOnly DEF BecomesDue, BecomesStale, instanceVars
  <2>3. ASSUME NEW j \in Jobs, Retry(j) PROVE TInv'
    BY <2>3, RowsOnly DEF Retry, instanceVars
  <2>4. ASSUME NEW j \in Jobs, Cancel(j) PROVE TInv'
    BY <2>4, RowsOnly DEF Cancel, instanceVars
  <2> QED
    BY <1>2, <2>1, <2>2, <2>3, <2>4
<1>3. ASSUME NEW i \in Instances, RecoverStaleJobs(i) PROVE TInv'
  BY <1>3 DEF RecoverStaleJobs, HandlingInv, Holds
<1>4. ASSUME NEW i \in Instances, ClaimBatch(i) PROVE TInv'
  BY <1>4 DEF ClaimBatch, HandlingInv, Holds
<1>5. ASSUME NEW i \in Instances, NEW j \in Jobs, RunUnhandled(i, j) PROVE TInv'
  BY <1>5, NextJobHandling DEF RunUnhandled
<1>6. ASSUME NEW i \in Instances, NEW j \in Jobs, RunStart(i, j) PROVE TInv'
  BY <1>6 DEF RunStart, rowVars, HandlingInv, Holds
<1>7. ASSUME NEW i \in Instances, HandlerReturns(i) PROVE TInv'
  BY <1>7 DEF HandlerReturns, rowVars, HandlingInv, Holds
<1>8. ASSUME NEW i \in Instances, RunSucceeds(i) PROVE TInv'
  <2>1. handling[i] \in Jobs
    BY <1>8 DEF RunSucceeds, HandlingInv
  <2> QED
    BY <1>8, <2>1, NextJobHandling DEF RunSucceeds
<1>9. ASSUME NEW i \in Instances, RunFails(i) PROVE TInv'
  <2>1. handling[i] \in Jobs
    BY <1>9 DEF RunFails, HandlingInv
  <2>2. NextJob(i, handling[i]) /\ UNCHANGED effects
    BY <1>9 DEF RunFails
  <2> QED
    BY <1>9, <2>1, <2>2, NextJobHandling DEF RunFails
<1>10. ASSUME NEW i \in Instances, Interrupt(i) PROVE TInv'
  BY <1>10 DEF Interrupt, NoBatch, rowVars, HandlingInv, Holds
<1> QED
  BY <1>1, <1>2, <1>3, <1>4, <1>5, <1>6, <1>7, <1>8, <1>9, <1>10 DEF Next, Tick

\* Every variable keeps its type, slow handlers or not.
THEOREM TypeCorrect == Spec => []TypeOK
<1>1. Spec => []TInv
  BY InitTInv, StepTInv, PTL DEF Spec
<1> QED
  BY <1>1, PTL DEF TInv

-----------------------------------------------------------------------------
(* One runner at a time, when no batch outlives the stale lock.             *)

LEMMA StepHeld ==
  ASSUME ~SlowHandlers, TInv, OneRunner, HeldInv, [Next]_vars
  PROVE OneRunner' /\ HeldInv'
<1> USE JobQueueAssumption DEF TInv, TypeOK, OneRunner, HeldInv, HandlingInv, Holds
<1>1. CASE UNCHANGED vars
  BY <1>1 DEF vars, rowVars, instanceVars
<1>2. CASE \E j \in Jobs : Enqueue(j) \/ BecomesDue(j) \/ BecomesStale(j) \/ Retry(j) \/ Cancel(j)
  <2>1. ASSUME NEW j \in Jobs, Enqueue(j) PROVE OneRunner' /\ HeldInv'
    BY <2>1 DEF Enqueue, instanceVars
  <2>2. ASSUME NEW j \in Jobs, BecomesDue(j) \/ BecomesStale(j) PROVE OneRunner' /\ HeldInv'
    BY <2>2, SMTT(30) DEF BecomesDue, BecomesStale, instanceVars
  <2>3. ASSUME NEW j \in Jobs, Retry(j) PROVE OneRunner' /\ HeldInv'
    BY <2>3 DEF Retry, instanceVars
  <2>4. ASSUME NEW j \in Jobs, Cancel(j) PROVE OneRunner' /\ HeldInv'
    BY <2>4 DEF Cancel, instanceVars
  <2> QED
    BY <1>2, <2>1, <2>2, <2>3, <2>4
<1>3. ASSUME NEW i \in Instances, RecoverStaleJobs(i) PROVE OneRunner' /\ HeldInv'
  BY <1>3 DEF RecoverStaleJobs, Abandoned
<1>4. ASSUME NEW i \in Instances, ClaimBatch(i) PROVE OneRunner' /\ HeldInv'
  BY <1>4 DEF ClaimBatch, Claimable
<1>5. ASSUME NEW i \in Instances, NEW j \in Jobs, RunUnhandled(i, j) PROVE OneRunner' /\ HeldInv'
  BY <1>5 DEF RunUnhandled, NextJob
<1>6. ASSUME NEW i \in Instances, NEW j \in Jobs, RunStart(i, j) PROVE OneRunner' /\ HeldInv'
  BY <1>6 DEF RunStart, rowVars
<1>7. ASSUME NEW i \in Instances, HandlerReturns(i) PROVE OneRunner' /\ HeldInv'
  BY <1>7 DEF HandlerReturns, rowVars
<1>8. ASSUME NEW i \in Instances, RunSucceeds(i) PROVE OneRunner' /\ HeldInv'
  BY <1>8 DEF RunSucceeds, NextJob
<1>9. ASSUME NEW i \in Instances, RunFails(i) PROVE OneRunner' /\ HeldInv'
  BY <1>9 DEF RunFails, NextJob
<1>10. ASSUME NEW i \in Instances, Interrupt(i) PROVE OneRunner' /\ HeldInv'
  BY <1>10 DEF Interrupt, NoBatch, rowVars
<1> QED
  BY <1>1, <1>2, <1>3, <1>4, <1>5, <1>6, <1>7, <1>8, <1>9, <1>10 DEF Next, Tick
-----------------------------------------------------------------------------
(* The budget of attempts.                                                  *)

LEMMA StepBudget ==
  ASSUME TInv, TInv', OneRunner, HeldInv, BudgetInv, [Next]_vars
  PROVE BudgetInv'
<1> USE JobQueueAssumption DEF TInv, TypeOK, OneRunner, HeldInv, HandlingInv, BudgetInv, Holds, Held
<1>1. CASE UNCHANGED vars
  BY <1>1 DEF vars, rowVars, instanceVars
<1>2. CASE \E j \in Jobs : Enqueue(j) \/ BecomesDue(j) \/ BecomesStale(j) \/ Retry(j) \/ Cancel(j)
  <2>1. ASSUME NEW j \in Jobs, Enqueue(j) PROVE BudgetInv'
    BY <2>1 DEF Enqueue, instanceVars
  <2>2. ASSUME NEW j \in Jobs, BecomesDue(j) \/ BecomesStale(j) PROVE BudgetInv'
    BY <2>2 DEF BecomesDue, BecomesStale, instanceVars
  <2>3. ASSUME NEW j \in Jobs, Retry(j) PROVE BudgetInv'
    <3>1. attempts'[j] = 0 /\ status'[j] = "QUEUED" /\ interruptions' = interruptions
      BY <2>3 DEF Retry
    <3>2. \A k \in Jobs \ {j} : attempts'[k] = attempts[k] /\ status'[k] = status[k]
      BY <2>3 DEF Retry
    <3>3. UNCHANGED claimed
      BY <2>3 DEF Retry, instanceVars
    <3>4. 0 < MaxAttempts + interruptions
      <4>1. MaxAttempts \in Nat /\ MaxAttempts > 0 /\ interruptions \in Nat
        OBVIOUS
      <4> QED
        BY <4>1
    <3>5. \A k \in Jobs : Held(k)' <=> Held(k)
      BY <3>3
    <3> QED
      BY <3>1, <3>2, <3>4, <3>5
  <2>4. ASSUME NEW j \in Jobs, Cancel(j) PROVE BudgetInv'
    BY <2>4 DEF Cancel, instanceVars
  <2> QED
    BY <1>2, <2>1, <2>2, <2>3, <2>4
<1>3. ASSUME NEW i \in Instances, RecoverStaleJobs(i) PROVE BudgetInv'
  BY <1>3 DEF RecoverStaleJobs, Abandoned
<1>4. ASSUME NEW i \in Instances, ClaimBatch(i) PROVE BudgetInv'
  BY <1>4 DEF ClaimBatch, Claimable
<1>5. ASSUME NEW i \in Instances, NEW j \in Jobs, RunUnhandled(i, j) PROVE BudgetInv'
  BY <1>5 DEF RunUnhandled, NextJob
<1>6. ASSUME NEW i \in Instances, NEW j \in Jobs, RunStart(i, j) PROVE BudgetInv'
  BY <1>6 DEF RunStart, rowVars
<1>7. ASSUME NEW i \in Instances, HandlerReturns(i) PROVE BudgetInv'
  BY <1>7 DEF HandlerReturns, rowVars
<1>8. ASSUME NEW i \in Instances, RunSucceeds(i) PROVE BudgetInv'
  BY <1>8 DEF RunSucceeds, NextJob
<1>9. ASSUME NEW i \in Instances, RunFails(i) PROVE BudgetInv'
  BY <1>9 DEF RunFails, NextJob, OutOfAttempts
<1>10. ASSUME NEW i \in Instances, Interrupt(i) PROVE BudgetInv'
  BY <1>10 DEF Interrupt, NoBatch, rowVars
<1> QED
  BY <1>1, <1>2, <1>3, <1>4, <1>5, <1>6, <1>7, <1>8, <1>9, <1>10 DEF Next, Tick

LEMMA InitIInv == Init => IInv
BY InitTInv, JobQueueAssumption
   DEF Init, IInv, OneRunner, HeldInv, BudgetInv, Held, Holds, NoBatch

\* Together: the invariant is inductive when no batch outlives the stale lock.
THEOREM Inductive == ASSUME ~SlowHandlers PROVE Spec => []IInv
<1>1. IInv /\ [Next]_vars => IInv'
  BY StepTInv, StepHeld, StepBudget DEF IInv
<1> QED
  BY <1>1, InitIInv, PTL DEF Spec

\* When no batch outlives the stale lock, two instances never hold the same job.
THEOREM OneRunnerAtATime == ASSUME ~SlowHandlers PROVE Spec => []OneRunner
BY Inductive, PTL DEF IInv

\* Attempts beyond maxAttempts are accounted for by interruptions.
THEOREM Budget == ASSUME ~SlowHandlers PROVE Spec => []AttemptsWithinBudget
<1>1. IInv => AttemptsWithinBudget
  BY DEF IInv, BudgetInv, AttemptsWithinBudget
<1> QED
  BY <1>1, Inductive, PTL

-----------------------------------------------------------------------------
(* The queue implements JobPromise.                                         *)

LEMMA OutcomeOfStatus ==
  /\ OutcomeOf("NONE") = "none"
  /\ OutcomeOf("QUEUED") = "open"
  /\ OutcomeOf("RUNNING") = "open"
  /\ OutcomeOf("SUCCEEDED") = "done"
  /\ OutcomeOf("DEAD") = "dropped"
  /\ OutcomeOf("CANCELLED") = "dropped"
BY DEF OutcomeOf

outcome == [j \in Jobs |-> OutcomeOf(status[j])]

\* A step that changes the status of one job changes its outcome and no other.
LEMMA OneOutcome ==
  ASSUME TypeOK, NEW j \in Jobs, NEW s \in Statuses, status' = [status EXCEPT ![j] = s]
  PROVE outcome' = [outcome EXCEPT ![j] = OutcomeOf(s)]
BY DEF TypeOK, outcome

LEMMA InitPromise == Init => Promise!Init
BY OutcomeOfStatus DEF Init, Promise!Init

LEMMA StepPromise ==
  ASSUME IInv, [Next]_vars
  PROVE [Promise!Next]_(Promise!promiseVars)
<1> DEFINE Step == [Promise!Next]_(Promise!promiseVars)
<1> USE OutcomeOfStatus DEF IInv, TInv, Promise!promiseVars, outcome
<1>1. CASE UNCHANGED vars
  BY <1>1 DEF vars, rowVars
<1>2. ASSUME NEW j \in Jobs, Enqueue(j) PROVE Step
  <2>1. outcome' = [outcome EXCEPT ![j] = "open"] /\ outcome[j] = "none"
    BY <1>2, OneOutcome DEF Enqueue, Statuses, TypeOK
  <2> QED
    BY <1>2, <2>1 DEF Enqueue, Promise!Next, Promise!Submit
<1>3. ASSUME NEW j \in Jobs, BecomesDue(j) \/ BecomesStale(j) PROVE Step
  BY <1>3 DEF BecomesDue, BecomesStale
<1>4. ASSUME NEW j \in Jobs, Retry(j) PROVE Step
  <2>1. outcome' = [outcome EXCEPT ![j] = "open"] /\ outcome[j] = "dropped"
    BY <1>4, OneOutcome DEF Retry, Statuses, TypeOK
  <2> QED
    BY <1>4, <2>1 DEF Retry, Promise!Next, Promise!Reopen
<1>5. ASSUME NEW j \in Jobs, Cancel(j) PROVE Step
  <2>1. outcome' = [outcome EXCEPT ![j] = "dropped"] /\ outcome[j] = "open"
    BY <1>5, OneOutcome DEF Cancel, Statuses, TypeOK
  <2> QED
    BY <1>5, <2>1 DEF Cancel, Promise!Next, Promise!Drop
<1>6. ASSUME NEW i \in Instances, RecoverStaleJobs(i) \/ ClaimBatch(i) PROVE Step
  <2>1. \A j \in Jobs : OutcomeOf(status'[j]) = OutcomeOf(status[j])
    BY <1>6 DEF RecoverStaleJobs, Abandoned, ClaimBatch, Claimable
  <2> QED
    BY <1>6, <2>1 DEF RecoverStaleJobs, ClaimBatch
<1>7. ASSUME NEW i \in Instances, NEW j \in Jobs, RunUnhandled(i, j) PROVE Step
  <2>1. outcome' = [outcome EXCEPT ![j] = "dropped"] /\ outcome[j] = "open"
    BY <1>7, OneOutcome DEF RunUnhandled, Statuses, TypeOK, HeldInv
  <2> QED
    BY <1>7, <2>1 DEF RunUnhandled, Promise!Next, Promise!Drop
<1>8. ASSUME NEW i \in Instances, NEW j \in Jobs, RunStart(i, j) PROVE Step
  BY <1>8 DEF RunStart, rowVars
<1>9. ASSUME NEW i \in Instances, HandlerReturns(i) PROVE Step
  <2>1. handling[i] \in Jobs /\ outcome[handling[i]] = "open"
    BY <1>9 DEF HandlerReturns, HandlingInv, HeldInv
  <2> QED
    BY <1>9, <2>1 DEF HandlerReturns, rowVars, Promise!Next, Promise!Perform
<1>10. ASSUME NEW i \in Instances, RunSucceeds(i) PROVE Step
  <2>1. handling[i] \in Jobs /\ outcome[handling[i]] = "open" /\ effects[handling[i]] > 0
    BY <1>10 DEF RunSucceeds, HandlingInv, HeldInv
  <2>2. outcome' = [outcome EXCEPT ![handling[i]] = "done"]
    BY <1>10, <2>1, OneOutcome DEF RunSucceeds, Statuses
  <2> QED
    BY <1>10, <2>1, <2>2 DEF RunSucceeds, Promise!Next, Promise!Complete
<1>11. ASSUME NEW i \in Instances, RunFails(i) PROVE Step
  <2> DEFINE j == handling[i]
  <2>1. j \in Jobs /\ outcome[j] = "open"
    BY <1>11 DEF RunFails, HandlingInv, HeldInv
  <2>2. CASE OutOfAttempts(claimed[i][j])
    <3>1. outcome' = [outcome EXCEPT ![j] = "dropped"]
      BY <1>11, <2>1, <2>2, OneOutcome DEF RunFails, Statuses
    <3> QED
      BY <1>11, <2>1, <3>1 DEF RunFails, Promise!Next, Promise!Drop
  <2>3. CASE ~OutOfAttempts(claimed[i][j])
    <3>1. outcome' = [outcome EXCEPT ![j] = "open"]
      BY <1>11, <2>1, <2>3, OneOutcome DEF RunFails, Statuses
    <3> QED
      BY <1>11, <2>1, <3>1 DEF RunFails
  <2> QED
    BY <2>2, <2>3
<1>12. ASSUME NEW i \in Instances, Interrupt(i) PROVE Step
  BY <1>12 DEF Interrupt, rowVars
<1> QED
  BY <1>1, <1>2, <1>3, <1>4, <1>5, <1>6, <1>7, <1>8, <1>9, <1>10, <1>11, <1>12 DEF Next, Tick

\* When no batch outlives the stale lock, the queue implements JobPromise.
THEOREM Refinement == ASSUME ~SlowHandlers PROVE Spec => ImplementsJobPromise
<1>1. IInv /\ [Next]_vars => [Promise!Next]_(Promise!promiseVars)
  BY StepPromise
<1> QED
  BY <1>1, InitPromise, Inductive, PTL DEF Spec, ImplementsJobPromise, Promise!Spec
=============================================================================
