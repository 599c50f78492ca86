------------------------------ MODULE JobQueue ------------------------------
(***************************************************************************)
(* The Postgres job queue of automation-queue.service.ts, run by several   *)
(* instances of the back end.  An instance ticks: it returns stale jobs to *)
(* the queue, claims a batch in one statement and runs the batch one job   *)
(* after the other, each from the row it got when it claimed.              *)
(* Time is kept as two facts about a job: whether runAt has come, and      *)
(* whether its lock is older than STALE_LOCK_MS.                           *)
(***************************************************************************)
EXTENDS Integers, FiniteSets

CONSTANTS
  Jobs,             \* idempotency keys that may be enqueued
  Handled,          \* those of a type with a registered handler
  Instances,        \* processes that run the worker
  NoJob,            \* not a job: what an instance between jobs is handling
  MaxAttempts,      \* AutomationJob.maxAttempts
  BatchSize,        \* BATCH_SIZE
  SlowHandlers,     \* whether a batch may take longer than STALE_LOCK_MS
  MaxInterruptions, \* bound: restarts and aborted ticks
  MaxRetries        \* bound: admin retries

ASSUME JobQueueAssumption ==
  /\ NoJob \notin Jobs
  /\ Handled \subseteq Jobs
  /\ MaxAttempts \in Nat \ {0} /\ BatchSize \in Nat \ {0}
  /\ MaxInterruptions \in Nat /\ MaxRetries \in Nat
  /\ SlowHandlers \in BOOLEAN

VARIABLES
  status,        \* AutomationJob.status, or NONE before the row exists
  attempts,      \* AutomationJob.attempts
  due,           \* runAt <= NOW()
  stale,         \* lockedAt is older than STALE_LOCK_MS; of no meaning unless RUNNING
  pc,            \* what each instance does next
  claimed,       \* per instance, the attempts in each row of its batch, 0 outside it
  handling,      \* the job whose handler each instance is running
  effects,       \* how often each job's handler ran to its end
  interruptions, \* restarts and aborted ticks so far
  retries        \* admin retries so far

rowVars == <<status, attempts, due, stale>>
instanceVars == <<pc, claimed, handling>>
vars == <<rowVars, instanceVars, effects, interruptions, retries>>

Statuses == {"NONE", "QUEUED", "RUNNING", "SUCCEEDED", "DEAD", "CANCELLED"}
NoBatch == [j \in Jobs |-> 0]

Init ==
  /\ status = [j \in Jobs |-> "NONE"]
  /\ attempts = [j \in Jobs |-> 0]
  /\ due = [j \in Jobs |-> FALSE]
  /\ stale = [j \in Jobs |-> FALSE]
  /\ pc = [i \in Instances |-> "idle"]
  /\ claimed = [i \in Instances |-> NoBatch]
  /\ handling = [i \in Instances |-> NoJob]
  /\ effects = [j \in Jobs |-> 0]
  /\ interruptions = 0
  /\ retries = 0

Batch(i) == {j \in Jobs : claimed[i][j] > 0}
Holds(i, j) == claimed[i][j] > 0

-----------------------------------------------------------------------------
(* The rows. *)

\* enqueue: a key that exists already changes nothing.  runAt may lie ahead.
Enqueue(j) ==
  /\ status[j] = "NONE"
  /\ status' = [status EXCEPT ![j] = "QUEUED"]
  /\ \E b \in BOOLEAN : due' = [due EXCEPT ![j] = b]
  /\ UNCHANGED <<attempts, stale, instanceVars, effects, interruptions, retries>>

BecomesDue(j) ==
  /\ status[j] = "QUEUED"
  /\ ~due[j]
  /\ due' = [due EXCEPT ![j] = TRUE]
  /\ UNCHANGED <<status, attempts, stale, instanceVars, effects, interruptions, retries>>

\* Ten minutes have passed since the job was claimed.  Unless handlers are slow
\* enough, that only happens to a job whose worker is gone.
BecomesStale(j) ==
  /\ status[j] = "RUNNING"
  /\ ~stale[j]
  /\ SlowHandlers \/ \A i \in Instances : ~Holds(i, j)
  /\ stale' = [stale EXCEPT ![j] = TRUE]
  /\ UNCHANGED <<status, attempts, due, instanceVars, effects, interruptions, retries>>

Retry(j) ==
  /\ status[j] \in {"DEAD", "CANCELLED"}
  /\ retries < MaxRetries
  /\ retries' = retries + 1
  /\ status' = [status EXCEPT ![j] = "QUEUED"]
  /\ attempts' = [attempts EXCEPT ![j] = 0]
  /\ due' = [due EXCEPT ![j] = TRUE]
  /\ UNCHANGED <<stale, instanceVars, effects, interruptions>>

\* Mutant: a running job can be cancelled too.
CancelAny(j) ==
  /\ status[j] \in {"QUEUED", "RUNNING"}
  /\ status' = [status EXCEPT ![j] = "CANCELLED"]
  /\ UNCHANGED <<attempts, due, stale, instanceVars, effects, interruptions, retries>>

Cancel(j) ==
  /\ status[j] = "QUEUED"
  /\ status' = [status EXCEPT ![j] = "CANCELLED"]
  /\ UNCHANGED <<attempts, due, stale, instanceVars, effects, interruptions, retries>>

-----------------------------------------------------------------------------
(* One tick of an instance.  The running flag keeps ticks of one instance   *)
(* apart, so an instance recovers stale jobs only between two batches.      *)

\* Mutant: any RUNNING job is taken for abandoned.
RecoverAnyJob(i) ==
  /\ pc[i] = "idle"
  /\ status' = [j \in Jobs |-> IF status[j] = "RUNNING" THEN "QUEUED" ELSE status[j]]
  /\ stale' = [j \in Jobs |-> FALSE]
  /\ pc' = [pc EXCEPT ![i] = "claim"]
  /\ UNCHANGED <<attempts, due, claimed, handling, effects, interruptions, retries>>

\* Mutant: stale jobs are not returned to the queue.
RecoverNothing(i) ==
  /\ pc[i] = "idle"
  /\ pc' = [pc EXCEPT ![i] = "claim"]
  /\ UNCHANGED <<rowVars, claimed, handling, effects, interruptions, retries>>

Abandoned(j) == status[j] = "RUNNING" /\ stale[j]

RecoverStaleJobs(i) ==
  /\ pc[i] = "idle"
  /\ status' = [j \in Jobs |-> IF Abandoned(j) THEN "QUEUED" ELSE status[j]]
  /\ stale' = [j \in Jobs |-> stale[j] /\ ~Abandoned(j)]
  /\ pc' = [pc EXCEPT ![i] = "claim"]
  /\ UNCHANGED <<attempts, due, claimed, handling, effects, interruptions, retries>>

Claimable == {j \in Jobs : status[j] = "QUEUED" /\ due[j]}

\* The claiming UPDATE.  Which of the due jobs fill the batch is left open.
ClaimBatch(i) ==
  /\ pc[i] = "claim"
  /\ \E batch \in SUBSET Claimable :
       /\ Cardinality(batch) <= BatchSize
       /\ batch # Claimable => Cardinality(batch) = BatchSize
       /\ status' = [j \in Jobs |-> IF j \in batch THEN "RUNNING" ELSE status[j]]
       /\ attempts' = [j \in Jobs |-> IF j \in batch THEN attempts[j] + 1 ELSE attempts[j]]
       /\ stale' = [j \in Jobs |-> stale[j] /\ j \notin batch]
       /\ claimed' = [claimed EXCEPT ![i] =
                        [j \in Jobs |-> IF j \in batch THEN attempts[j] + 1 ELSE 0]]
       /\ pc' = [pc EXCEPT ![i] = IF batch = {} THEN "idle" ELSE "run"]
  /\ UNCHANGED <<due, handling, effects, interruptions, retries>>

\* Leave job j for the next of the batch, or end the tick.
NextJob(i, j) ==
  /\ claimed' = [claimed EXCEPT ![i][j] = 0]
  /\ handling' = [handling EXCEPT ![i] = NoJob]
  /\ pc' = [pc EXCEPT ![i] = IF Batch(i) \subseteq {j} THEN "idle" ELSE "run"]

RunUnhandled(i, j) ==
  /\ pc[i] = "run"
  /\ Holds(i, j)
  /\ j \notin Handled
  /\ status' = [status EXCEPT ![j] = "DEAD"]
  /\ NextJob(i, j)
  /\ UNCHANGED <<attempts, due, stale, effects, interruptions, retries>>

RunStart(i, j) ==
  /\ pc[i] = "run"
  /\ Holds(i, j)
  /\ j \in Handled
  /\ handling' = [handling EXCEPT ![i] = j]
  /\ pc' = [pc EXCEPT ![i] = "handle"]
  /\ UNCHANGED <<rowVars, claimed, effects, interruptions, retries>>

\* The handler has done its work; the row does not say so yet.
HandlerReturns(i) ==
  /\ pc[i] = "handle"
  /\ effects' = [effects EXCEPT ![handling[i]] = @ + 1]
  /\ pc' = [pc EXCEPT ![i] = "returned"]
  /\ UNCHANGED <<rowVars, claimed, handling, interruptions, retries>>

RunSucceeds(i) ==
  /\ pc[i] = "returned"
  /\ status' = [status EXCEPT ![handling[i]] = "SUCCEEDED"]
  /\ NextJob(i, handling[i])
  /\ UNCHANGED <<attempts, due, stale, effects, interruptions, retries>>

OutOfAttempts(n) == n >= MaxAttempts

\* The handler threw, or the update that records its success did.
RunFails(i) ==
  LET j == handling[i]
      dead == OutOfAttempts(claimed[i][j])
  IN /\ pc[i] \in {"handle", "returned"}
     /\ status' = [status EXCEPT ![j] = IF dead THEN "DEAD" ELSE "QUEUED"]
     /\ due' = [due EXCEPT ![j] = dead /\ @]
     /\ NextJob(i, j)
     /\ UNCHANGED <<attempts, stale, effects, interruptions, retries>>

\* The process restarts, or a statement that fails outside a handler aborts the
\* tick: the batch is forgotten and its rows stay RUNNING.
Interrupt(i) ==
  /\ pc[i] # "idle"
  /\ interruptions < MaxInterruptions
  /\ interruptions' = interruptions + 1
  /\ pc' = [pc EXCEPT ![i] = "idle"]
  /\ claimed' = [claimed EXCEPT ![i] = NoBatch]
  /\ handling' = [handling EXCEPT ![i] = NoJob]
  /\ UNCHANGED <<rowVars, effects, retries>>

-----------------------------------------------------------------------------
Tick(i) == \/ RecoverStaleJobs(i)
           \/ ClaimBatch(i)
           \/ \E j \in Jobs : RunUnhandled(i, j) \/ RunStart(i, j)
           \/ HandlerReturns(i)
           \/ RunSucceeds(i)
           \/ RunFails(i)

Next == \/ \E i \in Instances : Tick(i) \/ Interrupt(i)
        \/ \E j \in Jobs : Enqueue(j) \/ BecomesDue(j) \/ BecomesStale(j) \/ Retry(j) \/ Cancel(j)

Spec == Init /\ [][Next]_vars

\* The cron keeps ticking, every handler ends, and time passes.  Nothing is
\* assumed of admins or of the code that enqueues.
FairSpec == /\ Spec
            /\ \A i \in Instances : WF_vars(Tick(i))
            /\ \A j \in Jobs : WF_vars(BecomesDue(j)) /\ WF_vars(BecomesStale(j))

-----------------------------------------------------------------------------
(* Properties. *)

\* Every variable keeps its type.
TypeOK ==
  /\ status \in [Jobs -> Statuses]
  /\ attempts \in [Jobs -> Nat]
  /\ due \in [Jobs -> BOOLEAN]
  /\ stale \in [Jobs -> BOOLEAN]
  /\ pc \in [Instances -> {"idle", "claim", "run", "handle", "returned"}]
  /\ claimed \in [Instances -> [Jobs -> Nat]]
  /\ handling \in [Instances -> Jobs \union {NoJob}]
  /\ effects \in [Jobs -> Nat]
  /\ interruptions \in Nat
  /\ retries \in Nat

\* automation-queue.service.ts:32: "two instances never run the same job at once".
\* The queue keeps this as long as no batch outlives STALE_LOCK_MS.
OneRunner == \A i, k \in Instances : \A j \in Jobs : Holds(i, j) /\ Holds(k, j) => i = k

\* The queue implements JobPromise, through crashes, recovery by other instances and
\* admin retries: a handler does its work only while the job is open, never once it
\* was cancelled, given up or done, SUCCEEDED is recorded only after the work, and is
\* never taken back although the completing updates of runJob are unconditional.
OutcomeOf(s) == CASE s = "NONE" -> "none"
                  [] s \in {"QUEUED", "RUNNING"} -> "open"
                  [] s = "SUCCEEDED" -> "done"
                  [] s \in {"DEAD", "CANCELLED"} -> "dropped"
Promise == INSTANCE JobPromise WITH
             outcome <- [j \in Jobs |-> OutcomeOf(status[j])], performed <- effects
ImplementsJobPromise == Promise!Spec

\* A job is tried more often than maxAttempts only where a worker was interrupted
\* while it held it: runJob counts attempts, recoverStaleJobs does not look at them.
AttemptsWithinBudget == \A j \in Jobs : attempts[j] <= MaxAttempts + interruptions

\* A queued job is not forgotten: whatever fails or is interrupted, it ends up done,
\* dead for an admin to inspect, or cancelled.
EveryJobEnds ==
  \A j \in Jobs : status[j] \in {"QUEUED", "RUNNING"} ~> status[j] \in {"SUCCEEDED", "DEAD", "CANCELLED"}
=============================================================================
