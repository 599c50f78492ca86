----------------------------- MODULE JobPromise -----------------------------
(***************************************************************************)
(* What the automation queue promises whoever enqueues a job, with workers,*)
(* locks, retries and time left out: the work is done only while the job   *)
(* is open, possibly more than once (at-least-once); it is reported done   *)
(* only after it was done; and once done it stays done.                    *)
(***************************************************************************)
EXTENDS Naturals

CONSTANT Jobs

VARIABLES outcome,  \* "none", "open", or how the job was closed
          performed \* how often the handler of each job ran to its end

promiseVars == <<outcome, performed>>

Init == /\ outcome = [j \in Jobs |-> "none"]
        /\ performed = [j \in Jobs |-> 0]

Submit(j) == /\ outcome[j] = "none"
             /\ outcome' = [outcome EXCEPT ![j] = "open"]
             /\ UNCHANGED performed

Perform(j) == /\ outcome[j] = "open"
              /\ performed' = [performed EXCEPT ![j] = @ + 1]
              /\ UNCHANGED outcome

Complete(j) == /\ outcome[j] = "open"
               /\ performed[j] > 0
               /\ outcome' = [outcome EXCEPT ![j] = "done"]
               /\ UNCHANGED performed

\* Given up by the queue or withdrawn by an admin.
Drop(j) == /\ outcome[j] = "open"
           /\ outcome' = [outcome EXCEPT ![j] = "dropped"]
           /\ UNCHANGED performed

Reopen(j) == /\ outcome[j] = "dropped"
             /\ outcome' = [outcome EXCEPT ![j] = "open"]
             /\ UNCHANGED performed

Next == \E j \in Jobs : Submit(j) \/ Perform(j) \/ Complete(j) \/ Drop(j) \/ Reopen(j)

Spec == Init /\ [][Next]_promiseVars
=============================================================================
