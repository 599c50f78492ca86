------------------------------ MODULE MCTimers ------------------------------
(* What goes on by itself, on small instances: the job queue's workers, the *)
(* mailing of tickets, and the timers of the account pages.  The three      *)
(* share no state, so a behaviour of them together is their behaviours      *)
(* interleaved and satisfies the properties of each when they do: one run   *)
(* explores them side by side, and "part" says which one moves.             *)
EXTENDS JobQueue, TicketMail, AccountPages

CONSTANTS b1

VARIABLE part

timers == <<vars, mailvars, accountvars, part>>

(* Only AccountInit leaves a choice, and only when it is its turn. *)
TimersInit ==
  /\ Init /\ MailInit /\ AccountInit
  /\ part \in {"jobs", "mail", "account"}
  /\ part # "account" => account.made = "none" /\ place[b1] = "login"

TimersNext ==
  \/ part = "jobs" /\ Next /\ UNCHANGED <<mailvars, accountvars, part>>
  \/ part = "mail" /\ MailNext /\ UNCHANGED <<vars, accountvars, part>>
  \/ part = "account" /\ AccountNext /\ UNCHANGED <<vars, mailvars, part>>

(* The fairness of each, asked of it when it is the one that moves: the     *)
(* worker's cron ticks from the start; no other action under fairness is    *)
(* enabled before its part has moved.                                       *)
TimersSpec ==
  /\ TimersInit /\ [][TimersNext]_timers
  /\ \A i \in Instances : WF_vars(part = "jobs" /\ Tick(i))
  /\ \A j \in Jobs : WF_vars(BecomesDue(j)) /\ WF_vars(BecomesStale(j))
  /\ MailFairness /\ AccountFairness
=============================================================================
