------------------------------ MODULE TicketMail ------------------------------
(***************************************************************************)
(* How a ticket reaches its holder by e-mail.  Issuing the tickets starts  *)
(* a loop that mails each of them once and forgets about failures          *)
(* (sendTicketEmailsAsync); a sweep queues a job for every ticket that has *)
(* not been marked as mailed (queueUndeliveredTicketEmails), and the job   *)
(* mails it again until that works (deliverTicketEmail).  The process may  *)
(* stop between sending a mail and marking the ticket, and a mail may be   *)
(* delivered although the provider did not answer in time.                 *)
(* The job's row is the one of JobQueue: it is DEAD once it has failed     *)
(* MailTries times, and returned to the queue when its worker is gone.     *)
(* The sweep looks back three days, which are taken to be long enough.     *)
(***************************************************************************)
EXTENDS Naturals

CONSTANTS
    Sold,           \* tickets of one order
    Configured,     \* RESEND_API_KEY or SMTP_HOST is set
    MailTries,      \* maxAttempts of a ticket-email job
    MailStops       \* bound: how often the process stops

ASSUME TicketMailAssumption ==
    Configured \in BOOLEAN /\ MailTries \in Nat \ {0} /\ MailStops \in Nat

VARIABLES
    issued,         \* the tickets exist
    mailed,         \* Ticket.emailSentAt is set
    inbox,          \* the holder has received the mail
    toMail,         \* tickets the loop has still to mail; it may mail them in any order
    looping,        \* the ticket the loop has sent and not marked yet
    mailJob,        \* per ticket, AutomationJob.status, or NONE
    mailAttempts,   \* AutomationJob.attempts
    mailStops       \* how often the process has stopped

mailvars == <<issued, mailed, inbox, toMail, looping, mailJob, mailAttempts, mailStops>>

-----------------------------------------------------------------------------
(* EmailService: a mail is sent, or it is refused or not answered in time; *)
(* a mail that was not answered may have been delivered.  Not configured   *)
(* means that nothing is sent.                                             *)
IsConfigured == Configured
DeliverViaResend(t, sent) == sent => inbox'[t]
SendTicketEmail(t, sent) ==
    /\ inbox' \in {inbox, [inbox EXCEPT ![t] = TRUE]}
    /\ ~IsConfigured => ~sent /\ inbox' = inbox
    /\ DeliverViaResend(t, sent)

-----------------------------------------------------------------------------
GenerateForOrder ==
    /\ ~issued
    /\ issued' = TRUE
    /\ toMail' = Sold
    /\ UNCHANGED <<mailed, inbox, looping, mailJob, mailAttempts, mailStops>>

(* One round of the loop: the mail, and the mark of a mail that was sent. *)
LoopSends(t) ==
    /\ t \in toMail /\ looping = {}
    /\ toMail' = toMail \ {t}
    /\ \E sent \in BOOLEAN : SendTicketEmail(t, sent) /\ looping' = (IF sent THEN {t} ELSE {})
    /\ UNCHANGED <<issued, mailed, mailJob, mailAttempts, mailStops>>

LoopMarks(t) ==
    /\ t \in looping
    /\ mailed' = [mailed EXCEPT ![t] = TRUE]
    /\ looping' = {}
    /\ UNCHANGED <<issued, inbox, toMail, mailJob, mailAttempts, mailStops>>

(* Every five minutes, for tickets older than ten; a key is queued once. *)
QueueUndeliveredTicketEmails ==
    /\ \E t \in Sold : issued /\ ~mailed[t] /\ mailJob[t] = "NONE"
    /\ mailJob' = [t \in Sold |-> IF ~mailed[t] /\ mailJob[t] = "NONE" THEN "QUEUED" ELSE mailJob[t]]
    /\ UNCHANGED <<issued, mailed, inbox, toMail, looping, mailAttempts, mailStops>>

ClaimMail(t) ==
    /\ mailJob[t] = "QUEUED"
    /\ mailJob' = [mailJob EXCEPT ![t] = "RUNNING"]
    /\ mailAttempts' = [mailAttempts EXCEPT ![t] = @ + 1]
    /\ UNCHANGED <<issued, mailed, inbox, toMail, looping, mailStops>>

AfterFailure(t) == IF mailAttempts[t] < MailTries THEN "QUEUED" ELSE "DEAD"

(* Nothing to do: no e-mail is set up, or the ticket has been mailed. *)
TicketEmailSkipped(t) ==
    /\ mailJob[t] = "RUNNING"
    /\ ~IsConfigured \/ mailed[t]
    /\ mailJob' = [mailJob EXCEPT ![t] = "SUCCEEDED"]
    /\ UNCHANGED <<issued, mailed, inbox, toMail, looping, mailAttempts, mailStops>>

(* Mutant: a mail that was not sent is reported, not thrown. *)
FailureReturned(t) ==
    /\ mailJob[t] = "RUNNING" /\ IsConfigured /\ ~mailed[t]
    /\ \E sent \in BOOLEAN :
        /\ SendTicketEmail(t, sent)
        /\ mailJob' = [mailJob EXCEPT ![t] = IF sent THEN "SENT" ELSE "SUCCEEDED"]
    /\ UNCHANGED <<issued, mailed, toMail, looping, mailAttempts, mailStops>>

DeliverTicketEmail(t) ==
    /\ mailJob[t] = "RUNNING" /\ IsConfigured /\ ~mailed[t]
    /\ \E sent \in BOOLEAN :
        /\ SendTicketEmail(t, sent)
        /\ mailJob' = [mailJob EXCEPT ![t] = IF sent THEN "SENT" ELSE AfterFailure(t)]
    /\ UNCHANGED <<issued, mailed, toMail, looping, mailAttempts, mailStops>>

TicketEmailMarked(t) ==
    /\ mailJob[t] = "SENT"
    /\ mailed' = [mailed EXCEPT ![t] = TRUE]
    /\ mailJob' = [mailJob EXCEPT ![t] = "SUCCEEDED"]
    /\ UNCHANGED <<issued, inbox, toMail, looping, mailAttempts, mailStops>>

(* The loop is lost; a job whose worker is gone is queued again once its   *)
(* lock is stale.                                                          *)
MailStopped ==
    /\ mailStops < MailStops
    /\ mailStops' = mailStops + 1
    /\ toMail' = {} /\ looping' = {}
    /\ mailJob' = [t \in Sold |-> IF mailJob[t] \in {"RUNNING", "SENT"} THEN "QUEUED" ELSE mailJob[t]]
    /\ UNCHANGED <<issued, mailed, inbox, mailAttempts>>

-----------------------------------------------------------------------------
MailInit ==
    /\ issued = FALSE /\ toMail = {} /\ looping = {} /\ mailStops = 0
    /\ mailed = [t \in Sold |-> FALSE] /\ inbox = [t \in Sold |-> FALSE]
    /\ mailJob = [t \in Sold |-> "NONE"] /\ mailAttempts = [t \in Sold |-> 0]

Works(t) ==
    LoopSends(t) \/ LoopMarks(t) \/ ClaimMail(t)
        \/ TicketEmailSkipped(t) \/ DeliverTicketEmail(t) \/ TicketEmailMarked(t)

MailNext ==
    \/ GenerateForOrder \/ QueueUndeliveredTicketEmails \/ MailStopped
    \/ \E t \in Sold : Works(t)

(* The sweep is a cron job, and the loop and the worker go on by           *)
(* themselves.                                                             *)
MailFairness ==
    /\ WF_mailvars(QueueUndeliveredTicketEmails)
    /\ \A t \in Sold : WF_mailvars(Works(t))

-----------------------------------------------------------------------------
MailTypeOK ==
    /\ toMail \subseteq Sold /\ looping \subseteq Sold
    /\ mailJob \in [Sold -> {"NONE", "QUEUED", "RUNNING", "SENT", "SUCCEEDED", "DEAD"}]
    /\ mailAttempts \in [Sold -> 0..(MailTries + MailStops)]

(* Where e-mail is set up, every ticket that is issued reaches its holder  *)
(* or ends as a DEAD job an admin can see and retry, although the loop     *)
(* forgets what failed and the process may stop at any point: no ticket is *)
(* quietly left without its mail.                                          *)
TicketMailed ==
    \A t \in Sold : issued /\ Configured ~> inbox[t] \/ mailJob[t] = "DEAD"
=============================================================================
