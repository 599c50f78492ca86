---------------------------- MODULE EtimsOutbox ----------------------------
(***************************************************************************)
(* The eTIMS documents of etims-document.service.ts: an invoice per sale   *)
(* and a credit note per refund, submitted by finance, retried by hand and *)
(* by the ten-minute job of tax-jobs.service.ts.  Every write is by id and *)
(* unconditional, after reads of the row and of the company profile; the   *)
(* process may stop anywhere, and may lose the write of an answer it has.  *)
(***************************************************************************)
EXTENDS Integers

CONSTANTS
  Invoices, CreditNotes, \* idempotency keys of documents
  InvoiceOf,             \* the invoice of the order each credit note is about
  Clerks,                \* requests of finance users that may overlap
  Outbox,                \* the caller that stands for the job
  MaxTries,              \* MAX_ATTEMPTS
  MaxAsked,              \* bound: requests of finance users
  MaxSwitches,           \* bound: changes of etimsMode
  MaxFaults              \* bound: restarts and failed writes

ASSUME EtimsAssumption ==
  /\ InvoiceOf \in [CreditNotes -> Invoices]
  /\ Outbox \notin Clerks
  /\ MaxTries \in Nat \ {0} /\ MaxAsked \in Nat /\ MaxSwitches \in Nat /\ MaxFaults \in Nat

VARIABLES
  mode,     \* CompanyTaxProfile.etimsMode; VSCU is treated as OSCU is
  document, \* the EtimsDocument rows
  call,     \* what each caller does next, and its local variables
  listed,   \* what is left of the job's list
  asked, switches, faults,
  accepted, \* how often an adapter took each document
  disturbed \* documents whose call overlapped another or lost its answer

etimsvars == <<mode, document, call, listed, asked, switches, faults, accepted, disturbed>>

Documents == Invoices \cup CreditNotes
Callers == Clerks \cup {Outbox}
Modes == {"DISABLED", "SANDBOX", "OSCU"}
Transmitted == {"SUBMITTED", "ACCEPTED", "SANDBOX_SIMULATED"}
Retryable == {"PENDING_SUBMISSION", "REQUIRES_REVIEW", "PENDING_CONFIGURATION"}

\* nextAttemptAt: null, in the future, or passed.
EtimsDocument == [status : {"NONE"} \cup Transmitted \cup Retryable,
                  tries : Nat, nextAttempt : {"null", "ahead", "passed"}]
Resting == [at |-> "idle", doc |-> "none", adapter |-> "DISABLED", found |-> FALSE, tries |-> 0]

EtimsInit ==
  /\ mode \in Modes
  /\ document = [d \in Documents |-> [status |-> "NONE", tries |-> 0, nextAttempt |-> "null"]]
  /\ call = [c \in Callers |-> Resting]
  /\ listed = {}
  /\ asked = 0 /\ switches = 0 /\ faults = 0
  /\ accepted = [d \in Documents |-> 0]
  /\ disturbed = {}

Counters == <<asked, switches, faults>>

(* c has read the row of d and goes on to read the profile. *)
Take(c, d) ==
  /\ call' = [call EXCEPT ![c] = [Resting EXCEPT !.at = "select", !.doc = d,
                                  !.found = document[d].status # "NONE"]]
  /\ disturbed' = IF \E o \in Callers : call[o].doc = d THEN disturbed \cup {d} ELSE disturbed
  /\ UNCHANGED <<mode, document, accepted>>

Asks(c) == /\ call[c].at = "idle" /\ asked < MaxAsked
           /\ asked' = asked + 1
           /\ UNCHANGED <<listed, switches, faults>>

(* "already submitted - never double-submit." *)
SubmitInvoice(c, d) ==
  /\ Asks(c)
  /\ document[d].status \notin Transmitted
  /\ Take(c, d)

(* The order needs an invoice document, whatever its status. *)
SubmitCreditNote(c, d) ==
  /\ Asks(c)
  /\ document[InvoiceOf[d]].status # "NONE"
  /\ document[d].status \notin Transmitted
  /\ Take(c, d)

(* retry does not look at the status of what the job listed earlier.       *)
MayRetryAny(d) == document[d].status # "NONE"

MayRetry(d) == document[d].status \in Retryable
RetryDocument(c, d) ==
  /\ Asks(c)
  /\ MayRetry(d)
  /\ Take(c, d)

(* With no adapter the document waits for configuration. *)
SelectAdapter(c) ==
  /\ call[c].at = "select"
  /\ call' = [call EXCEPT ![c].adapter = mode,
                          ![c].at = CASE ~call[c].found -> "create"
                                      [] mode = "DISABLED" -> "block"
                                      [] OTHER -> "transmit"]
  /\ UNCHANGED <<mode, document, listed, Counters, accepted, disturbed>>

(* The key is unique: the later of two creators fails. *)
CreateDocument(c) ==
  LET d == call[c].doc IN
  /\ call[c].at = "create"
  /\ \/ /\ document[d].status = "NONE"
        /\ document' = [document EXCEPT ![d].status = "PENDING_SUBMISSION"]
        /\ call' = [call EXCEPT ![c].at = IF call[c].adapter = "DISABLED" THEN "block" ELSE "transmit"]
     \/ /\ document[d].status # "NONE"
        /\ call' = [call EXCEPT ![c] = Resting]
        /\ UNCHANGED document
  /\ UNCHANGED <<mode, listed, Counters, accepted, disturbed>>

BlockDocument(c) ==
  /\ call[c].at = "block"
  /\ document' = [document EXCEPT ![call[c].doc].status = "PENDING_CONFIGURATION"]
  /\ call' = [call EXCEPT ![c] = Resting]
  /\ UNCHANGED <<mode, listed, Counters, accepted, disturbed>>

(* The sandbox takes everything. *)
SandboxAccepts(c) ==
  /\ call[c].at = "transmit" /\ call[c].adapter = "SANDBOX"
  /\ accepted' = [accepted EXCEPT ![call[c].doc] = @ + 1]
  /\ call' = [call EXCEPT ![c].at = "record"]
  /\ UNCHANGED <<mode, document, listed, Counters, disturbed>>

(* The production adapter fails closed. *)
ProductionRefuses(c) ==
  /\ call[c].at = "transmit" /\ call[c].adapter = "OSCU"
  /\ call' = [call EXCEPT ![c].at = "count"]
  /\ UNCHANGED <<mode, document, listed, Counters, accepted, disturbed>>

RecordAnswer(c) ==
  /\ call[c].at = "record"
  /\ document' = [document EXCEPT ![call[c].doc] =
       [status |-> "SANDBOX_SIMULATED", tries |-> @.tries + 1, nextAttempt |-> "null"]]
  /\ call' = [call EXCEPT ![c] = Resting]
  /\ UNCHANGED <<mode, listed, Counters, accepted, disturbed>>

(* The write of the answer fails and is counted as a failed submission. *)
RecordFails(c) ==
  /\ call[c].at = "record" /\ faults < MaxFaults
  /\ faults' = faults + 1
  /\ call' = [call EXCEPT ![c].at = "count"]
  /\ disturbed' = disturbed \cup {call[c].doc}
  /\ UNCHANGED <<mode, document, listed, asked, switches, accepted>>

CountAttempts(c) ==
  /\ call[c].at = "count"
  /\ call' = [call EXCEPT ![c].at = "backoff", ![c].tries = document[call[c].doc].tries + 1]
  /\ UNCHANGED <<mode, document, listed, Counters, accepted, disturbed>>

BackOff(c) ==
  LET n == call[c].tries IN
  /\ call[c].at = "backoff"
  /\ document' = [document EXCEPT ![call[c].doc] =
       IF n >= MaxTries
       THEN [status |-> "REQUIRES_REVIEW", tries |-> n, nextAttempt |-> "null"]
       ELSE [status |-> "PENDING_SUBMISSION", tries |-> n, nextAttempt |-> "ahead"]]
  /\ call' = [call EXCEPT ![c] = Resting]
  /\ UNCHANGED <<mode, listed, Counters, accepted, disturbed>>

BackoffPasses(d) ==
  /\ document[d].nextAttempt = "ahead"
  /\ document' = [document EXCEPT ![d].nextAttempt = "passed"]
  /\ UNCHANGED <<mode, call, listed, Counters, accepted, disturbed>>

\* What the job lists: due, or never tried.
MayList(d) ==
  /\ document[d].status = "PENDING_SUBMISSION"
  /\ document[d].nextAttempt \in {"null", "passed"}
  /\ document[d].tries < MaxTries

(* One run of the job: it lists what is due, then retries one by one. *)
ListRetryable ==
  /\ call[Outbox].at = "idle" /\ listed = {}
  /\ \E d \in Documents : MayList(d)
  /\ listed' = {d \in Documents : MayList(d)}
  /\ UNCHANGED <<mode, document, call, Counters, accepted, disturbed>>

(* retry reads the row again; its refusal is logged and the job goes on. *)
RetryListed(d) ==
  /\ call[Outbox].at = "idle" /\ d \in listed
  /\ listed' = listed \ {d}
  /\ UNCHANGED Counters
  /\ IF MayRetry(d) THEN Take(Outbox, d)
                    ELSE UNCHANGED <<mode, document, call, accepted, disturbed>>

SwitchMode(m) ==
  /\ switches < MaxSwitches /\ m # mode
  /\ mode' = m
  /\ switches' = switches + 1
  /\ UNCHANGED <<document, call, listed, asked, faults, accepted, disturbed>>

(* The process stops: what was under way is gone, and an answer not yet    *)
(* recorded with it.                                                       *)
EtimsStops ==
  /\ faults < MaxFaults /\ \E c \in Callers : call[c].at # "idle"
  /\ faults' = faults + 1
  /\ call' = [c \in Callers |-> Resting]
  /\ listed' = {}
  /\ disturbed' = disturbed \cup {d \in Documents : \E c \in Callers :
                                    call[c].at = "record" /\ call[c].doc = d}
  /\ UNCHANGED <<mode, document, asked, switches, accepted>>

CallGoesOn(c) ==
  \/ SelectAdapter(c) \/ CreateDocument(c) \/ BlockDocument(c)
  \/ SandboxAccepts(c) \/ ProductionRefuses(c) \/ RecordAnswer(c)
  \/ CountAttempts(c) \/ BackOff(c)

EtimsNext ==
  \/ \E c \in Clerks :
       \/ \E d \in Invoices : SubmitInvoice(c, d)
       \/ \E d \in CreditNotes : SubmitCreditNote(c, d)
       \/ \E d \in Documents : RetryDocument(c, d)
  \/ \E c \in Callers : CallGoesOn(c) \/ RecordFails(c)
  \/ \E d \in Documents : BackoffPasses(d) \/ RetryListed(d)
  \/ ListRetryable \/ EtimsStops
  \/ \E m \in Modes : SwitchMode(m)

EtimsSpec == EtimsInit /\ [][EtimsNext]_etimsvars

(* Variables keep within their types. *)
EtimsTypeOK ==
  /\ mode \in Modes
  /\ document \in [Documents -> EtimsDocument]
  /\ \A c \in Callers : call[c].at # "idle" => call[c].doc \in Documents
  /\ listed \subseteq Documents /\ disturbed \subseteq Documents
  /\ accepted \in [Documents -> Nat]

Waiting(d) == /\ document[d].status = "PENDING_SUBMISSION"
              /\ d \notin listed /\ \A c \in Callers : call[c].doc # d

(* Every document is delivered, and delivered once.  It is transmitted once, *)
(* however it was submitted and retried and whatever mode it was tried in    *)
(* before, unless two calls about it overlapped or an answer was lost before *)
(* it was recorded; and one that waits for submission with nobody working on *)
(* it, also after a restart between its creation and its answer, is one the  *)
(* job lists now or when its back-off has passed.                            *)
OutboxDelivers ==
  \A d \in Documents :
    /\ accepted[d] > 1 => d \in disturbed
    /\ Waiting(d) => \/ MayList(d)
                     \/ document[d].nextAttempt = "ahead" /\ document[d].tries < MaxTries
=============================================================================
