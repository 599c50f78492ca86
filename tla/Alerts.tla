-------------------------------- MODULE Alerts --------------------------------
(***************************************************************************)
(* What the monitors tell the admins (operational-alerts.service.ts).      *)
(* Scheduled monitors and admins who press "Run" look for anomalies and    *)
(* raise an alert for each under a key of its own; admins read the alerts  *)
(* on a page and decide them.  A raise and a decision both read the alert  *)
(* before they write it, so all of them interleave.                        *)
(***************************************************************************)
EXTENDS Naturals, FiniteSets

CONSTANTS
    Keys,           \* the kinds reported here, each about one subject: its dedupe key
    Runs,           \* monitor runs under way at once: the scheduled one and those of admins
    Admins,
    MaxSeen         \* bound: occurrences counted

(* What each monitor looks for, and how severe it is. *)
PaymentRules ==
    [TICKETS_RECOVERED |-> "INFO", TICKETS_MISSING |-> "CRITICAL", COMMISSION_MISSING |-> "WARNING",
     PAYMENT_STUCK_PENDING |-> "WARNING", PAYMENT_FAILURE_SPIKE |-> "CRITICAL"]

(* A count over a threshold each. *)
RiskRules ==
    [RISK_DUPLICATE_SCAN |-> "WARNING", RISK_COUNTERFEIT_QR |-> "CRITICAL", RISK_PAYMENT_FAILURES |-> "WARNING",
     RISK_ORDER_VELOCITY |-> "WARNING", RISK_ABUSIVE_CHECKOUT |-> "WARNING", RISK_BULK_PURCHASE |-> "INFO",
     RISK_ORGANIZER_ACTIVITY |-> "WARNING", RISK_REFUND_REQUESTS |-> "INFO"]

VerificationRules == [VERIFICATION_REVIEW_OVERDUE |-> "WARNING"]

Monitors == {PaymentRules, RiskRules, VerificationRules}
Critical == {k \in Keys : \E rules \in Monitors : k \in DOMAIN rules /\ rules[k] = "CRITICAL"}

ASSUME AlertsAssumption ==
    /\ Keys \subseteq UNION {DOMAIN rules : rules \in Monitors}
    /\ MaxSeen \in Nat \ {0}

VARIABLES
    found,          \* the rows a monitor's query would return now
    alert,          \* OperationalAlert.status, or NONE
    seen,           \* occurrences
    raising,        \* per run, the raises it has still to make, and the one it is in
    deciding,       \* per admin, the decision being made
    notice          \* per key, the mail of the alert and its job

alertvars == <<found, alert, seen, raising, deciding, notice>>

Standing == {"OPEN", "ACKNOWLEDGED"}
Settled == {"RESOLVED", "DISMISSED"}
Resting == [todo |-> {}, key |-> {}, read |-> "NONE"]

-----------------------------------------------------------------------------
(* What the monitors would find comes and goes with the payments, scans,   *)
(* orders and applications it is about.                                    *)
Changes ==
    /\ found' \in SUBSET Keys /\ found' # found
    /\ UNCHANGED <<alert, seen, raising, deciding, notice>>

(* A run takes what its queries return.  The running flag keeps scheduled  *)
(* runs apart, but not those an admin starts.                              *)
RunMonitor(m, rules) ==
    /\ raising[m] = Resting
    /\ found \cap DOMAIN rules # {}
    /\ raising' = [raising EXCEPT ![m].todo = found \cap DOMAIN rules]
    /\ UNCHANGED <<found, alert, seen, deciding, notice>>

(* raise: the alert of the key is looked up ... *)
RaiseReads(m, k) ==
    /\ k \in raising[m].todo /\ raising[m].key = {}
    /\ raising' = [raising EXCEPT ![m] = [todo |-> @.todo \ {k}, key |-> {k}, read |-> alert[k]]]
    /\ UNCHANGED <<found, alert, seen, deciding, notice>>

Done(m) == raising' = [raising EXCEPT ![m].key = {}, ![m].read = "NONE"]

(* Mutant: the update writes the whole row that was read. *)
BumpsWholeRow(m, k) ==
    /\ k \in raising[m].key /\ raising[m].read \in Standing
    /\ seen' = [seen EXCEPT ![k] = IF @ < MaxSeen THEN @ + 1 ELSE @]
    /\ alert' = [alert EXCEPT ![k] = raising[m].read]
    /\ Done(m)
    /\ UNCHANGED <<found, deciding, notice>>

(* ... an open one counts the occurrence, and keeps the status it has come *)
(* to by then ...                                                          *)
RaiseBumps(m, k) ==
    /\ k \in raising[m].key /\ raising[m].read \in Standing
    /\ seen' = [seen EXCEPT ![k] = IF @ < MaxSeen THEN @ + 1 ELSE @]
    /\ Done(m)
    /\ UNCHANGED <<found, alert, deciding, notice>>

(* ... a closed one stays as it is ... *)
RaiseLeaves(m, k) ==
    /\ k \in raising[m].key /\ raising[m].read \in Settled
    /\ Done(m)
    /\ UNCHANGED <<found, alert, seen, deciding, notice>>

(* ... and a new one is created, unless another run did so meanwhile, and  *)
(* mailed if it is critical; a job that cannot be queued is logged.        *)
RaiseCreates(m, k) ==
    /\ k \in raising[m].key /\ raising[m].read = "NONE"
    /\ \/ /\ alert[k] = "NONE"
          /\ alert' = [alert EXCEPT ![k] = "OPEN"]
          /\ seen' = [seen EXCEPT ![k] = 1]
          /\ \/ notice' = notice
             \/ k \in Critical /\ notice' = [notice EXCEPT ![k] = "QUEUED"]
       \/ alert[k] # "NONE" /\ UNCHANGED <<alert, seen, notice>>
    /\ Done(m)
    /\ UNCHANGED <<found, deciding>>

(* The process stops, or a query throws and ends the run. *)
RunEnds(m) ==
    /\ raising[m] # Resting
    /\ raising' = [raising EXCEPT ![m] = Resting]
    /\ UNCHANGED <<found, alert, seen, deciding, notice>>

(* The job reads the alert again, and goes on while it is open and anybody *)
(* is to be told ...                                                       *)
AlertMailRead(k) ==
    /\ notice[k] = "QUEUED"
    /\ notice' \in {[notice EXCEPT ![k] = to] :
                    to \in {"SKIPPED"} \cup (IF alert[k] = "OPEN" THEN {"SENDING"} ELSE {})}
    /\ UNCHANGED <<found, alert, seen, raising, deciding>>

(* ... and sends to one admin after the other, whatever becomes of the     *)
(* alert meanwhile; a send that throws, or a stop, leaves the job to the   *)
(* queue, which tries again or gives up.                                   *)
AlertMailSent(k) ==
    /\ notice[k] = "SENDING"
    /\ \E to \in {"MAILED", "QUEUED", "SKIPPED"} : notice' = [notice EXCEPT ![k] = to]
    /\ UNCHANGED <<found, alert, seen, raising, deciding>>

-----------------------------------------------------------------------------
(* The admins.  The card of an alert offers decisions while it shows the   *)
(* alert as not closed, which may be what it was a while ago.              *)
AlertCard(k) == alert[k] # "NONE"

Decide(a, k, decision) ==
    /\ deciding[a] = {}
    /\ AlertCard(k) /\ alert[k] \notin Settled
    /\ deciding' = [deciding EXCEPT ![a] = {<<k, decision>>}]
    /\ UNCHANGED <<found, alert, seen, raising, notice>>

Decided(a, k, decision) ==
    /\ <<k, decision>> \in deciding[a]
    /\ alert' = [alert EXCEPT ![k] = decision]
    /\ deciding' = [deciding EXCEPT ![a] = {}]
    /\ UNCHANGED <<found, seen, raising, notice>>

-----------------------------------------------------------------------------
AlertsInit ==
    /\ found = {}
    /\ alert = [k \in Keys |-> "NONE"] /\ seen = [k \in Keys |-> 0]
    /\ raising = [m \in Runs |-> Resting]
    /\ deciding = [a \in Admins |-> {}]
    /\ notice = [k \in Keys |-> "NONE"]

Decisions == {"ACKNOWLEDGED", "RESOLVED", "DISMISSED"}

AlertsNext ==
    \/ Changes
    \/ \E m \in Runs : RunEnds(m) \/ \E rules \in Monitors : RunMonitor(m, rules)
    \/ \E m \in Runs, k \in Keys :
        RaiseReads(m, k) \/ RaiseBumps(m, k) \/ RaiseLeaves(m, k) \/ RaiseCreates(m, k)
    \/ \E k \in Keys : AlertMailRead(k) \/ AlertMailSent(k)
    \/ \E a \in Admins, k \in Keys, decision \in Decisions :
        Decide(a, k, decision) \/ Decided(a, k, decision)

AlertsSpec == AlertsInit /\ [][AlertsNext]_alertvars

-----------------------------------------------------------------------------
AlertsTypeOK ==
    /\ alert \in [Keys -> {"NONE"} \cup Standing \cup Settled]
    /\ seen \in [Keys -> 0..MaxSeen]
    /\ \A m \in Runs : raising[m].todo \subseteq Keys /\ Cardinality(raising[m].key) <= 1

(* The alert is closed, and nobody who read it before has yet to write.    *)
Concluded(k) ==
    /\ alert[k] \in Settled
    /\ \A a \in Admins, decision \in Decisions : <<k, decision>> \notin deciding[a]
    /\ \A m \in Runs : k \in raising[m].key => raising[m].read \notin Standing

(* An admin has decided before any job found the alert open.               *)
Unmailed(k) == alert[k] \in Decisions /\ notice[k] \in {"NONE", "QUEUED", "SKIPPED"}

(* "The detector will not reopen a decision".  However raises, mails and   *)
(* decisions overlap: only the write of an admin's decision changes an     *)
(* alert that is closed; that decision was begun before the closing, for   *)
(* once the writes under way are through neither the status nor the count  *)
(* changes again; and an alert decided before its job reads it is never    *)
(* mailed.  What this leaves open: of two admins who decide at once the    *)
(* slower one wins, so ACKNOWLEDGED can overwrite RESOLVED, and an alert   *)
(* decided after the job has read it is mailed all the same.               *)
DecisionsStand ==
    [][\A k \in Keys :
        /\ alert[k] \in Settled /\ alert'[k] # alert[k]
            => \E a \in Admins : <<k, alert'[k]>> \in deciding[a] /\ deciding'[a] = {}
        /\ Concluded(k) => Concluded(k)' /\ alert'[k] = alert[k] /\ seen'[k] = seen[k]
        /\ Unmailed(k) => Unmailed(k)']_alertvars
=============================================================================
