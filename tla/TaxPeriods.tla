----------------------------- MODULE TaxPeriods -----------------------------
(***************************************************************************)
(* The VAT period of one month: tax-period.service.ts aggregates what was  *)
(* sold and refunded, finance adds adjustments, reconciliation.service.ts  *)
(* compares the figures with the books and the eTIMS documents, and the    *)
(* controller marks the period RECONCILED when nothing differs.  None of   *)
(* it runs in a transaction, so sales go on and requests of finance users  *)
(* interleave between any two reads.  Every sale and every refund is worth *)
(* one unit of TicketFlow VAT.                                             *)
(***************************************************************************)
EXTENDS Integers, FiniteSets

CONSTANTS
  MonthSales,  \* sales of the month; each may be refunded once
  Adjustments, \* TaxAdjustments that may be entered
  Desk         \* requests of finance users, and the nightly job, in flight

ASSUME PeriodsAssumption == IsFiniteSet(MonthSales)

VARIABLES
  sold, refunded,     \* sales with a TaxCalculation, with a RefundTaxCalculation
  invoiced, credited, \* sales with an invoice document, with a credit note document
  adjustment,         \* "none", "entered" or "approved"
  period,             \* the TaxPeriod row
  at, seen,           \* what each request does next, and what it has read
  checked,            \* what the run behind the last RECONCILED had read
  raced               \* an aggregation was written between a comparison and its mark

books == <<sold, refunded, invoiced, credited, adjustment>>
periodvars == <<books, period, at, seen, checked, raced>>

PeriodStatus == {"NONE", "DRAFT", "PREPARED", "RECONCILED"}
NothingRead == [sales |-> {}, refunds |-> {}, approved |-> {}, missing |-> FALSE]

PeriodsInit ==
  /\ sold = {} /\ refunded = {} /\ invoiced = {} /\ credited = {}
  /\ adjustment = [n \in Adjustments |-> "none"]
  /\ period = [status |-> "NONE", vat |-> 0, approved |-> {}]
  /\ at = [r \in Desk |-> "idle"]
  /\ seen = [r \in Desk |-> NothingRead]
  /\ checked = NothingRead
  /\ raced = FALSE

Vat(read) == Cardinality(read.sales) - Cardinality(read.refunds)

Goes(r, label) == at' = [at EXCEPT ![r] = label]

(***************************************************************************)
(* The business of the month.                                              *)
(***************************************************************************)
RecordSale(s) ==
  /\ s \notin sold
  /\ sold' = sold \cup {s}
  /\ UNCHANGED <<refunded, invoiced, credited, adjustment, period, at, seen, checked, raced>>

RecordRefund(s) ==
  /\ s \in sold \ refunded
  /\ refunded' = refunded \cup {s}
  /\ UNCHANGED <<sold, invoiced, credited, adjustment, period, at, seen, checked, raced>>

(* The invoice needs a calculation, the credit note a refund calculation    *)
(* and an invoice document.                                                 *)
FileInvoice(s) ==
  /\ s \in sold
  /\ invoiced' = invoiced \cup {s}
  /\ UNCHANGED <<sold, refunded, credited, adjustment, period, at, seen, checked, raced>>
FileCreditNote(s) ==
  /\ s \in refunded /\ s \in invoiced
  /\ credited' = credited \cup {s}
  /\ UNCHANGED <<sold, refunded, invoiced, adjustment, period, at, seen, checked, raced>>

(***************************************************************************)
(* prepareDraft: the job, an adjustment and an aggregation all find or     *)
(* create the row first; of two that found none the later create fails.    *)
(***************************************************************************)
\* What a request does next when it has to create the row, by what it does after that.
Creating == [idle |-> "create", sales |-> "createThenSum", adjust |-> "createThenAdjust"]

FindPeriod(r, then) ==
  /\ at[r] = "idle"
  /\ IF period.status = "NONE" THEN Goes(r, Creating[then]) ELSE Goes(r, then)
  /\ UNCHANGED <<books, period, seen, checked, raced>>

PrepareDraft(r) == FindPeriod(r, "idle")
Aggregate(r) == FindPeriod(r, "sales")
AddAdjustment(r) == (\E n \in Adjustments : adjustment[n] = "none") /\ FindPeriod(r, "adjust")

CreateDraft(r, then) ==
  /\ at[r] = Creating[then]
  /\ IF period.status = "NONE"
     THEN period' = [period EXCEPT !.status = "DRAFT"] /\ Goes(r, then)
     ELSE UNCHANGED period /\ Goes(r, "idle")
  /\ UNCHANGED <<books, seen, checked, raced>>

EnterAdjustment(r, n) ==
  /\ at[r] = "adjust" /\ adjustment[n] = "none"
  /\ adjustment' = [adjustment EXCEPT ![n] = "entered"]
  /\ Goes(r, "idle")
  /\ UNCHANGED <<sold, refunded, invoiced, credited, period, seen, checked, raced>>
ApproveAdjustment(n) ==
  /\ adjustment[n] = "entered"
  /\ adjustment' = [adjustment EXCEPT ![n] = "approved"]
  /\ UNCHANGED <<sold, refunded, invoiced, credited, period, at, seen, checked, raced>>

(***************************************************************************)
(* aggregate: three reads, then the figures.                               *)
(***************************************************************************)
SumSales(r) ==
  /\ at[r] = "sales"
  /\ seen' = [seen EXCEPT ![r].sales = sold]
  /\ Goes(r, "refunds")
  /\ UNCHANGED <<books, period, checked, raced>>
SumRefunds(r) ==
  /\ at[r] = "refunds"
  /\ seen' = [seen EXCEPT ![r].refunds = refunded]
  /\ Goes(r, "adjustments")
  /\ UNCHANGED <<books, period, checked, raced>>
ReadAdjustments(r) ==
  /\ at[r] = "adjustments"
  /\ seen' = [seen EXCEPT ![r].approved = {n \in Adjustments : adjustment[n] = "approved"}]
  /\ Goes(r, "write")
  /\ UNCHANGED <<books, period, checked, raced>>

Marking == {r \in Desk : at[r] \in {"mark", "reconcile"}}

WriteFigures(r) ==
  /\ at[r] = "write"
  /\ period' = [status |-> "PREPARED", vat |-> Vat(seen[r]), approved |-> seen[r].approved]
  /\ raced' = (Marking # {})
  /\ seen' = [seen EXCEPT ![r] = NothingRead]
  /\ Goes(r, "idle")
  /\ UNCHANGED <<books, checked>>

(***************************************************************************)
(* reconcile: the monthly run, and the mark if it found nothing.           *)
(***************************************************************************)
ReconcilePeriod(r) ==
  /\ at[r] = "idle"
  /\ seen' = [seen EXCEPT ![r].sales = sold]
  /\ Goes(r, "invoices")
  /\ UNCHANGED <<books, period, checked, raced>>

CheckInvoices(r) ==
  /\ at[r] = "invoices"
  /\ seen' = [seen EXCEPT ![r].missing = ~(seen[r].sales \subseteq invoiced)]
  /\ Goes(r, "returns")
  /\ UNCHANGED <<books, period, checked, raced>>

CheckCreditNotes(r) ==
  /\ at[r] = "returns"
  /\ seen' = [seen EXCEPT ![r].refunds = refunded,
                          ![r].missing = @ \/ ~(refunded \subseteq credited)]
  /\ Goes(r, "compare")
  /\ UNCHANGED <<books, period, checked, raced>>

VatAgrees(r) == period.vat = Vat(seen[r])

(* A run compares the VAT but not the adjustments; one of a month without   *)
(* a period finds nothing to compare, and nothing to mark afterwards.       *)
Clean(r) == ~seen[r].missing /\ VatAgrees(r)

CompareVat(r) ==
  /\ at[r] = "compare"
  /\ IF period.status # "NONE" /\ Clean(r)
     THEN Goes(r, "mark") /\ UNCHANGED seen
     ELSE Goes(r, "idle") /\ seen' = [seen EXCEPT ![r] = NothingRead]
  /\ UNCHANGED <<books, period, checked, raced>>

MayMark == period.status = "PREPARED"

FindPrepared(r) ==
  /\ at[r] = "mark"
  /\ IF MayMark
     THEN Goes(r, "reconcile") /\ UNCHANGED seen
     ELSE Goes(r, "idle") /\ seen' = [seen EXCEPT ![r] = NothingRead]
  /\ UNCHANGED <<books, period, checked, raced>>

MarkReconciled(r) ==
  /\ at[r] = "reconcile"
  /\ period' = [period EXCEPT !.status = "RECONCILED"]
  /\ checked' = seen[r]
  /\ seen' = [seen EXCEPT ![r] = NothingRead]
  /\ Goes(r, "idle")
  /\ UNCHANGED <<books, raced>>

PeriodsNext ==
  \/ \E s \in MonthSales : RecordSale(s) \/ RecordRefund(s) \/ FileInvoice(s) \/ FileCreditNote(s)
  \/ \E n \in Adjustments : ApproveAdjustment(n) \/ \E r \in Desk : EnterAdjustment(r, n)
  \/ \E r \in Desk :
       \/ PrepareDraft(r) \/ Aggregate(r) \/ AddAdjustment(r)
       \/ \E then \in {"idle", "sales", "adjust"} : CreateDraft(r, then)
       \/ SumSales(r) \/ SumRefunds(r) \/ ReadAdjustments(r) \/ WriteFigures(r)
       \/ ReconcilePeriod(r) \/ CheckInvoices(r) \/ CheckCreditNotes(r) \/ CompareVat(r)
       \/ FindPrepared(r) \/ MarkReconciled(r)

PeriodsSpec == PeriodsInit /\ [][PeriodsNext]_periodvars

(* Variables keep within their types. *)
PeriodsTypeOK ==
  /\ refunded \subseteq sold /\ sold \subseteq MonthSales
  /\ invoiced \subseteq sold /\ credited \subseteq refunded
  /\ period.status \in PeriodStatus /\ period.vat \in Int

(* A period that reads RECONCILED holds the VAT of exactly the sales and    *)
(* refunds its run read, and each of those has its document, however the    *)
(* run, other runs, aggregations and new sales interleave; unless another   *)
(* aggregation was written between a run's comparison and its mark.         *)
ReconciledAsChecked ==
  period.status = "RECONCILED" /\ ~raced =>
    /\ period.vat = Vat(checked)
    /\ checked.sales \subseteq invoiced /\ checked.refunds \subseteq credited
=============================================================================
