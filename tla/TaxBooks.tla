------------------------------ MODULE TaxBooks ------------------------------
(***************************************************************************)
(* The tax books: calculateAndPersist of the sale and of the refund, each  *)
(* a transaction that stores one immutable calculation and posts its       *)
(* journal entries, for any number of concurrent and repeated requests.    *)
(*                                                                         *)
(* A request looks for an existing calculation under its id and then       *)
(* stores its own; its other inputs matter only in that second step and    *)
(* are chosen there.  Entries are append-only, so the books are kept as    *)
(* the balance of each account.                                            *)
(***************************************************************************)
EXTENDS TaxCalculation, FiniteSets

CONSTANTS
  Orders, Refunds,   \* the ids of transactions and of refunds
  Handlers,          \* requests that may be in flight at the same time
  SaleInputs,        \* sales that may be calculated
  RuleVersions,      \* the VAT rules that were in force at some time
  RefundTerms,       \* refund policies, with the settled and posted flags
  MaxQuantity,       \* bound: most tickets of one type in a refund request
  Nothing            \* the id of an idle handler

VARIABLES
  calculation,       \* TaxCalculation rows by order: sale, rules, figures
  refundCalculation, \* RefundTaxCalculation rows by refund: order, refund, figures
  balance,           \* credit balance of each ledger account
  pc,                \* what each request does next
  id                 \* the order or refund each request is about

vars == <<calculation, refundCalculation, balance, pc, id>>

ASSUME TaxBooksAssumption ==
  /\ Nothing \notin Orders \union Refunds
  /\ MaxQuantity \in Nat
  /\ SaleInputs \subseteq Sales /\ RuleVersions \subseteq VatRules /\ RefundTerms \subseteq Policies

Calculated == DOMAIN calculation
Refunded == DOMAIN refundCalculation
With(rows, key, row) == [k \in DOMAIN rows \union {key} |-> IF k = key THEN row ELSE rows[k]]
Post(entries) == balance' = [a \in Accounts |-> balance[a] + Credited(entries, a)]

Goto(h, label, subject) == /\ pc' = [pc EXCEPT ![h] = label]
                           /\ id' = [id EXCEPT ![h] = subject]
Finish(h) == Goto(h, "idle", Nothing)

Init ==
  /\ calculation = <<>>
  /\ refundCalculation = <<>>
  /\ balance = [a \in Accounts |-> 0]
  /\ pc = [h \in Handlers |-> "idle"]
  /\ id = [h \in Handlers |-> Nothing]

-----------------------------------------------------------------------------
(* CalculateTicketSaleTaxService.calculateAndPersist *)

\* A request that finds a calculation returns it and changes nothing.
SaleFind(h, o) ==
  /\ pc[h] = "idle"
  /\ o \notin Calculated
  /\ Goto(h, "store_sale", o)
  /\ UNCHANGED <<calculation, refundCalculation, balance>>

\* The unique key on the transaction id lets one of two requests through.
SaleUnique(h) == id[h] \notin Calculated

SaleStore(h) ==
  /\ pc[h] = "store_sale"
  /\ SaleUnique(h)
  /\ \E sale \in SaleInputs, rules \in RuleVersions :
       LET calc == TicketSaleTax(sale, rules)
           entries == Where(sale.posted, SaleEntries(sale, calc))
       IN /\ SaleStorable(calc)
          /\ AllAccepted(entries)
          /\ calculation' = With(calculation, id[h],
                                 [sale |-> sale, rules |-> rules, figures |-> calc])
          /\ Post(entries)
  /\ Finish(h)
  /\ UNCHANGED refundCalculation

-----------------------------------------------------------------------------
(* CalculateRefundTaxService.calculateAndPersist *)

RefundFind(h, r) ==
  /\ pc[h] = "idle"
  /\ r \notin Refunded
  /\ Goto(h, "store_refund", r)
  /\ UNCHANGED <<calculation, refundCalculation, balance>>

\* What may be asked of a sale: nothing relates it to its earlier refunds.
RefundRequests(sale) ==
  {[quantities |-> q, bookingPolicy |-> t.bookingPolicy, commissionPolicy |-> t.commissionPolicy,
    settled |-> t.settled, posted |-> t.posted] :
     q \in {q \in [DOMAIN sale.lines -> 0..MaxQuantity] : ValidRefund(sale, q)},
     t \in RefundTerms}

\* Mutant: the rules of today instead of those of the sale.
CurrentRules(o) == CHOOSE rules \in RuleVersions : TRUE
\* resolveHistoricalRates: the rules the sale was calculated with.
HistoricalRules(o) == calculation[o].rules

RefundOf(o, refund) ==
  RefundTax(calculation[o].sale, calculation[o].figures, refund, HistoricalRules(o))
PostedFor(refund, calc) == Where(refund.posted, RefundEntries(calc))
RefundGoesThrough(refund, calc) == RefundStorable(calc) /\ AllAccepted(PostedFor(refund, calc))

RefundUnique(h) == id[h] \notin Refunded

RefundStore(h) ==
  /\ pc[h] = "store_refund"
  /\ RefundUnique(h)
  /\ \E o \in Calculated :
       \E refund \in RefundRequests(calculation[o].sale) :
         LET calc == RefundOf(o, refund)
         IN /\ RefundGoesThrough(refund, calc)
            /\ refundCalculation' = With(refundCalculation, id[h],
                                         [order |-> o, refund |-> refund, figures |-> calc])
            /\ Post(PostedFor(refund, calc))
  /\ Finish(h)
  /\ UNCHANGED calculation

\* A transaction that meets the row of another request, that a constraint or
\* postEntry refuses, or whose process dies leaves nothing behind.
RollBack(h) ==
  /\ pc[h] # "idle"
  /\ Finish(h)
  /\ UNCHANGED <<calculation, refundCalculation, balance>>

-----------------------------------------------------------------------------
Next ==
  \E h \in Handlers :
    \/ \E o \in Orders : SaleFind(h, o)
    \/ SaleStore(h)
    \/ \E r \in Refunds : RefundFind(h, r)
    \/ RefundStore(h)
    \/ RollBack(h)

Spec == Init /\ [][Next]_vars

-----------------------------------------------------------------------------
(* Properties *)

TypeOK ==
  /\ Calculated \subseteq Orders /\ Refunded \subseteq Refunds
  /\ \A o \in Calculated :
       calculation[o].sale \in SaleInputs /\ calculation[o].rules \in RuleVersions
  /\ \A r \in Refunded : refundCalculation[r].order \in Calculated
  /\ balance \in [Accounts -> Int]
  /\ pc \in [Handlers -> {"idle", "store_sale", "store_refund"}]
  /\ id \in [Handlers -> Orders \union Refunds \union {Nothing}]

\* Double entry: whatever is posted, refunded or rolled back, by however many requests,
\* the debits and credits of the whole ledger are equal (the balance check of postEntry,
\* which sees one entry at a time).
TrialBalance == Total(balance) = 0

\* Whatever requests race or are repeated, a calculation that was stored stays
\* as it is ("never mutates or deletes the original TaxCalculation").
Immutable ==
  [][/\ \A o \in Calculated : o \in Calculated' /\ calculation'[o] = calculation[o]
     /\ \A r \in Refunded : r \in Refunded' /\ refundCalculation'[r] = refundCalculation[r]]_vars

Agent(o) == calculation[o].sale.agencyModel = "DISCLOSED_AGENT"
PostedSales ==
  {o \in Calculated : calculation[o].sale.posted /\ calculation[o].figures.customerPayment > 0}
PostedRefunds == {r \in Refunded : refundCalculation[r].refund.posted}
Summed(amount(_, _)) ==
  Total([o \in PostedSales |-> amount(calculation[o].sale, calculation[o].figures)])

\* Until something is refunded, the sum of the posted entries, made up line by
\* line by another service, agrees account by account with the figures of the
\* calculations: nothing is posted twice, whoever bears the processor's charge.
BooksAgree ==
  PostedRefunds = {} /\ (\A o \in PostedSales : Agent(o)) =>
    /\ balance["CASH_MPESA_CLEARING"] = -Summed(LAMBDA sale, calc : calc.customerPayment)
    /\ balance["ORGANIZER_PAYABLE"] = Summed(LAMBDA sale, calc : calc.settlement)
    /\ balance["BOOKING_FEE_REVENUE"] + balance["COMMISSION_REVENUE"]
         = Summed(LAMBDA sale, calc : calc.revenue)
    /\ balance["TICKETFLOW_VAT_PAYABLE"] = Summed(LAMBDA sale, calc : calc.outputVat)
    /\ balance["PROCESSOR_PAYABLE_CLEARING"]
         = Summed(LAMBDA sale, calc : calc.processorCharge)
    /\ balance["PAYMENT_PROCESSING_EXPENSE"]
         = -Summed(LAMBDA sale, calc : ChargedTo(sale, "TICKETFLOW"))

\* A fee whose refund is split the way the fee itself was.
SplitsBack(fee, sale) == fee.pricing = "VAT_INCLUSIVE" \/ ~sale.ticketFlowRegistered

WholeRefund(sale, refund) == refund.quantities = Sold(sale)
InFull(refund) == refund.bookingPolicy = "FULL" /\ refund.commissionPolicy = "FULL"

ReversesExactly(o, refund, calc) ==
  LET sold == calculation[o].figures IN
  /\ calc.faceValue = sold.organizerProceeds
  /\ calc.organizerVat = sold.organizerVat
  /\ calc.revenue = sold.revenue
  /\ calc.outputVat = sold.outputVat
  /\ calc.nonRefundable = 0

\* Refunding a whole agent sale in full reverses, cent by cent and VAT
\* included, what was charged, even if the rates have changed since.  Fees
\* priced without VAT are excepted: their gross is split as if it were net.
FullRefundExact ==
  \A r \in Refunded :
    LET row == refundCalculation[r]
        sale == calculation[row.order].sale
    IN /\ Agent(row.order)
       /\ WholeRefund(sale, row.refund) /\ InFull(row.refund)
       /\ SplitsBack(sale.bookingFee, sale) /\ SplitsBack(sale.commission, sale)
       => ReversesExactly(row.order, row.refund, row.figures)

\* Under the same exception no policy makes the refund of a whole agent sale
\* fail on a constraint or on an entry that does not balance, so long as the
\* commission is no more than the organizer's proceeds.
WholeRefundPosts ==
  \A o \in Calculated :
    LET sale == calculation[o].sale
        sold == calculation[o].figures
    IN Agent(o) /\ SplitsBack(sale.bookingFee, sale)
       /\ sold.commission.gross <= sold.organizerProceeds
       => \A refund \in RefundRequests(sale) :
            WholeRefund(sale, refund) => RefundGoesThrough(refund, RefundOf(o, refund))

RefundsOf(o) == {r \in Refunded : refundCalculation[r].order = o}
AllTickets(o) ==
  \A i \in DOMAIN calculation[o].sale.lines :
    Total([r \in RefundsOf(o) |-> refundCalculation[r].refund.quantities[i]])
      = Sold(calculation[o].sale)[i]

\* Prorated refunds that between them return every ticket of a sale return its
\* booking fee, but for their rounding: half a cent and half a basis point of
\* the fee each.  Never a second fee, never a fee lost.
ProratedAddsUp ==
  \A o \in Calculated :
    LET n == Cardinality(RefundsOf(o))
        fee == calculation[o].figures.booking.gross
        returned == Total([r \in RefundsOf(o) |-> refundCalculation[r].figures.bookingFee])
    IN /\ n > 0 /\ AllTickets(o) /\ Listed(calculation[o].sale, Sold(calculation[o].sale)) > 0
       /\ \A r \in RefundsOf(o) : refundCalculation[r].refund.bookingPolicy = "PRORATED"
       => 2 * BPS * Magnitude(returned - fee) <= n * (BPS + fee)

\* The document says a refund posts "reversing journal entries".  So after the
\* full refund of the one sale in the books TicketFlow would keep no revenue and
\* owe no VAT on it, and owe the organizer nothing.  The code credits those
\* accounts once more.
RefundReversesBooks ==
  \A o \in PostedSales, r \in PostedRefunds :
    LET row == refundCalculation[r] IN
    /\ PostedSales = {o} /\ PostedRefunds = {r} /\ row.order = o
    /\ Agent(o)
    /\ WholeRefund(calculation[o].sale, row.refund) /\ InFull(row.refund)
    /\ ReversesExactly(o, row.refund, row.figures)
    => /\ balance["BOOKING_FEE_REVENUE"] = 0
       /\ balance["COMMISSION_REVENUE"] = 0
       /\ balance["TICKETFLOW_VAT_PAYABLE"] = 0
       /\ balance["ORGANIZER_PAYABLE"] = -ChargedTo(calculation[o].sale, "ORGANIZER")

=============================================================================
