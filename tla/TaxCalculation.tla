--------------------------- MODULE TaxCalculation ---------------------------
(***************************************************************************)
(* What a ticket sale and a refund come to, and the journal entries they   *)
(* are posted as: calculate-ticket-sale-tax.logic.ts,                      *)
(* calculate-refund-tax.logic.ts and the two ledger posting services.      *)
(*                                                                         *)
(* A sale is a record of its lines, its fees and the parties' VAT          *)
(* registration; rules are the VAT rules of the day of the sale.  Left out *)
(* are warnings, components, hashes, and of a refund the treatment of the  *)
(* processor's charge, which has no amount, the reserve, which is the      *)
(* recovery or nothing, and the credit note flag.                          *)
(***************************************************************************)
EXTENDS Money, Sequences, Functions

AgencyModels == {"DISCLOSED_AGENT", "PRINCIPAL_RESELLER"}
Bearers == {"TICKETFLOW", "ORGANIZER", "CUSTOMER"}

\* The inputs as the end points validate them; posted says that the caller has the
\* sale posted to the ledger.
TicketLines == [price : Nat, quantity : Nat \ {0}, pricing : PricingModes,
                standardRated : BOOLEAN]
Fees == [kind : {"FIXED", "PERCENTAGE"}, value : Nat, pricing : PricingModes]
Sales == [lines : Seq(TicketLines), organizerRegistered : BOOLEAN,
          ticketFlowRegistered : BOOLEAN, agencyModel : AgencyModels,
          bookingFee : Fees, commission : Fees,
          processorCharge : Nat, bearer : Bearers, posted : BOOLEAN]
VatRules == [ticketFlow : Rules, organizer : Rules]
Policies == [bookingPolicy : {"FULL", "PRORATED", "NON_REFUNDABLE"},
             commissionPolicy : {"FULL", "PRORATED", "NONE"},
             settled : BOOLEAN, posted : BOOLEAN]

-----------------------------------------------------------------------------
(* Ticket lines.  quantities says how many tickets of each line are meant: *)
(* those sold, or those refunded.                                          *)

Sold(sale) == [i \in DOMAIN sale.lines |-> sale.lines[i].quantity]
Total(numbers) == FoldFunction(LAMBDA x, sum : x + sum, 0, numbers)

Listed(sale, quantities) ==
  Total([i \in DOMAIN sale.lines |-> sale.lines[i].price * quantities[i]])

BearsVat(sale, i) == sale.lines[i].standardRated /\ sale.organizerRegistered

SplitLine(sale, i, quantities, rules) ==
  Split(sale.lines[i].price * quantities[i], sale.lines[i].pricing,
        BearsVat(sale, i), rules.organizer)

TicketsGross(sale, quantities, rules) ==
  Total([i \in DOMAIN sale.lines |-> SplitLine(sale, i, quantities, rules).gross])
TicketsVat(sale, quantities, rules) ==
  Total([i \in DOMAIN sale.lines |-> SplitLine(sale, i, quantities, rules).vat])

\* organizerTicketNetOfVat, which leaves out the lines that bear no VAT, or the
\* listed price when no line bears any.
TicketsNet(sale, rules) ==
  IF \E i \in DOMAIN sale.lines : BearsVat(sale, i)
  THEN Total([i \in DOMAIN sale.lines |->
                IF BearsVat(sale, i) THEN SplitLine(sale, i, Sold(sale), rules).net ELSE 0])
  ELSE Listed(sale, Sold(sale))

-----------------------------------------------------------------------------
(* calculateTicketSaleTax *)

FeeAmount(fee, base, rule) ==
  IF fee.kind = "FIXED" THEN fee.value ELSE Percentage(base, fee.value, rule.rounding)

SplitFee(fee, sale, rules) ==
  Split(FeeAmount(fee, Listed(sale, Sold(sale)), rules.ticketFlow), fee.pricing,
        sale.ticketFlowRegistered, rules.ticketFlow)

ChargedTo(sale, bearer) == IF sale.bearer = bearer THEN sale.processorCharge ELSE 0

TicketSaleTax(sale, rules) ==
  LET proceeds == TicketsGross(sale, Sold(sale), rules)
      booking == SplitFee(sale.bookingFee, sale, rules)
      commission == SplitFee(sale.commission, sale, rules)
      agent == sale.agencyModel = "DISCLOSED_AGENT"
      ticketVat == TicketsVat(sale, Sold(sale), rules)
  IN [customerPayment |-> proceeds + booking.gross + ChargedTo(sale, "CUSTOMER"),
      organizerProceeds |-> proceeds,
      organizerVat |-> ticketVat,
      booking |-> booking,
      commission |-> commission,
      revenue |-> IF agent THEN booking.net + commission.net
                  ELSE TicketsNet(sale, rules) + booking.net - commission.net,
      outputVat |-> IF agent THEN booking.vat + commission.vat ELSE ticketVat + booking.vat,
      processorCharge |-> sale.processorCharge,
      settlement |-> IF agent THEN proceeds - commission.gross - ChargedTo(sale, "ORGANIZER")
                     ELSE commission.gross]

-----------------------------------------------------------------------------
(* calculateRefundTax.  The amounts of the original sale reach it as the   *)
(* caller's input; here they are the figures recorded for the sale.        *)

\* Mutant: the share of the price of the refunded kinds of ticket only.
FractionOfRefunded(sale, quantities) ==
  LET all == Total([i \in DOMAIN sale.lines |->
                      IF quantities[i] = 0 THEN 0
                      ELSE sale.lines[i].price * sale.lines[i].quantity])
  IN IF all = 0 THEN 0 ELSE DivideRounded(Listed(sale, quantities) * BPS, all, "HALF_UP")

\* The share of the listed price that is refunded, in basis points: clampBps.
Fraction(sale, quantities) ==
  LET all == Listed(sale, Sold(sale))
      share == DivideRounded(Listed(sale, quantities) * BPS, all, "HALF_UP")
  IN IF all = 0 THEN 0 ELSE IF share > BPS THEN BPS ELSE share

Returned(gross, policy, fraction) ==
  CASE policy = "FULL" -> gross
    [] policy = "PRORATED" -> Percentage(gross, fraction, "HALF_UP")
    [] OTHER -> 0

ValidRefund(sale, quantities) ==
  \A i \in DOMAIN sale.lines : quantities[i] \in 0..sale.lines[i].quantity

RefundTax(sale, sold, refund, rules) ==
  LET fraction == Fraction(sale, refund.quantities)
      bookingFee == Returned(sold.booking.gross, refund.bookingPolicy, fraction)
      commission == Returned(sold.commission.gross, refund.commissionPolicy, fraction)
      booking == Split(bookingFee, sale.bookingFee.pricing, sale.ticketFlowRegistered,
                       rules.ticketFlow)
      reversed == Split(commission, sale.commission.pricing, sale.ticketFlowRegistered,
                        rules.ticketFlow)
      face == TicketsGross(sale, refund.quantities, rules)
      payable == IF sale.agencyModel = "DISCLOSED_AGENT" THEN face - commission ELSE commission
  IN [faceValue |-> face,
      organizerVat |-> TicketsVat(sale, refund.quantities, rules),
      bookingFee |-> bookingFee,
      nonRefundable |-> sold.booking.gross - bookingFee,
      booking |-> booking,
      commission |-> reversed,
      revenue |-> booking.net + reversed.net,
      outputVat |-> booking.vat + reversed.vat,
      organizerPayable |-> payable,
      recovery |-> IF refund.settled /\ payable > 0 THEN payable ELSE 0]

-----------------------------------------------------------------------------
(* CHECK constraints of the two tables. *)

SaleStorable(calc) ==
  /\ {calc.customerPayment, calc.organizerProceeds, calc.revenue, calc.outputVat,
      calc.processorCharge} \subseteq Nat
  /\ \A fee \in {calc.booking, calc.commission} : {fee.gross, fee.net, fee.vat} \subseteq Nat

RefundStorable(calc) ==
  {calc.faceValue, calc.bookingFee, calc.nonRefundable, calc.revenue, calc.outputVat,
   calc.organizerPayable, calc.recovery} \subseteq Nat

-----------------------------------------------------------------------------
(* Journal entries: sequences of lines. *)

Accounts == {"CASH_MPESA_CLEARING", "CUSTOMER_REFUND_PAYABLE", "CLIENT_MONEY_ORGANIZER_FUNDS",
             "ORGANIZER_PAYABLE", "BOOKING_FEE_REVENUE", "COMMISSION_REVENUE",
             "TICKETFLOW_VAT_PAYABLE", "PAYMENT_PROCESSING_EXPENSE",
             "PROCESSOR_PAYABLE_CLEARING"}

Debit(account, amount) == [account |-> account, debit |-> amount, credit |-> 0]
Credit(account, amount) == [account |-> account, debit |-> 0, credit |-> amount]
\* Lines the code adds only when they carry an amount.
Where(condition, lines) == IF condition THEN lines ELSE <<>>

SaleEntry(sale, calc) ==
  <<Debit("CASH_MPESA_CLEARING", calc.customerPayment),
    Credit("ORGANIZER_PAYABLE", calc.organizerProceeds)>>
  \o Where(calc.booking.net > 0, <<Credit("BOOKING_FEE_REVENUE", calc.booking.net)>>)
  \o Where(calc.booking.vat > 0, <<Credit("TICKETFLOW_VAT_PAYABLE", calc.booking.vat)>>)
  \o Where(ChargedTo(sale, "CUSTOMER") > 0,
           <<Credit("PROCESSOR_PAYABLE_CLEARING", calc.processorCharge)>>)

CommissionEntry(calc) ==
  <<Debit("ORGANIZER_PAYABLE", calc.commission.gross)>>
  \o Where(calc.commission.net > 0, <<Credit("COMMISSION_REVENUE", calc.commission.net)>>)
  \o Where(calc.commission.vat > 0, <<Credit("TICKETFLOW_VAT_PAYABLE", calc.commission.vat)>>)

\* Mutant: the charge is always TicketFlow's expense.
ProcessorExpensed(sale, calc) ==
  <<Debit("PAYMENT_PROCESSING_EXPENSE", calc.processorCharge),
    Credit("PROCESSOR_PAYABLE_CLEARING", calc.processorCharge)>>
ProcessorEntry(sale, calc) ==
  <<Debit(IF sale.bearer = "TICKETFLOW" THEN "PAYMENT_PROCESSING_EXPENSE"
          ELSE "ORGANIZER_PAYABLE", calc.processorCharge),
    Credit("PROCESSOR_PAYABLE_CLEARING", calc.processorCharge)>>

\* postTicketSale
SaleEntries(sale, calc) ==
  IF calc.customerPayment <= 0 THEN <<>>
  ELSE <<SaleEntry(sale, calc)>>
       \o Where(calc.commission.gross > 0, <<CommissionEntry(calc)>>)
       \o Where(calc.processorCharge > 0 /\ sale.bearer # "CUSTOMER",
                <<ProcessorEntry(sale, calc)>>)

\* The customer's refund: what the credits leave over goes to client money.
RefundEntry(calc) ==
  LET owed == calc.faceValue + calc.bookingFee
      residual == owed - calc.faceValue - calc.booking.net - calc.booking.vat
  IN <<Debit("CUSTOMER_REFUND_PAYABLE", owed), Credit("ORGANIZER_PAYABLE", calc.faceValue)>>
     \o Where(calc.booking.net > 0, <<Credit("BOOKING_FEE_REVENUE", calc.booking.net)>>)
     \o Where(calc.booking.vat > 0, <<Credit("TICKETFLOW_VAT_PAYABLE", calc.booking.vat)>>)
     \o Where(residual # 0, <<Credit("CLIENT_MONEY_ORGANIZER_FUNDS", residual)>>)

ReversedCommissionEntry(calc) ==
  <<Debit("COMMISSION_REVENUE", calc.commission.net),
    Debit("TICKETFLOW_VAT_PAYABLE", calc.commission.vat),
    Credit("ORGANIZER_PAYABLE", calc.commission.net + calc.commission.vat)>>

\* postRefund
RefundEntries(calc) ==
  Where(calc.faceValue + calc.bookingFee > 0, <<RefundEntry(calc)>>)
  \o Where(calc.commission.net > 0 \/ calc.commission.vat > 0,
           <<ReversedCommissionEntry(calc)>>)

\* LedgerRepository.postEntry accepts only entries that balance and whose lines
\* are not negative; one it refuses rolls the whole transaction back.
Accepted(entry) ==
  /\ Total([i \in DOMAIN entry |-> entry[i].debit - entry[i].credit]) = 0
  /\ \A i \in DOMAIN entry : entry[i].debit >= 0 /\ entry[i].credit >= 0
AllAccepted(entries) == \A i \in DOMAIN entries : Accepted(entries[i])

\* What a line, an entry and several entries add to the credit balance of an account.
LineCredit(line, account) == IF line.account = account THEN line.credit - line.debit ELSE 0
EntryCredit(entry, account) == Total([i \in DOMAIN entry |-> LineCredit(entry[i], account)])
Credited(entries, account) ==
  Total([k \in DOMAIN entries |-> EntryCredit(entries[k], account)])
=============================================================================
