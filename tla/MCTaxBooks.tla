----------------------------- MODULE MCTaxBooks -----------------------------
(* A small instance of the tax books. *)
EXTENDS TaxBooks, TLC

Line(price, quantity, pricing, standardRated) ==
  [price |-> price, quantity |-> quantity, pricing |-> pricing, standardRated |-> standardRated]
Fee(kind, value, pricing) == [kind |-> kind, value |-> value, pricing |-> pricing]

\* Two kinds of ticket, one exempt; every fee quoted with its VAT.
Inclusive ==
  [lines |-> <<Line(117, 2, "VAT_INCLUSIVE", TRUE), Line(55, 1, "VAT_INCLUSIVE", FALSE)>>,
   organizerRegistered |-> TRUE, ticketFlowRegistered |-> TRUE,
   agencyModel |-> "DISCLOSED_AGENT",
   bookingFee |-> Fee("FIXED", 53, "VAT_INCLUSIVE"),
   commission |-> Fee("PERCENTAGE", 500, "VAT_INCLUSIVE"),
   processorCharge |-> 7, bearer |-> "ORGANIZER", posted |-> TRUE]
\* Every price quoted without VAT.
Exclusive ==
  [Inclusive EXCEPT
     !.lines = <<Line(103, 3, "VAT_EXCLUSIVE", TRUE)>>,
     !.bookingFee = Fee("PERCENTAGE", 250, "VAT_EXCLUSIVE"),
     !.commission = Fee("FIXED", 31, "VAT_EXCLUSIVE"), !.bearer = "CUSTOMER"]
Unregistered ==
  [Exclusive EXCEPT !.organizerRegistered = FALSE, !.ticketFlowRegistered = FALSE,
                    !.bearer = "TICKETFLOW"]
Principal == [Inclusive EXCEPT !.agencyModel = "PRINCIPAL_RESELLER"]
Free == [Inclusive EXCEPT !.lines = <<Line(0, 1, "VAT_INCLUSIVE", TRUE)>>,
                          !.bookingFee = Fee("FIXED", 0, "VAT_INCLUSIVE")]
Unposted == [Inclusive EXCEPT !.posted = FALSE]
MCSaleInputs == {Inclusive, Exclusive, Unregistered, Principal, Free, Unposted}

\* The organizer's rule and TicketFlow's may differ, and so may their rounding.
VatRule(bps, rounding) == [bps |-> bps, rounding |-> rounding]
MCRuleVersions ==
  {[ticketFlow |-> VatRule(1600, "HALF_UP"), organizer |-> VatRule(1600, "HALF_UP")],
   [ticketFlow |-> VatRule(1400, "DOWN"), organizer |-> VatRule(1600, "DOWN")]}

Terms(booking, commission, settled, posted) ==
  [bookingPolicy |-> booking, commissionPolicy |-> commission,
   settled |-> settled, posted |-> posted]
MCRefundTerms ==
  {Terms("FULL", "FULL", FALSE, TRUE), Terms("PRORATED", "PRORATED", TRUE, TRUE),
   Terms("NON_REFUNDABLE", "NONE", FALSE, FALSE)}

Symmetric == Permutations(Handlers) \union Permutations(Refunds) \union Permutations(Orders)
=============================================================================
