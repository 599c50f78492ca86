--------------------------- MODULE TaxBooksProofs ---------------------------
(***************************************************************************)
(* Proofs about the tax books, for any number of sales, rules, refunds,    *)
(* adjustments, documents and requests in flight: what money.ts promises   *)
(* of every amount; that stored calculations never change, that the ledger *)
(* agrees with them account by account, that the full refund of a whole    *)
(* agent sale reverses it exactly and can always be posted, and that       *)
(* prorated refunds add up; what a RECONCILED period stands for; and that  *)
(* an eTIMS document is transmitted once and never forgotten.              *)
(***************************************************************************)
EXTENDS TaxBooks, TaxPeriods, EtimsOutbox, SumTheorems, FiniteSetTheorems, SequenceTheorems,
        TLAPS

-----------------------------------------------------------------------------
(* Money: amounts in minor units, their rounding and their splits.          *)

Splits == [gross : Nat, net : Nat, vat : Nat]

\* Division with remainder.
LEMMA Quotient ==
  ASSUME NEW n \in Nat, NEW d \in Nat \ {0}
  PROVE  /\ n \div d \in Nat
         /\ n % d \in 0..(d - 1)
         /\ n = d * (n \div d) + (n % d)
OBVIOUS

\* divideBigIntWithRounding is off by less than one unit: rounded down it is
\* never too much, rounded half up it is within half a unit.
THEOREM Rounded ==
  ASSUME NEW n \in Nat, NEW d \in Nat \ {0}, NEW style \in RoundingModes
  PROVE  LET x == DivideRounded(n, d, style) IN
         /\ x \in Nat
         /\ x * d - n < d
         /\ n - x * d < d
         /\ style = "DOWN" => x * d <= n
         /\ style = "HALF_UP" => /\ 2 * (x * d - n) <= d
                                /\ 2 * (n - x * d) < d
<1> DEFINE q == n \div d
           r == n % d
<1>1. q \in Nat /\ r \in 0..(d-1) /\ n = d * q + r
  BY Quotient
<1>2. DivideRounded(n, d, style) = IF style = "HALF_UP" /\ 2 * r >= d THEN q + 1 ELSE q
  BY DEF DivideRounded, Magnitude
<1> HIDE DEF q, r
<1>3. CASE style = "HALF_UP" /\ 2 * r >= d
  <2>1. (q + 1) * d = d * q + d
    BY <1>1
  <2> QED BY <1>1, <1>2, <1>3, <2>1
<1>4. CASE ~(style = "HALF_UP" /\ 2 * r >= d)
  <2>1. q * d = d * q
    BY <1>1
  <2> QED BY <1>1, <1>2, <1>4, <2>1
<1> QED BY <1>3, <1>4

\* Products grow with their factors.
LEMMA Monotone ==
  ASSUME NEW x \in Nat, NEW y \in Nat, NEW d \in Nat, x >= y
  PROVE  x * d >= y * d
<1>1. PICK k \in Nat : x = y + k
  <2>1. x - y \in Nat /\ x = y + (x - y)
    OBVIOUS
  <2> QED BY <2>1
<1>2. x * d = y * d + k * d /\ k * d \in Nat /\ y * d \in Nat
  BY <1>1
<1> QED BY <1>2

\* A quotient of no more than a * d is no more than a, however it is rounded.
LEMMA AtMost ==
  ASSUME NEW n \in Nat, NEW d \in Nat \ {0}, NEW style \in RoundingModes,
         NEW a \in Nat, n <= a * d
  PROVE  DivideRounded(n, d, style) <= a
<1> DEFINE x == DivideRounded(n, d, style)
<1>1. x \in Nat /\ x * d - n < d
  BY Rounded
<1> HIDE DEF x
<1>2. SUFFICES ASSUME x >= a + 1 PROVE FALSE
  BY <1>1 DEF x
<1>3. x * d >= (a + 1) * d
  BY <1>1, <1>2, Monotone
<1>4. (a + 1) * d = a * d + d /\ a * d \in Nat /\ x * d \in Nat
  BY <1>1
<1> QED BY <1>1, <1>3, <1>4

\* A percentage of an amount, up to all of it, is between nothing and the
\* amount, and all of it is the amount.
THEOREM ShareBounded ==
  ASSUME NEW amount \in Nat, NEW share \in 0..BPS, NEW style \in RoundingModes
  PROVE  /\ Percentage(amount, share, style) \in 0..amount
         /\ share = BPS => Percentage(amount, share, style) = amount
<1>1. BPS \in Nat \ {0} /\ share \in Nat /\ share <= BPS
  BY DEF BPS
<1>2. amount * share \in Nat /\ amount * share <= amount * BPS
  <2>1. BPS * amount >= share * amount
    BY <1>1, Monotone
  <2>2. amount * share = share * amount /\ amount * BPS = BPS * amount
        /\ share * amount \in Nat
    BY <1>1
  <2> QED BY <2>1, <2>2, <1>1
<1>3. Percentage(amount, share, style) \in Nat
  BY <1>1, <1>2, Rounded DEF Percentage
<1>4. Percentage(amount, share, style) <= amount
  BY <1>1, <1>2, AtMost DEF Percentage
<1>5. ASSUME share = BPS PROVE Percentage(amount, share, style) >= amount
  <2> DEFINE x == Percentage(amount, share, style)
  <2>1. x \in Nat /\ amount * BPS - x * BPS < BPS
    BY <1>1, <1>2, <1>5, Rounded DEF Percentage
  <2> HIDE DEF x
  <2>2. SUFFICES ASSUME amount >= x + 1 PROVE FALSE
    BY <1>3 DEF x
  <2>3. amount * BPS >= (x + 1) * BPS
    BY <1>1, <2>1, <2>2, Monotone
  <2>4. (x + 1) * BPS = x * BPS + BPS /\ x * BPS \in Nat /\ amount * BPS \in Nat
    BY <1>1, <2>1
  <2> QED BY <1>1, <2>1, <2>3, <2>4
<1> QED BY <1>3, <1>4, <1>5

\* VAT extracted from an amount, or added to one, and the net make up the gross
\* to the cent, and none of the three is negative.
THEOREM SplitBalances ==
  ASSUME NEW amount \in Nat, NEW pricing \in PricingModes, NEW chargesVat \in BOOLEAN,
         NEW rule \in Rules
  PROVE  LET split == Split(amount, pricing, chargesVat, rule) IN
         /\ split \in Splits
         /\ split.net + split.vat = split.gross
         /\ pricing = "VAT_INCLUSIVE" \/ ~chargesVat => split.gross = amount
<1> USE DEF Splits
<1>1. /\ BPS \in Nat \ {0} /\ BPS + rule.bps \in Nat \ {0}
      /\ rule.bps \in Nat /\ rule.rounding \in RoundingModes
  BY DEF BPS, Rules
<1>2. CASE ~chargesVat
  BY <1>2 DEF Split
<1>3. CASE chargesVat /\ pricing = "VAT_INCLUSIVE"
  <2> DEFINE net == DivideRounded(amount * BPS, BPS + rule.bps, rule.rounding)
  <2>1. amount * BPS \in Nat /\ amount * (BPS + rule.bps) \in Nat
        /\ amount * BPS <= amount * (BPS + rule.bps)
    <3>1. (BPS + rule.bps) * amount >= BPS * amount
      BY <1>1, Monotone
    <3>2. amount * BPS = BPS * amount /\ BPS * amount \in Nat
          /\ amount * (BPS + rule.bps) = (BPS + rule.bps) * amount
          /\ (BPS + rule.bps) * amount \in Nat
      BY <1>1
    <3> QED BY <3>1, <3>2
  <2>2. net \in Nat
    BY <1>1, <2>1, Rounded
  <2>3. net <= amount
    BY <1>1, <2>1, AtMost
  <2>4. Split(amount, pricing, chargesVat, rule)
          = [gross |-> amount, net |-> net, vat |-> amount - net]
    BY <1>3 DEF Split, ExtractVat
  <2> HIDE DEF net
  <2> QED BY <2>2, <2>3, <2>4
<1>4. CASE chargesVat /\ pricing = "VAT_EXCLUSIVE"
  <2> DEFINE vat == Percentage(amount, rule.bps, rule.rounding)
  <2>1. amount * rule.bps \in Nat
    BY <1>1
  <2>2. vat \in Nat
    BY <1>1, <2>1, Rounded DEF Percentage
  <2>3. Split(amount, pricing, chargesVat, rule)
          = [gross |-> amount + vat, net |-> amount, vat |-> vat]
    BY <1>4 DEF Split, AddVat
  <2>4. ~(pricing = "VAT_INCLUSIVE" \/ ~chargesVat)
    BY <1>4
  <2> HIDE DEF vat
  <2> DEFINE split == Split(amount, pricing, chargesVat, rule)
  <2>5. split \in Splits /\ split.net + split.vat = split.gross
    BY <2>2, <2>3
  <2> HIDE DEF split
  <2> QED BY <2>4, <2>5 DEF split
<1> QED BY <1>2, <1>3, <1>4 DEF PricingModes

-----------------------------------------------------------------------------
(* TaxBooks: the rows of sales and refunds.                                 *)

\* Every row holds what the calculation gives for its inputs, and a refund is
\* calculated from the row and with the rules of its sale.
RowsInv ==
  /\ \A o \in Calculated :
       /\ calculation[o].figures = TicketSaleTax(calculation[o].sale, calculation[o].rules)
       /\ SaleStorable(calculation[o].figures)
  /\ \A r \in Refunded :
       /\ refundCalculation[r].order \in Calculated
       /\ refundCalculation[r].figures
            = RefundOf(refundCalculation[r].order, refundCalculation[r].refund)

-----------------------------------------------------------------------------

\* A fee that is split back is split the same way, its gross being the amount.
LEMMA SplitAgain ==
  ASSUME NEW amount, NEW pricing, NEW chargesVat, NEW rule,
         pricing = "VAT_INCLUSIVE" \/ ~chargesVat
  PROVE  LET split == Split(amount, pricing, chargesVat, rule)
         IN Split(split.gross, pricing, chargesVat, rule) = split
<1>1. Split(amount, pricing, chargesVat, rule).gross = amount
  <2>1. CASE ~chargesVat
    BY <2>1 DEF Split
  <2>2. CASE chargesVat /\ pricing = "VAT_INCLUSIVE"
    BY <2>2 DEF Split, ExtractVat
  <2> QED BY <2>1, <2>2
<1> QED BY <1>1

-----------------------------------------------------------------------------

\* No step replaces or removes a row.
THEOREM RowsStay == Spec => Immutable
<1> DEFINE Kept ==
      /\ \A o \in Calculated : o \in Calculated' /\ calculation'[o] = calculation[o]
      /\ \A r \in Refunded : r \in Refunded' /\ refundCalculation'[r] = refundCalculation[r]
<1>1. ASSUME [Next]_vars PROVE Kept
  <2>1. CASE UNCHANGED <<calculation, refundCalculation>>
    BY <2>1 DEF Calculated, Refunded
  <2>2. ASSUME NEW h \in Handlers, SaleStore(h) PROVE Kept
    BY <2>2 DEF With, SaleStore, SaleUnique, Calculated, Refunded
  <2>3. ASSUME NEW h \in Handlers, RefundStore(h) PROVE Kept
    BY <2>3 DEF With, RefundStore, RefundUnique, Calculated, Refunded
  <2> QED BY <1>1, <2>1, <2>2, <2>3 DEF Next, vars, SaleFind, RefundFind, RollBack
<1> QED BY <1>1, PTL DEF Spec, Immutable

-----------------------------------------------------------------------------

THEOREM Rows == Spec => []RowsInv
<1>1. Init => RowsInv
  BY DEF Init, RowsInv, Calculated, Refunded
<1>2. ASSUME RowsInv, [Next]_vars PROVE RowsInv'
  <2>1. CASE UNCHANGED <<calculation, refundCalculation>>
    BY <1>2, <2>1 DEF RowsInv, Calculated, Refunded, RefundOf, HistoricalRules
  <2>2. ASSUME NEW h \in Handlers, SaleStore(h) PROVE RowsInv'
    <3>1. PICK sale \in SaleInputs, rules \in RuleVersions :
            LET calc == TicketSaleTax(sale, rules)
            IN /\ SaleStorable(calc)
               /\ calculation' = With(calculation, id[h],
                                      [sale |-> sale, rules |-> rules, figures |-> calc])
      BY <2>2 DEF SaleStore
    <3>2. id[h] \notin DOMAIN calculation /\ refundCalculation' = refundCalculation
      BY <2>2 DEF SaleStore, SaleUnique, Calculated
    <3>3. /\ Calculated' = Calculated \union {id[h]}
          /\ calculation'[id[h]]
               = [sale |-> sale, rules |-> rules, figures |-> TicketSaleTax(sale, rules)]
          /\ \A o \in Calculated : calculation'[o] = calculation[o]
      BY <3>1, <3>2 DEF With, Calculated
    <3>4. \A o \in Calculated' :
            /\ calculation'[o].figures = TicketSaleTax(calculation'[o].sale, calculation'[o].rules)
            /\ SaleStorable(calculation'[o].figures)
      BY <1>2, <3>1, <3>3 DEF RowsInv
    <3>5. \A r \in Refunded' :
            /\ refundCalculation'[r].order \in Calculated'
            /\ refundCalculation'[r].figures
                 = RefundTax(calculation'[refundCalculation'[r].order].sale,
                             calculation'[refundCalculation'[r].order].figures,
                             refundCalculation'[r].refund,
                             calculation'[refundCalculation'[r].order].rules)
      BY <1>2, <3>2, <3>3 DEF RowsInv, Refunded, RefundOf, HistoricalRules
    <3> QED BY <3>2, <3>4, <3>5 DEF RowsInv, RefundOf, HistoricalRules
  <2>3. ASSUME NEW h \in Handlers, RefundStore(h) PROVE RowsInv'
    <3>0. PICK o \in Calculated : \E refund \in RefundRequests(calculation[o].sale) :
            refundCalculation' = With(refundCalculation, id[h],
              [order |-> o, refund |-> refund, figures |-> RefundOf(o, refund)])
      BY <2>3 DEF RefundStore
    <3>1. PICK refund \in RefundRequests(calculation[o].sale) :
            refundCalculation' = With(refundCalculation, id[h],
              [order |-> o, refund |-> refund, figures |-> RefundOf(o, refund)])
      BY <3>0
    <3>2. id[h] \notin DOMAIN refundCalculation /\ calculation' = calculation
      BY <2>3 DEF RefundStore, RefundUnique, Refunded
    <3>3. /\ Refunded' = Refunded \union {id[h]}
          /\ refundCalculation'[id[h]]
               = [order |-> o, refund |-> refund, figures |-> RefundOf(o, refund)]
          /\ \A r \in Refunded : refundCalculation'[r] = refundCalculation[r]
      BY <3>1, <3>2 DEF With, Refunded
    <3> QED BY <1>2, <3>2, <3>3 DEF RowsInv, Calculated, RefundOf, HistoricalRules
  <2> QED BY <1>2, <2>1, <2>2, <2>3 DEF Next, vars, SaleFind, RefundFind, RollBack
<1> QED BY <1>1, <1>2, PTL DEF Spec

-----------------------------------------------------------------------------

\* The full refund of a whole agent sale reverses exactly what was charged,
\* however the amounts round and whatever the rates were.
THEOREM RefundExact == Spec => []FullRefundExact
<1>1. ASSUME RowsInv PROVE FullRefundExact
  <2> SUFFICES ASSUME NEW r \in Refunded,
                      Agent(refundCalculation[r].order),
                      WholeRefund(calculation[refundCalculation[r].order].sale,
                                  refundCalculation[r].refund),
                      InFull(refundCalculation[r].refund),
                      SplitsBack(calculation[refundCalculation[r].order].sale.bookingFee,
                                 calculation[refundCalculation[r].order].sale),
                      SplitsBack(calculation[refundCalculation[r].order].sale.commission,
                                 calculation[refundCalculation[r].order].sale)
               PROVE  ReversesExactly(refundCalculation[r].order, refundCalculation[r].refund,
                                      refundCalculation[r].figures)
    BY ZenonT(60) DEF FullRefundExact
  <2> DEFINE o == refundCalculation[r].order
             sale == calculation[o].sale
             rules == calculation[o].rules
             entry == calculation[o].figures
             refund == refundCalculation[r].refund
             calc == refundCalculation[r].figures
             booking == SplitFee(sale.bookingFee, sale, rules)
             commission == SplitFee(sale.commission, sale, rules)
  <2>1. /\ o \in Calculated
        /\ entry = TicketSaleTax(sale, rules)
        /\ SaleStorable(entry)
        /\ calc = RefundTax(sale, entry, refund, rules)
    BY <1>1 DEF RowsInv, RefundOf, HistoricalRules
  <2>2. /\ refund.quantities = Sold(sale)
        /\ refund.bookingPolicy = "FULL" /\ refund.commissionPolicy = "FULL"
        /\ sale.agencyModel = "DISCLOSED_AGENT"
    BY DEF WholeRefund, InFull, Agent
  <2>3. SplitsBack(sale.bookingFee, sale) /\ SplitsBack(sale.commission, sale)
    OBVIOUS
  <2> HIDE DEF o, sale, rules, entry, refund, calc
  <2>4. /\ entry.booking = booking /\ entry.commission = commission
        /\ entry.organizerProceeds = TicketsGross(sale, Sold(sale), rules)
        /\ entry.organizerVat = TicketsVat(sale, Sold(sale), rules)
        /\ entry.revenue = booking.net + commission.net
        /\ entry.outputVat = booking.vat + commission.vat
    BY <2>1, <2>2, SMTT(30) DEF TicketSaleTax
  <2>5. booking.gross \in Nat
    BY <2>1, <2>4 DEF SaleStorable
  <2>6. \A fee \in {sale.bookingFee, sale.commission} :
          Split(SplitFee(fee, sale, rules).gross, fee.pricing,
                sale.ticketFlowRegistered, rules.ticketFlow) = SplitFee(fee, sale, rules)
    BY <2>3, SplitAgain DEF SplitsBack, SplitFee
  <2>7. /\ Returned(booking.gross, "FULL", Fraction(sale, refund.quantities)) = booking.gross
        /\ Returned(commission.gross, "FULL", Fraction(sale, refund.quantities))
             = commission.gross
    BY SMTT(30) DEF Returned
  <2> HIDE DEF booking, commission
  <2>8. /\ calc.faceValue = TicketsGross(sale, Sold(sale), rules)
        /\ calc.organizerVat = TicketsVat(sale, Sold(sale), rules)
        /\ calc.nonRefundable = booking.gross - booking.gross
        /\ calc.booking = booking /\ calc.commission = commission
        /\ calc.revenue = booking.net + commission.net
        /\ calc.outputVat = booking.vat + commission.vat
    BY <2>1, <2>2, <2>4, <2>6, <2>7 DEF RefundTax, booking, commission
  <2>9. ReversesExactly(o, refund, calc)
    BY <2>4, <2>5, <2>8 DEF ReversesExactly, entry
  <2> QED BY <2>9 DEF o, refund, calc
<1> QED BY <1>1, Rows, PTL

-----------------------------------------------------------------------------
(* TaxBooks: sums over lines, entries and calculations.                     *)

\* The sums of the model are those of SumTheorems.
LEMMA TotalIs == ASSUME NEW F PROVE Total(F) = SumOver(F, DOMAIN F)
BY DEF Total, FoldFunction, FoldFunctionOnSet, SumOver, MapThenSumSet, MapThenFoldSet

LEMMA TotalOfNone == ASSUME NEW F, DOMAIN F = {} PROVE Total(F) = 0
BY TotalIs, SumOfNone

\* One more element adds its value.
LEMMA TotalNext ==
  ASSUME NEW F, NEW G, NEW e, IsFiniteSet(DOMAIN F), e \notin DOMAIN F,
         DOMAIN G = DOMAIN F \union {e}, \A x \in DOMAIN G : G[x] \in Int,
         \A x \in DOMAIN F : F[x] = G[x]
  PROVE Total(G) = Total(F) + G[e] /\ Total(F) \in Int
<1>1. SumOver(G, DOMAIN F \union {e}) = SumOver(G, DOMAIN F) + G[e] /\ SumOver(G, DOMAIN F) \in Int
  BY SumAdds
<1>2. SumOver(F, DOMAIN F) = SumOver(G, DOMAIN F)
  BY SumAgrees
<1> QED
  BY <1>1, <1>2, TotalIs

\* What appending an element does to a sequence.
LEMMA Appended ==
  ASSUME NEW T, NEW s \in Seq(T), NEW x \in T, NEW longer, longer = s \o <<x>>
  PROVE  /\ longer \in Seq(T)
         /\ IsFiniteSet(DOMAIN s) /\ Len(s) + 1 \notin DOMAIN s
         /\ DOMAIN longer = DOMAIN s \union {Len(s) + 1}
         /\ longer[Len(s) + 1] = x
         /\ \A i \in DOMAIN s : longer[i] = s[i]
<1>1. Len(s) \in Nat /\ DOMAIN s = 1..Len(s)
  OBVIOUS
<1>2. IsFiniteSet(DOMAIN s)
  BY <1>1, FS_Interval
<1>3. longer = Append(s, x)
  BY AppendIsConcat
<1>4. /\ longer \in Seq(T) /\ Len(longer) = Len(s) + 1 /\ DOMAIN longer = 1..Len(longer)
      /\ \A i \in 1..Len(s) : longer[i] = s[i]
      /\ longer[Len(s) + 1] = x
  BY <1>3, AppendProperties
<1> QED
  BY <1>1, <1>2, <1>4

Lines == [account : Accounts, debit : Nat, credit : Nat]
Imbalance(entry) == Total([i \in DOMAIN entry |-> entry[i].debit - entry[i].credit])
\* What a tail that may be left out adds.
Added(tail, amount) == IF tail = <<>> THEN 0 ELSE amount

\* A line appended, or not, adds what it carries, or nothing.
LEMMA LineNext ==
  ASSUME NEW entry \in Seq(Lines), NEW line \in Lines, NEW tail, NEW account,
         tail = <<>> \/ tail = <<line>>
  PROVE  LET longer == entry \o tail IN
         /\ longer \in Seq(Lines)
         /\ EntryCredit(entry, account) \in Int
         /\ EntryCredit(longer, account)
              = EntryCredit(entry, account) + Added(tail, LineCredit(line, account))
         /\ Imbalance(entry) \in Int
         /\ Imbalance(longer) = Imbalance(entry) + Added(tail, line.debit - line.credit)
<1> DEFINE longer == entry \o tail
           F1 == [i \in DOMAIN entry |-> LineCredit(entry[i], account)]
           G1 == [i \in DOMAIN longer |-> LineCredit(longer[i], account)]
           F2 == [i \in DOMAIN entry |-> entry[i].debit - entry[i].credit]
           G2 == [i \in DOMAIN longer |-> longer[i].debit - longer[i].credit]
           e == Len(entry) + 1
<1>1. \A l \in Lines : LineCredit(l, account) \in Int /\ l.debit - l.credit \in Int
  BY DEF Lines, LineCredit
<1>2. /\ EntryCredit(entry, account) = Total(F1) /\ EntryCredit(longer, account) = Total(G1)
      /\ Imbalance(entry) = Total(F2) /\ Imbalance(longer) = Total(G2)
  BY DEF EntryCredit, Imbalance
<1>3. /\ DOMAIN F1 = DOMAIN entry /\ DOMAIN F2 = DOMAIN entry
      /\ \A i \in DOMAIN entry : F1[i] \in Int /\ F2[i] \in Int
      /\ IsFiniteSet(DOMAIN entry)
  <2>1. \A i \in DOMAIN entry : entry[i] \in Lines
    OBVIOUS
  <2>2. IsFiniteSet(DOMAIN entry)
    <3>1. DOMAIN entry = 1..Len(entry) /\ Len(entry) \in Nat
      OBVIOUS
    <3> QED
      BY <3>1, FS_Interval
  <2> QED
    BY <1>1, <2>1, <2>2
<1>4. Total(F1) \in Int /\ Total(F2) \in Int
  <2> HIDE DEF F1, F2
  <2> QED
    BY <1>3, TotalIs, SumTakesAny
<1>5. CASE tail = <<>>
  <2>1. longer = entry
    BY <1>5, ConcatEmptySeq
  <2>2. Added(tail, LineCredit(line, account)) = 0 /\ Added(tail, line.debit - line.credit) = 0
    BY <1>5 DEF Added
  <2>3. longer \in Seq(Lines) /\ Total(G1) = Total(F1) /\ Total(G2) = Total(F2)
    BY <2>1
  <2> HIDE DEF F1, F2, G1, G2
  <2> QED
    BY <1>2, <1>4, <2>2, <2>3
<1>6. CASE tail # <<>>
  <2>1. longer = entry \o <<line>>
    BY <1>6
  <2>2. /\ longer \in Seq(Lines) /\ e \notin DOMAIN entry
        /\ DOMAIN longer = DOMAIN entry \union {e}
        /\ longer[e] = line
        /\ \A i \in DOMAIN entry : longer[i] = entry[i]
    BY <2>1, Appended
  <2> HIDE DEF e
  <2>3. \A i \in DOMAIN longer : longer[i] \in Lines
    BY <2>2
  <2>4. /\ IsFiniteSet(DOMAIN F1) /\ e \notin DOMAIN F1 /\ DOMAIN G1 = DOMAIN F1 \union {e}
        /\ \A i \in DOMAIN G1 : G1[i] \in Int
        /\ \A i \in DOMAIN F1 : F1[i] = G1[i]
        /\ G1[e] = LineCredit(line, account)
    BY <1>1, <1>3, <2>2, <2>3
  <2>5. /\ IsFiniteSet(DOMAIN F2) /\ e \notin DOMAIN F2 /\ DOMAIN G2 = DOMAIN F2 \union {e}
        /\ \A i \in DOMAIN G2 : G2[i] \in Int
        /\ \A i \in DOMAIN F2 : F2[i] = G2[i]
        /\ G2[e] = line.debit - line.credit
    BY <1>1, <1>3, <2>2, <2>3
  <2> HIDE DEF F1, F2, G1, G2
  <2>6. Total(G1) = Total(F1) + G1[e]
    BY <2>4, TotalNext
  <2>7. Total(G2) = Total(F2) + G2[e]
    BY <2>5, TotalNext
  <2>8. /\ Added(tail, LineCredit(line, account)) = LineCredit(line, account)
        /\ Added(tail, line.debit - line.credit) = line.debit - line.credit
    BY <1>6 DEF Added
  <2> QED
    BY <1>2, <1>4, <2>2, <2>4, <2>5, <2>6, <2>7, <2>8
<1> QED
  BY <1>5, <1>6

\* And so does an entry appended to entries.
LEMMA EntryNext ==
  ASSUME NEW entries \in Seq(Seq(Lines)), NEW entry \in Seq(Lines), NEW tail, NEW account,
         tail = <<>> \/ tail = <<entry>>
  PROVE  LET longer == entries \o tail IN
         /\ longer \in Seq(Seq(Lines))
         /\ EntryCredit(entry, account) \in Int
         /\ Credited(entries, account) \in Int
         /\ Credited(longer, account)
              = Credited(entries, account) + Added(tail, EntryCredit(entry, account))
<1> DEFINE T == Seq(Lines)
           longer == entries \o tail
           F == [i \in DOMAIN entries |-> EntryCredit(entries[i], account)]
           G == [i \in DOMAIN longer |-> EntryCredit(longer[i], account)]
           e == Len(entries) + 1
<1>1. \A s \in T : EntryCredit(s, account) \in Int
  <2> TAKE s \in T
  <2>1. PICK line : line = Debit("CASH_MPESA_CLEARING", 0)
    OBVIOUS
  <2>2. line \in Lines
    BY <2>1 DEF Lines, Debit, Accounts
  <2>3. PICK tail0 : tail0 = <<>>
    OBVIOUS
  <2> QED
    BY <2>2, <2>3, LineNext DEF T
<1>2. entries \in Seq(T) /\ entry \in T
  OBVIOUS
<1> HIDE DEF T
<1>3. Credited(entries, account) = Total(F) /\ Credited(longer, account) = Total(G)
  BY DEF Credited
<1>4. /\ DOMAIN F = DOMAIN entries
      /\ \A i \in DOMAIN entries : F[i] \in Int
      /\ IsFiniteSet(DOMAIN entries)
  <2>1. \A i \in DOMAIN entries : entries[i] \in T
    BY <1>2
  <2>2. IsFiniteSet(DOMAIN entries)
    <3>1. DOMAIN entries = 1..Len(entries) /\ Len(entries) \in Nat
      BY <1>2
    <3> QED
      BY <3>1, FS_Interval
  <2> QED
    BY <1>1, <2>1, <2>2
<1>5. Total(F) \in Int
  <2> HIDE DEF F
  <2> QED
    BY <1>4, TotalIs, SumTakesAny
<1>6. CASE tail = <<>>
  <2>1. longer = entries
    BY <1>2, <1>6, ConcatEmptySeq
  <2>2. Added(tail, EntryCredit(entry, account)) = 0
    BY <1>6 DEF Added
  <2>3. longer \in Seq(T) /\ Total(G) = Total(F)
    BY <1>2, <2>1
  <2> HIDE DEF F, G
  <2> QED
    BY <1>1, <1>2, <1>3, <1>5, <2>2, <2>3 DEF T
<1>7. CASE tail # <<>>
  <2>1. longer = entries \o <<entry>>
    BY <1>7
  <2>2. /\ longer \in Seq(T) /\ e \notin DOMAIN entries
        /\ DOMAIN longer = DOMAIN entries \union {e}
        /\ longer[e] = entry
        /\ \A i \in DOMAIN entries : longer[i] = entries[i]
    BY <1>2, <2>1, Appended
  <2> HIDE DEF e
  <2>3. \A i \in DOMAIN longer : longer[i] \in T
    BY <2>2
  <2>4. /\ IsFiniteSet(DOMAIN F) /\ e \notin DOMAIN F /\ DOMAIN G = DOMAIN F \union {e}
        /\ \A i \in DOMAIN G : G[i] \in Int
        /\ \A i \in DOMAIN F : F[i] = G[i]
        /\ G[e] = EntryCredit(entry, account)
    BY <1>1, <1>4, <2>2, <2>3
  <2> HIDE DEF F, G
  <2>5. Total(G) = Total(F) + G[e]
    BY <2>4, TotalNext
  <2>6. Added(tail, EntryCredit(entry, account)) = EntryCredit(entry, account)
    BY <1>7 DEF Added
  <2> QED
    BY <1>1, <1>2, <1>3, <1>5, <2>2, <2>4, <2>5, <2>6 DEF T
<1> QED
  BY <1>6, <1>7

LEMMA TotalOfOne ==
  ASSUME NEW F, DOMAIN F = {1}, F[1] \in Int
  PROVE  Total(F) = F[1]
BY SumOfOne, TotalIs

LEMMA TotalOfTwo ==
  ASSUME NEW F, DOMAIN F = {1, 2}, F[1] \in Int, F[2] \in Int
  PROVE  Total(F) = F[1] + F[2]
<1>1. SumOver(F, {1}) = F[1]
  BY SumOfOne
<1>2. IsFiniteSet({1}) /\ 2 \notin {1} /\ (\A x \in {1} \union {2} : F[x] \in Int)
  BY FS_Singleton
<1>3. SumOver(F, {1} \union {2}) = SumOver(F, {1}) + F[2]
  BY <1>2, SumAdds
<1>4. DOMAIN F = {1} \union {2}
  OBVIOUS
<1> QED
  BY <1>1, <1>3, <1>4, TotalIs

LEMMA CreditType ==
  ASSUME NEW entry \in Seq(Lines), NEW account
  PROVE  EntryCredit(entry, account) \in Int
<1>1. PICK line : line = Debit("CASH_MPESA_CLEARING", 0)
  OBVIOUS
<1>2. line \in Lines
  BY <1>1 DEF Lines, Debit, Accounts
<1>3. PICK tail : tail = <<>>
  OBVIOUS
<1> QED
  BY <1>2, <1>3, LineNext

\* An entry that begins with two lines, and a posting that begins with one entry.
LEMMA FirstLines ==
  ASSUME NEW first \in Lines, NEW second \in Lines, NEW account
  PROVE  LET entry == <<first, second>> IN
         /\ entry \in Seq(Lines)
         /\ EntryCredit(entry, account) = LineCredit(first, account) + LineCredit(second, account)
         /\ Imbalance(entry) = (first.debit - first.credit) + (second.debit - second.credit)
<1> DEFINE entry == <<first, second>>
           F == [i \in DOMAIN entry |-> LineCredit(entry[i], account)]
           G == [i \in DOMAIN entry |-> entry[i].debit - entry[i].credit]
<1>1. /\ LineCredit(first, account) \in Int /\ LineCredit(second, account) \in Int
      /\ first.debit - first.credit \in Int /\ second.debit - second.credit \in Int
  BY DEF Lines, LineCredit
<1>2. DOMAIN entry = {1, 2} /\ entry[1] = first /\ entry[2] = second /\ entry \in Seq(Lines)
  OBVIOUS
<1>3. EntryCredit(entry, account) = Total(F) /\ Imbalance(entry) = Total(G)
  BY DEF EntryCredit, Imbalance
<1> HIDE DEF entry
<1>4. /\ DOMAIN F = {1, 2} /\ F[1] = LineCredit(first, account)
      /\ F[2] = LineCredit(second, account)
      /\ DOMAIN G = {1, 2} /\ G[1] = first.debit - first.credit
      /\ G[2] = second.debit - second.credit
  BY <1>2
<1> HIDE DEF F, G
<1>5. Total(F) = F[1] + F[2] /\ Total(G) = G[1] + G[2]
  BY <1>1, <1>4, TotalOfTwo
<1> QED
  BY <1>2, <1>3, <1>4, <1>5 DEF entry

LEMMA FirstEntry ==
  ASSUME NEW account
  PROVE  /\ Credited(<<>>, account) = 0
         /\ \A entry \in Seq(Lines) : /\ <<entry>> \in Seq(Seq(Lines))
                                      /\ Credited(<<entry>>, account) = EntryCredit(entry, account)
<1>1. Credited(<<>>, account) = 0
  <2>1. DOMAIN [i \in DOMAIN <<>> |-> EntryCredit(<<>>[i], account)] = {}
    OBVIOUS
  <2> QED
    BY <2>1, TotalOfNone DEF Credited
<1>2. ASSUME NEW entry \in Seq(Lines)
      PROVE  /\ <<entry>> \in Seq(Seq(Lines))
             /\ Credited(<<entry>>, account) = EntryCredit(entry, account)
  <2> DEFINE one == <<entry>>
             F == [i \in DOMAIN one |-> EntryCredit(one[i], account)]
  <2>1. DOMAIN one = {1} /\ one[1] = entry
    OBVIOUS
  <2>2. Credited(one, account) = Total(F)
    BY DEF Credited
  <2> HIDE DEF one
  <2>3. DOMAIN F = {1} /\ F[1] = EntryCredit(entry, account)
    BY <2>1
  <2>4. EntryCredit(entry, account) \in Int
    BY CreditType
  <2> HIDE DEF F
  <2>5. Total(F) = F[1]
    BY <2>3, <2>4, TotalOfOne
  <2>6. <<entry>> \in Seq(Seq(Lines))
    OBVIOUS
  <2> QED
    BY <2>2, <2>3, <2>5, <2>6 DEF one
<1> QED
  BY <1>1, <1>2

\* What amounts to n in one account adds to another.
At(account, other, n) == IF account = other THEN n ELSE 0

LEMMA LineIs ==
  ASSUME NEW account \in Accounts, NEW n \in Nat, NEW other
  PROVE  /\ Debit(account, n) \in Lines /\ Credit(account, n) \in Lines
         /\ LineCredit(Debit(account, n), other) = -At(account, other, n)
         /\ LineCredit(Credit(account, n), other) = At(account, other, n)
         /\ Debit(account, n).debit - Debit(account, n).credit = n
         /\ Credit(account, n).debit - Credit(account, n).credit = -n
BY DEF Debit, Credit, Lines, LineCredit, At

\* A credit that is left out when it carries nothing.
LEMMA CreditNext ==
  ASSUME NEW entry \in Seq(Lines), NEW account \in Accounts, NEW n \in Nat, NEW m \in Nat,
         NEW tail, NEW other,
         (tail = <<>> /\ m = 0) \/ (tail = <<Credit(account, n)>> /\ m = n)
  PROVE  /\ entry \o tail \in Seq(Lines)
         /\ EntryCredit(entry, other) \in Int
         /\ EntryCredit(entry \o tail, other) = EntryCredit(entry, other) + At(account, other, m)
         /\ Imbalance(entry) \in Int
         /\ Imbalance(entry \o tail) = Imbalance(entry) - m
<1>1. PICK line : line = Credit(account, n)
  OBVIOUS
<1>2. /\ line \in Lines /\ LineCredit(line, other) = At(account, other, n)
      /\ line.debit - line.credit = -n
  BY <1>1, LineIs
<1>3. tail = <<>> \/ tail = <<line>>
  BY <1>1
<1>4. /\ entry \o tail \in Seq(Lines)
      /\ EntryCredit(entry, other) \in Int
      /\ EntryCredit(entry \o tail, other)
           = EntryCredit(entry, other) + Added(tail, LineCredit(line, other))
      /\ Imbalance(entry) \in Int
      /\ Imbalance(entry \o tail) = Imbalance(entry) + Added(tail, line.debit - line.credit)
  BY <1>2, <1>3, LineNext
<1>5. CASE tail = <<>> /\ m = 0
  BY <1>4, <1>5 DEF Added, At
<1>6. CASE tail = <<Credit(account, n)>> /\ m = n
  <2>1. tail # <<>>
    BY <1>6
  <2> QED
    BY <1>2, <1>4, <1>6, <2>1 DEF Added
<1> QED
  BY <1>5, <1>6

LEMMA EntryAdds ==
  ASSUME NEW entries \in Seq(Seq(Lines)), NEW entry \in Seq(Lines), NEW tail, NEW account,
         NEW m, (tail = <<>> /\ m = 0) \/ (tail = <<entry>> /\ m = EntryCredit(entry, account))
  PROVE  /\ entries \o tail \in Seq(Seq(Lines))
         /\ Credited(entries, account) \in Int
         /\ Credited(entries \o tail, account) = Credited(entries, account) + m
<1>1. tail = <<>> \/ tail = <<entry>>
  OBVIOUS
<1>2. /\ entries \o tail \in Seq(Seq(Lines))
      /\ Credited(entries, account) \in Int
      /\ Credited(entries \o tail, account)
           = Credited(entries, account) + Added(tail, EntryCredit(entry, account))
  BY <1>1, EntryNext
<1>3. CASE tail = <<>> /\ m = 0
  BY <1>2, <1>3 DEF Added
<1>4. CASE tail = <<entry>> /\ m = EntryCredit(entry, account)
  <2>1. tail # <<>>
    BY <1>4
  <2> QED
    BY <1>2, <1>4, <2>1 DEF Added
<1> QED
  BY <1>3, <1>4

\* A fee that can be stored is its net amount and its VAT, however it was split.
LEMMA FeeBalances ==
  ASSUME NEW fee, NEW sale, NEW rules,
         LET split == SplitFee(fee, sale, rules)
         IN {split.gross, split.net, split.vat} \subseteq Nat
  PROVE  LET split == SplitFee(fee, sale, rules) IN split.net + split.vat = split.gross
BY DEF SplitFee, Split, ExtractVat, AddVat
-----------------------------------------------------------------------------
(* What postTicketSale adds to each account. *)

\* The figures and the charge that the entries of a sale are made of.
Chargeable(sale, calc) ==
  /\ calc.customerPayment \in Nat /\ calc.organizerProceeds \in Nat
  /\ calc.processorCharge \in Nat /\ calc.processorCharge = sale.processorCharge
  /\ \A fee \in {calc.booking, calc.commission} :
       fee.gross \in Nat /\ fee.net \in Nat /\ fee.vat \in Nat /\ fee.net + fee.vat = fee.gross

LEMMA ChargedSome ==
  ASSUME NEW sale, NEW calc, Chargeable(sale, calc), NEW bearer
  PROVE  ChargedTo(sale, bearer) \in Nat
BY DEF Chargeable, ChargedTo

LEMMA SaleEntryAdds ==
  ASSUME NEW sale, NEW calc, Chargeable(sale, calc), NEW other
  PROVE  /\ SaleEntry(sale, calc) \in Seq(Lines)
         /\ EntryCredit(SaleEntry(sale, calc), other)
              = -At("CASH_MPESA_CLEARING", other, calc.customerPayment)
                + At("ORGANIZER_PAYABLE", other, calc.organizerProceeds)
                + At("BOOKING_FEE_REVENUE", other, calc.booking.net)
                + At("TICKETFLOW_VAT_PAYABLE", other, calc.booking.vat)
                + At("PROCESSOR_PAYABLE_CLEARING", other, ChargedTo(sale, "CUSTOMER"))
<1> DEFINE two == <<Debit("CASH_MPESA_CLEARING", calc.customerPayment),
                    Credit("ORGANIZER_PAYABLE", calc.organizerProceeds)>>
           net == Where(calc.booking.net > 0,
                        <<Credit("BOOKING_FEE_REVENUE", calc.booking.net)>>)
           vat == Where(calc.booking.vat > 0,
                        <<Credit("TICKETFLOW_VAT_PAYABLE", calc.booking.vat)>>)
           charge == Where(ChargedTo(sale, "CUSTOMER") > 0,
                           <<Credit("PROCESSOR_PAYABLE_CLEARING", calc.processorCharge)>>)
           three == two \o net
           four == three \o vat
           five == four \o charge
<1>1. SaleEntry(sale, calc) = five
  BY DEF SaleEntry
<1>2. /\ calc.customerPayment \in Nat /\ calc.organizerProceeds \in Nat
      /\ calc.processorCharge \in Nat /\ calc.booking.net \in Nat /\ calc.booking.vat \in Nat
      /\ ChargedTo(sale, "CUSTOMER") \in Nat
      /\ ChargedTo(sale, "CUSTOMER") > 0 => ChargedTo(sale, "CUSTOMER") = calc.processorCharge
  BY DEF Chargeable, ChargedTo
<1>3. {"CASH_MPESA_CLEARING", "ORGANIZER_PAYABLE", "BOOKING_FEE_REVENUE",
       "TICKETFLOW_VAT_PAYABLE", "PROCESSOR_PAYABLE_CLEARING"} \subseteq Accounts
  BY DEF Accounts
<1>4. /\ two \in Seq(Lines)
      /\ EntryCredit(two, other) = -At("CASH_MPESA_CLEARING", other, calc.customerPayment)
                                   + At("ORGANIZER_PAYABLE", other, calc.organizerProceeds)
  <2> DEFINE first == Debit("CASH_MPESA_CLEARING", calc.customerPayment)
             second == Credit("ORGANIZER_PAYABLE", calc.organizerProceeds)
  <2>1. /\ first \in Lines
        /\ LineCredit(first, other) = -At("CASH_MPESA_CLEARING", other, calc.customerPayment)
    BY <1>2, <1>3, LineIs
  <2>3. /\ second \in Lines
        /\ LineCredit(second, other) = At("ORGANIZER_PAYABLE", other, calc.organizerProceeds)
    BY <1>2, <1>3, LineIs
  <2> HIDE DEF first, second
  <2>2. /\ <<first, second>> \in Seq(Lines)
        /\ EntryCredit(<<first, second>>, other)
             = LineCredit(first, other) + LineCredit(second, other)
    BY <2>1, <2>3, FirstLines
  <2> QED
    BY <2>1, <2>2, <2>3 DEF first, second
<1>5. /\ \/ net = <<>> /\ calc.booking.net = 0
         \/ /\ net = <<Credit("BOOKING_FEE_REVENUE", calc.booking.net)>>
            /\ calc.booking.net = calc.booking.net
      /\ \/ vat = <<>> /\ calc.booking.vat = 0
         \/ /\ vat = <<Credit("TICKETFLOW_VAT_PAYABLE", calc.booking.vat)>>
            /\ calc.booking.vat = calc.booking.vat
      /\ \/ charge = <<>> /\ ChargedTo(sale, "CUSTOMER") = 0
         \/ /\ charge = <<Credit("PROCESSOR_PAYABLE_CLEARING", calc.processorCharge)>>
            /\ ChargedTo(sale, "CUSTOMER") = calc.processorCharge
  BY <1>2 DEF Where
<1>6. three = two \o net
  OBVIOUS
<1>7. four = three \o vat
  OBVIOUS
<1>8. five = four \o charge
  OBVIOUS
<1> HIDE DEF two, net, vat, charge, three, four, five
<1>9. /\ three \in Seq(Lines) /\ EntryCredit(two, other) \in Int
      /\ EntryCredit(three, other)
           = EntryCredit(two, other) + At("BOOKING_FEE_REVENUE", other, calc.booking.net)
  <2>1. /\ two \in Seq(Lines) /\ "BOOKING_FEE_REVENUE" \in Accounts /\ calc.booking.net \in Nat
        /\ \/ net = <<>> /\ calc.booking.net = 0
           \/ /\ net = <<Credit("BOOKING_FEE_REVENUE", calc.booking.net)>>
              /\ calc.booking.net = calc.booking.net
    BY <1>2, <1>3, <1>4, <1>5
  <2> QED
    BY <1>6, <2>1, CreditNext
<1>10. /\ four \in Seq(Lines)
       /\ EntryCredit(four, other)
            = EntryCredit(three, other)
              + At("TICKETFLOW_VAT_PAYABLE", other, calc.booking.vat)
  <2>1. /\ three \in Seq(Lines) /\ "TICKETFLOW_VAT_PAYABLE" \in Accounts
        /\ calc.booking.vat \in Nat
        /\ \/ vat = <<>> /\ calc.booking.vat = 0
           \/ /\ vat = <<Credit("TICKETFLOW_VAT_PAYABLE", calc.booking.vat)>>
              /\ calc.booking.vat = calc.booking.vat
    BY <1>2, <1>3, <1>9, <1>5
  <2> QED
    BY <1>7, <2>1, CreditNext
<1>11. /\ five \in Seq(Lines)
       /\ EntryCredit(five, other)
            = EntryCredit(four, other)
              + At("PROCESSOR_PAYABLE_CLEARING", other, ChargedTo(sale, "CUSTOMER"))
  <2>1. /\ four \in Seq(Lines) /\ "PROCESSOR_PAYABLE_CLEARING" \in Accounts
        /\ calc.processorCharge \in Nat /\ ChargedTo(sale, "CUSTOMER") \in Nat
        /\ \/ charge = <<>> /\ ChargedTo(sale, "CUSTOMER") = 0
           \/ /\ charge = <<Credit("PROCESSOR_PAYABLE_CLEARING", calc.processorCharge)>>
              /\ ChargedTo(sale, "CUSTOMER") = calc.processorCharge
    BY <1>2, <1>3, <1>10, <1>5
  <2> QED
    BY <1>8, <2>1, CreditNext
<1> QED
  BY <1>1, <1>4, <1>9, <1>10, <1>11

LEMMA FirstLine ==
  ASSUME NEW line \in Lines, NEW account
  PROVE  LET entry == <<line>> IN
         /\ entry \in Seq(Lines)
         /\ EntryCredit(entry, account) = LineCredit(line, account)
<1> DEFINE entry == <<line>>
           F == [i \in DOMAIN entry |-> LineCredit(entry[i], account)]
<1>1. LineCredit(line, account) \in Int
  BY DEF Lines, LineCredit
<1>2. DOMAIN entry = {1} /\ entry[1] = line /\ entry \in Seq(Lines)
  OBVIOUS
<1>3. EntryCredit(entry, account) = Total(F)
  BY DEF EntryCredit
<1> HIDE DEF entry
<1>4. DOMAIN F = {1} /\ F[1] = LineCredit(line, account)
  BY <1>2
<1> HIDE DEF F
<1>5. Total(F) = F[1]
  BY <1>1, <1>4, TotalOfOne
<1> QED
  BY <1>2, <1>3, <1>4, <1>5 DEF entry

LEMMA CommissionEntryAdds ==
  ASSUME NEW sale, NEW calc, Chargeable(sale, calc), NEW other
  PROVE  /\ CommissionEntry(calc) \in Seq(Lines)
         /\ EntryCredit(CommissionEntry(calc), other)
              = -At("ORGANIZER_PAYABLE", other, calc.commission.gross)
                + At("COMMISSION_REVENUE", other, calc.commission.net)
                + At("TICKETFLOW_VAT_PAYABLE", other, calc.commission.vat)
<1> DEFINE one == <<Debit("ORGANIZER_PAYABLE", calc.commission.gross)>>
           net == Where(calc.commission.net > 0,
                        <<Credit("COMMISSION_REVENUE", calc.commission.net)>>)
           vat == Where(calc.commission.vat > 0,
                        <<Credit("TICKETFLOW_VAT_PAYABLE", calc.commission.vat)>>)
           two == one \o net
           three == two \o vat
<1>1. CommissionEntry(calc) = three
  BY DEF CommissionEntry
<1>2. calc.commission.gross \in Nat /\ calc.commission.net \in Nat /\ calc.commission.vat \in Nat
  BY DEF Chargeable
<1>3. {"ORGANIZER_PAYABLE", "COMMISSION_REVENUE", "TICKETFLOW_VAT_PAYABLE"} \subseteq Accounts
  BY DEF Accounts
<1>4. /\ one \in Seq(Lines)
      /\ EntryCredit(one, other) = -At("ORGANIZER_PAYABLE", other, calc.commission.gross)
  <2> DEFINE first == Debit("ORGANIZER_PAYABLE", calc.commission.gross)
  <2>1. /\ first \in Lines
        /\ LineCredit(first, other) = -At("ORGANIZER_PAYABLE", other, calc.commission.gross)
    BY <1>2, <1>3, LineIs
  <2> HIDE DEF first
  <2>2. /\ <<first>> \in Seq(Lines)
        /\ EntryCredit(<<first>>, other) = LineCredit(first, other)
    BY <2>1, FirstLine
  <2> QED
    BY <2>1, <2>2 DEF first
<1>5. /\ \/ net = <<>> /\ calc.commission.net = 0
         \/ /\ net = <<Credit("COMMISSION_REVENUE", calc.commission.net)>>
            /\ calc.commission.net = calc.commission.net
      /\ \/ vat = <<>> /\ calc.commission.vat = 0
         \/ /\ vat = <<Credit("TICKETFLOW_VAT_PAYABLE", calc.commission.vat)>>
            /\ calc.commission.vat = calc.commission.vat
  BY <1>2 DEF Where
<1>6. two = one \o net
  OBVIOUS
<1>7. three = two \o vat
  OBVIOUS
<1> HIDE DEF one, net, vat, two, three
<1>8. /\ two \in Seq(Lines) /\ EntryCredit(one, other) \in Int
      /\ EntryCredit(two, other)
           = EntryCredit(one, other) + At("COMMISSION_REVENUE", other, calc.commission.net)
  <2>1. /\ one \in Seq(Lines) /\ "COMMISSION_REVENUE" \in Accounts /\ calc.commission.net \in Nat
        /\ \/ net = <<>> /\ calc.commission.net = 0
           \/ /\ net = <<Credit("COMMISSION_REVENUE", calc.commission.net)>>
              /\ calc.commission.net = calc.commission.net
    BY <1>2, <1>3, <1>4, <1>5
  <2> QED
    BY <1>6, <2>1, CreditNext
<1>9. /\ three \in Seq(Lines)
      /\ EntryCredit(three, other)
           = EntryCredit(two, other)
             + At("TICKETFLOW_VAT_PAYABLE", other, calc.commission.vat)
  <2>1. /\ two \in Seq(Lines) /\ "TICKETFLOW_VAT_PAYABLE" \in Accounts
        /\ calc.commission.vat \in Nat
        /\ \/ vat = <<>> /\ calc.commission.vat = 0
           \/ /\ vat = <<Credit("TICKETFLOW_VAT_PAYABLE", calc.commission.vat)>>
              /\ calc.commission.vat = calc.commission.vat
    BY <1>2, <1>3, <1>8, <1>5
  <2> QED
    BY <1>7, <2>1, CreditNext
<1> QED
  BY <1>1, <1>4, <1>8, <1>9

\* The account that bears the processor's charge when TicketFlow or the organizer does.
Bearing(sale) ==
  IF sale.bearer = "TICKETFLOW" THEN "PAYMENT_PROCESSING_EXPENSE" ELSE "ORGANIZER_PAYABLE"

LEMMA ProcessorEntryAdds ==
  ASSUME NEW sale, NEW calc, Chargeable(sale, calc), NEW other
  PROVE  /\ ProcessorEntry(sale, calc) \in Seq(Lines)
         /\ EntryCredit(ProcessorEntry(sale, calc), other)
              = -At(Bearing(sale), other, calc.processorCharge)
                + At("PROCESSOR_PAYABLE_CLEARING", other, calc.processorCharge)
<1> DEFINE first == Debit(Bearing(sale), calc.processorCharge)
           second == Credit("PROCESSOR_PAYABLE_CLEARING", calc.processorCharge)
<1>1. ProcessorEntry(sale, calc) = <<first, second>>
  BY DEF ProcessorEntry, Bearing
<1>2. /\ calc.processorCharge \in Nat /\ Bearing(sale) \in Accounts
      /\ "PROCESSOR_PAYABLE_CLEARING" \in Accounts
  BY DEF Chargeable, Bearing, Accounts
<1>3. first \in Lines /\ LineCredit(first, other) = -At(Bearing(sale), other, calc.processorCharge)
  BY <1>2, LineIs
<1>4. /\ second \in Lines
      /\ LineCredit(second, other) = At("PROCESSOR_PAYABLE_CLEARING", other, calc.processorCharge)
  BY <1>2, LineIs
<1> HIDE DEF first, second
<1>5. /\ <<first, second>> \in Seq(Lines)
      /\ EntryCredit(<<first, second>>, other)
           = LineCredit(first, other) + LineCredit(second, other)
  BY <1>3, <1>4, FirstLines
<1> QED
  BY <1>1, <1>3, <1>4, <1>5

\* Account by account, whoever bears the processor's charge and whichever lines and
\* entries are left out.
LEMMA SaleAdds ==
  ASSUME NEW sale, NEW calc, Chargeable(sale, calc), sale.bearer \in Bearers,
         calc.customerPayment > 0, NEW other
  PROVE  Credited(SaleEntries(sale, calc), other)
           = -At("CASH_MPESA_CLEARING", other, calc.customerPayment)
             + At("ORGANIZER_PAYABLE", other, calc.organizerProceeds - calc.commission.gross
                                              - ChargedTo(sale, "ORGANIZER"))
             + At("BOOKING_FEE_REVENUE", other, calc.booking.net)
             + At("COMMISSION_REVENUE", other, calc.commission.net)
             + At("TICKETFLOW_VAT_PAYABLE", other, calc.booking.vat + calc.commission.vat)
             + At("PROCESSOR_PAYABLE_CLEARING", other, calc.processorCharge)
             - At("PAYMENT_PROCESSING_EXPENSE", other, ChargedTo(sale, "TICKETFLOW"))
<1> DEFINE first == SaleEntry(sale, calc)
           second == CommissionEntry(calc)
           third == ProcessorEntry(sale, calc)
           fee == Where(calc.commission.gross > 0, <<second>>)
           charge == Where(calc.processorCharge > 0 /\ sale.bearer # "CUSTOMER", <<third>>)
           one == <<first>>
           two == one \o fee
           three == two \o charge
           commission == -At("ORGANIZER_PAYABLE", other, calc.commission.gross)
                         + At("COMMISSION_REVENUE", other, calc.commission.net)
                         + At("TICKETFLOW_VAT_PAYABLE", other, calc.commission.vat)
           charged == IF sale.bearer = "CUSTOMER" THEN 0
                      ELSE -At(Bearing(sale), other, calc.processorCharge)
                           + At("PROCESSOR_PAYABLE_CLEARING", other, calc.processorCharge)
<1>1. SaleEntries(sale, calc) = three
  BY SMTT(60) DEF SaleEntries, Chargeable
<1>2. /\ calc.customerPayment \in Nat /\ calc.organizerProceeds \in Nat
      /\ calc.processorCharge \in Nat /\ calc.processorCharge = sale.processorCharge
      /\ calc.booking.net \in Nat /\ calc.booking.vat \in Nat
      /\ calc.commission.gross \in Nat /\ calc.commission.net \in Nat
      /\ calc.commission.vat \in Nat
      /\ calc.commission.net + calc.commission.vat = calc.commission.gross
  BY DEF Chargeable
<1>3. /\ first \in Seq(Lines)
      /\ EntryCredit(first, other)
              = -At("CASH_MPESA_CLEARING", other, calc.customerPayment)
                + At("ORGANIZER_PAYABLE", other, calc.organizerProceeds)
                + At("BOOKING_FEE_REVENUE", other, calc.booking.net)
                + At("TICKETFLOW_VAT_PAYABLE", other, calc.booking.vat)
                + At("PROCESSOR_PAYABLE_CLEARING", other, ChargedTo(sale, "CUSTOMER"))
  BY SaleEntryAdds
<1>4. second \in Seq(Lines) /\ EntryCredit(second, other) = commission
  BY CommissionEntryAdds
<1>5. /\ third \in Seq(Lines)
      /\ EntryCredit(third, other)
           = -At(Bearing(sale), other, calc.processorCharge)
             + At("PROCESSOR_PAYABLE_CLEARING", other, calc.processorCharge)
  BY ProcessorEntryAdds
<1>6. \/ fee = <<>> /\ commission = 0
      \/ fee = <<second>> /\ commission = EntryCredit(second, other)
  <2>1. CASE calc.commission.gross > 0
    BY <1>4, <2>1 DEF Where
  <2>2. CASE ~(calc.commission.gross > 0)
    <3>1. calc.commission.gross = 0 /\ calc.commission.net = 0 /\ calc.commission.vat = 0
      BY <1>2, <2>2
    <3> QED
      BY <2>2, <3>1 DEF Where, At
  <2> QED
    BY <2>1, <2>2
<1>7. \/ charge = <<>> /\ charged = 0
      \/ charge = <<third>> /\ charged = EntryCredit(third, other)
  <2>1. CASE calc.processorCharge > 0 /\ sale.bearer # "CUSTOMER"
    BY <1>5, <2>1 DEF Where
  <2>2. CASE ~(calc.processorCharge > 0 /\ sale.bearer # "CUSTOMER")
    <3>1. calc.processorCharge = 0 \/ sale.bearer = "CUSTOMER"
      BY <1>2, <2>2
    <3> QED
      BY <2>2, <3>1 DEF Where, At
  <2> QED
    BY <2>1, <2>2
<1>8. two = one \o fee
  OBVIOUS
<1>9. three = two \o charge
  OBVIOUS
<1>10. one \in Seq(Seq(Lines)) /\ Credited(one, other) = EntryCredit(first, other)
  BY <1>3, FirstEntry
<1>11. EntryCredit(first, other) \in Int /\ commission \in Int /\ charged \in Int
  BY <1>2, <1>3, CreditType, SMTT(20) DEF At
<1> HIDE DEF first, second, third, fee, charge, one, two, three, commission, charged
<1>12. two \in Seq(Seq(Lines)) /\ Credited(two, other) = Credited(one, other) + commission
  BY <1>4, <1>6, <1>8, <1>10, EntryAdds
<1>13. Credited(three, other) = Credited(two, other) + charged
  BY <1>5, <1>7, <1>9, <1>12, EntryAdds
<1>14. Credited(SaleEntries(sale, calc), other) = EntryCredit(first, other) + commission + charged
  BY <1>1, <1>10, <1>11, <1>12, <1>13
<1>15. /\ sale.bearer = "CUSTOMER" => /\ ChargedTo(sale, "CUSTOMER") = calc.processorCharge
                                      /\ ChargedTo(sale, "ORGANIZER") = 0
                                      /\ ChargedTo(sale, "TICKETFLOW") = 0
       /\ sale.bearer = "ORGANIZER" => /\ ChargedTo(sale, "CUSTOMER") = 0
                                       /\ ChargedTo(sale, "ORGANIZER") = calc.processorCharge
                                       /\ ChargedTo(sale, "TICKETFLOW") = 0
       /\ sale.bearer = "TICKETFLOW" => /\ ChargedTo(sale, "CUSTOMER") = 0
                                        /\ ChargedTo(sale, "ORGANIZER") = 0
                                        /\ ChargedTo(sale, "TICKETFLOW") = calc.processorCharge
  BY <1>2 DEF ChargedTo
<1>16. sale.bearer = "CUSTOMER" \/ sale.bearer = "ORGANIZER" \/ sale.bearer = "TICKETFLOW"
  BY DEF Bearers
<1>17. charged = At("PROCESSOR_PAYABLE_CLEARING", other, calc.processorCharge)
                 - At("PROCESSOR_PAYABLE_CLEARING", other, ChargedTo(sale, "CUSTOMER"))
                 - At("ORGANIZER_PAYABLE", other, ChargedTo(sale, "ORGANIZER"))
                 - At("PAYMENT_PROCESSING_EXPENSE", other, ChargedTo(sale, "TICKETFLOW"))
  <2>1. CASE sale.bearer = "CUSTOMER"
    BY <1>2, <1>15, <2>1 DEF At, charged
  <2>2. CASE sale.bearer = "ORGANIZER"
    BY <1>2, <1>15, <2>2 DEF At, Bearing, charged
  <2>3. CASE sale.bearer = "TICKETFLOW"
    BY <1>2, <1>15, <2>3 DEF At, Bearing, charged
  <2> QED
    BY <1>16, <2>1, <2>2, <2>3
<1>18. /\ ChargedTo(sale, "CUSTOMER") \in Nat /\ ChargedTo(sale, "ORGANIZER") \in Nat
       /\ ChargedTo(sale, "TICKETFLOW") \in Nat
  BY ChargedSome
<1> DEFINE cash == At("CASH_MPESA_CLEARING", other, calc.customerPayment)
           proceeds == At("ORGANIZER_PAYABLE", other, calc.organizerProceeds)
           fees == At("ORGANIZER_PAYABLE", other, calc.commission.gross)
           borne == At("ORGANIZER_PAYABLE", other, ChargedTo(sale, "ORGANIZER"))
           booked == At("BOOKING_FEE_REVENUE", other, calc.booking.net)
           earned == At("COMMISSION_REVENUE", other, calc.commission.net)
           vat1 == At("TICKETFLOW_VAT_PAYABLE", other, calc.booking.vat)
           vat2 == At("TICKETFLOW_VAT_PAYABLE", other, calc.commission.vat)
           owed == At("PROCESSOR_PAYABLE_CLEARING", other, calc.processorCharge)
           paid == At("PROCESSOR_PAYABLE_CLEARING", other, ChargedTo(sale, "CUSTOMER"))
           spent == At("PAYMENT_PROCESSING_EXPENSE", other, ChargedTo(sale, "TICKETFLOW"))
<1>19. /\ cash \in Int /\ proceeds \in Int /\ fees \in Int /\ borne \in Int
       /\ booked \in Int /\ earned \in Int
  BY <1>2, <1>18 DEF At
<1>20. vat1 \in Int /\ vat2 \in Int /\ owed \in Int /\ paid \in Int /\ spent \in Int
  BY <1>2, <1>18 DEF At
<1>21. At("ORGANIZER_PAYABLE", other, calc.organizerProceeds - calc.commission.gross
                                      - ChargedTo(sale, "ORGANIZER"))
         = proceeds - fees - borne
  BY <1>2, <1>18 DEF At
<1>22. At("TICKETFLOW_VAT_PAYABLE", other, calc.booking.vat + calc.commission.vat) = vat1 + vat2
  BY <1>2 DEF At
<1>23. EntryCredit(first, other) = -cash + proceeds + booked + vat1 + paid
  BY <1>3
<1>24. commission = -fees + earned + vat2
  BY DEF commission
<1>25. charged = owed - paid - borne - spent
  BY <1>17
<1> HIDE DEF cash, proceeds, fees, borne, booked, earned, vat1, vat2, owed, paid, spent
<1>26. EntryCredit(first, other) + commission + charged
         = -cash + (proceeds - fees - borne) + booked + earned + (vat1 + vat2) + owed - spent
  BY <1>19, <1>20, <1>23, <1>24, <1>25
<1> QED
  BY <1>14, <1>21, <1>22, <1>26
       DEF cash, proceeds, fees, borne, booked, earned, vat1, vat2, owed, paid, spent
-----------------------------------------------------------------------------
(* BooksAgree                                                               *)

\* What a sale adds to each of the sums that the books are compared with.
Amounts(sale, calc) ==
  [payment |-> calc.customerPayment, settlement |-> calc.settlement, revenue |-> calc.revenue,
   outputVat |-> calc.outputVat, charge |-> calc.processorCharge,
   expense |-> ChargedTo(sale, "TICKETFLOW")]
Kinds == {"payment", "settlement", "revenue", "outputVat", "charge", "expense"}
SummedFor(kind) ==
  Total([o \in PostedSales |-> Amounts(calculation[o].sale, calculation[o].figures)[kind]])
Comparable == PostedRefunds = {} /\ (\A o \in PostedSales : Agent(o))

\* The balances are numbers, and they are the sums, until something is refunded.
BooksAre ==
  /\ \A account \in Accounts : balance[account] \in Int
  /\ balance["CASH_MPESA_CLEARING"] = -SummedFor("payment")
  /\ balance["ORGANIZER_PAYABLE"] = SummedFor("settlement")
  /\ balance["BOOKING_FEE_REVENUE"] + balance["COMMISSION_REVENUE"] = SummedFor("revenue")
  /\ balance["TICKETFLOW_VAT_PAYABLE"] = SummedFor("outputVat")
  /\ balance["PROCESSOR_PAYABLE_CLEARING"] = SummedFor("charge")
  /\ balance["PAYMENT_PROCESSING_EXPENSE"] = -SummedFor("expense")
  /\ \A kind \in Kinds : SummedFor(kind) \in Int

BooksInv ==
  /\ IsFiniteSet(Calculated)
  /\ \A o \in Calculated : calculation[o].sale \in Sales /\ calculation[o].rules \in VatRules
  /\ Comparable => BooksAre

LEMMA BooksAgreeIf == ASSUME Comparable => BooksAre PROVE BooksAgree
<1> SUFFICES ASSUME PostedRefunds = {}, \A o \in PostedSales : Agent(o) PROVE BooksAgree
  BY DEF BooksAgree
<1>1. BooksAre
  BY DEF Comparable
<1>2. /\ Summed(LAMBDA sale, calc : calc.customerPayment) = SummedFor("payment")
      /\ Summed(LAMBDA sale, calc : calc.settlement) = SummedFor("settlement")
      /\ Summed(LAMBDA sale, calc : calc.revenue) = SummedFor("revenue")
      /\ Summed(LAMBDA sale, calc : calc.outputVat) = SummedFor("outputVat")
      /\ Summed(LAMBDA sale, calc : calc.processorCharge) = SummedFor("charge")
      /\ Summed(LAMBDA sale, calc : ChargedTo(sale, "TICKETFLOW")) = SummedFor("expense")
  BY DEF Summed, SummedFor, Amounts
<1> QED
  BY <1>1, <1>2 DEF BooksAre, BooksAgree

\* What a stored sale is charged can be posted.
LEMMA StoredIsChargeable ==
  ASSUME NEW sale \in Sales, NEW rules, SaleStorable(TicketSaleTax(sale, rules))
  PROVE  Chargeable(sale, TicketSaleTax(sale, rules)) /\ sale.bearer \in Bearers
<1> DEFINE calc == TicketSaleTax(sale, rules)
<1>1. /\ calc.booking = SplitFee(sale.bookingFee, sale, rules)
      /\ calc.commission = SplitFee(sale.commission, sale, rules)
      /\ calc.processorCharge = sale.processorCharge
  BY DEF TicketSaleTax
<1> HIDE DEF calc
<1>2. /\ calc.customerPayment \in Nat /\ calc.organizerProceeds \in Nat
      /\ calc.processorCharge \in Nat
      /\ {calc.booking.gross, calc.booking.net, calc.booking.vat} \subseteq Nat
      /\ {calc.commission.gross, calc.commission.net, calc.commission.vat} \subseteq Nat
  BY DEF SaleStorable, calc
<1>3. calc.booking.net + calc.booking.vat = calc.booking.gross
  BY <1>1, <1>2, FeeBalances
<1>4. calc.commission.net + calc.commission.vat = calc.commission.gross
  BY <1>1, <1>2, FeeBalances
<1>5. Chargeable(sale, calc)
  BY <1>1, <1>2, <1>3, <1>4 DEF Chargeable
<1>6. sale.bearer \in Bearers
  BY DEF Sales
<1> QED
  BY <1>5, <1>6 DEF calc

\* The figures of an agent sale, in the terms of its entries.
LEMMA AgentFigures ==
  ASSUME NEW sale, NEW rules, sale.agencyModel = "DISCLOSED_AGENT"
  PROVE  LET calc == TicketSaleTax(sale, rules) IN
         /\ calc.settlement = calc.organizerProceeds - calc.commission.gross
                              - ChargedTo(sale, "ORGANIZER")
         /\ calc.revenue = calc.booking.net + calc.commission.net
         /\ calc.outputVat = calc.booking.vat + calc.commission.vat
BY DEF TicketSaleTax

LEMMA AmountsAre ==
  ASSUME NEW sale \in Sales, NEW rules, sale.agencyModel = "DISCLOSED_AGENT",
         SaleStorable(TicketSaleTax(sale, rules)), NEW kind \in Kinds
  PROVE  Amounts(sale, TicketSaleTax(sale, rules))[kind] \in Int
<1> DEFINE calc == TicketSaleTax(sale, rules)
<1>1. Chargeable(sale, calc)
  BY StoredIsChargeable
<1>2. calc.settlement = calc.organizerProceeds - calc.commission.gross
                        - ChargedTo(sale, "ORGANIZER")
  BY AgentFigures
<1>3. calc.revenue \in Nat /\ calc.outputVat \in Nat
  BY DEF SaleStorable
<1> HIDE DEF calc
<1>4. ChargedTo(sale, "ORGANIZER") \in Nat /\ ChargedTo(sale, "TICKETFLOW") \in Nat
  BY <1>1, ChargedSome
<1>5. /\ calc.customerPayment \in Int /\ calc.settlement \in Int /\ calc.processorCharge \in Int
      /\ calc.revenue \in Int /\ calc.outputVat \in Int
  <2>1. /\ calc.customerPayment \in Nat /\ calc.organizerProceeds \in Nat
        /\ calc.processorCharge \in Nat /\ calc.commission.gross \in Nat
    BY <1>1 DEF Chargeable
  <2> QED
    BY <1>2, <1>3, <1>4, <2>1
<1>6. Amounts(sale, calc)[kind] \in Int
  BY <1>4, <1>5 DEF Amounts, Kinds
<1> QED
  BY <1>6 DEF calc

\* A sale that is stored without being posted, and one that is.
LEMMA SaleStoreAgrees ==
  ASSUME RowsInv, RowsInv', BooksInv, NEW h \in Handlers, SaleStore(h)
  PROVE  BooksInv'
<1> PICK o : o = id[h]
  OBVIOUS
<1>1. PICK sale \in SaleInputs, rules \in RuleVersions :
        LET calc == TicketSaleTax(sale, rules)
            entries == Where(sale.posted, SaleEntries(sale, calc))
        IN /\ SaleStorable(calc)
           /\ calculation' = With(calculation, o,
                                  [sale |-> sale, rules |-> rules, figures |-> calc])
           /\ Post(entries)
  BY DEF SaleStore
<1> DEFINE calc == TicketSaleTax(sale, rules)
           entries == Where(sale.posted, SaleEntries(sale, calc))
           row == [sale |-> sale, rules |-> rules, figures |-> calc]
<1>2. o \notin Calculated /\ refundCalculation' = refundCalculation
  BY DEF SaleStore, SaleUnique
<1>3. sale \in Sales /\ rules \in VatRules
  BY TaxBooksAssumption
<1>4. /\ SaleStorable(calc) /\ calculation' = With(calculation, o, row)
      /\ balance' = [a \in Accounts |-> balance[a] + Credited(entries, a)]
  BY <1>1 DEF Post
<1>5. row.sale = sale /\ row.rules = rules /\ row.figures = calc
  OBVIOUS
<1> HIDE DEF row
<1>6. /\ Calculated' = Calculated \union {o} /\ calculation'[o] = row
      /\ \A p \in Calculated : calculation'[p] = calculation[p]
  BY <1>2, <1>4 DEF With, Calculated
<1>7. PostedRefunds' = PostedRefunds
  BY <1>2 DEF PostedRefunds, Refunded
<1>8. IsFiniteSet(Calculated') /\ IsFiniteSet(PostedSales)
  <2>1. IsFiniteSet(Calculated) /\ PostedSales \subseteq Calculated
    BY DEF BooksInv, PostedSales
  <2> QED
    BY <1>6, <2>1, FS_AddElement, FS_Subset
<1>9. \A p \in Calculated' : calculation'[p].sale \in Sales /\ calculation'[p].rules \in VatRules
  BY <1>3, <1>5, <1>6 DEF BooksInv
<1>10. Chargeable(sale, calc) /\ sale.bearer \in Bearers
  BY <1>3, <1>4, StoredIsChargeable
<1> HIDE DEF calc
<1>11. sale.posted \in BOOLEAN /\ calc.customerPayment \in Nat
  BY <1>3, <1>10 DEF Sales, Chargeable
<1>12. ASSUME Comparable' PROVE BooksAre'
  <2>1. CASE ~(sale.posted /\ calc.customerPayment > 0)
    <3>1. PostedSales' = PostedSales
      BY <1>2, <1>5, <1>6, <2>1 DEF PostedSales
    <3>2. \A p \in PostedSales : calculation'[p] = calculation[p]
      BY <1>6 DEF PostedSales
    <3>3. BooksAre
      BY <1>7, <1>12, <3>1, <3>2 DEF BooksInv, Comparable, Agent
    <3>4. \A kind : SummedFor(kind)' = SummedFor(kind)
      BY <3>1, <3>2 DEF SummedFor
    <3>5. entries = <<>>
      BY <1>11, <2>1 DEF SaleEntries, Where
    <3>6. \A a \in Accounts : balance'[a] = balance[a]
      <4> TAKE a \in Accounts
      <4>1. Credited(entries, a) = 0
        BY <3>5, FirstEntry
      <4>2. balance[a] \in Int
        BY <3>3 DEF BooksAre
      <4> QED
        BY <1>4, <4>1, <4>2
    <3> QED
      BY <3>3, <3>4, <3>6 DEF BooksAre, Accounts
  <2>2. CASE sale.posted /\ calc.customerPayment > 0
    <3>1. PostedSales' = PostedSales \union {o} /\ o \notin PostedSales
      BY <1>2, <1>5, <1>6, <2>2 DEF PostedSales
    <3>2. \A p \in PostedSales : calculation'[p] = calculation[p]
      BY <1>6 DEF PostedSales
    <3>3. (\A p \in PostedSales' : Agent(p)') /\ PostedRefunds' = {}
      BY <1>12 DEF Comparable
    <3>4. BooksAre
      BY <1>7, <3>1, <3>2, <3>3 DEF BooksInv, Comparable, Agent
    <3>5. sale.agencyModel = "DISCLOSED_AGENT"
      BY <1>5, <1>6, <3>1, <3>3 DEF Agent
    <3>6. \A kind \in Kinds : /\ SummedFor(kind)' = SummedFor(kind) + Amounts(sale, calc)[kind]
                              /\ Amounts(sale, calc)[kind] \in Int
      <4> TAKE kind \in Kinds
      <4> DEFINE F == [p \in PostedSales |->
                         Amounts(calculation[p].sale, calculation[p].figures)[kind]]
                 G == [p \in PostedSales' |->
                         Amounts(calculation'[p].sale, calculation'[p].figures)[kind]]
      <4>1. SummedFor(kind) = Total(F) /\ SummedFor(kind)' = Total(G)
        BY DEF SummedFor
      <4>2. \A p \in PostedSales' : G[p] \in Int
        <5> SUFFICES ASSUME NEW p \in PostedSales' PROVE G[p] \in Int
          OBVIOUS
        <5>1. p \in Calculated'
          BY DEF PostedSales
        <5>2. /\ calculation'[p].sale \in Sales
              /\ calculation'[p].figures
                   = TicketSaleTax(calculation'[p].sale, calculation'[p].rules)
              /\ SaleStorable(calculation'[p].figures)
          BY <1>9, <5>1 DEF RowsInv
        <5>3. calculation'[p].sale.agencyModel = "DISCLOSED_AGENT"
          BY <3>3 DEF Agent
        <5>4. Amounts(calculation'[p].sale, calculation'[p].figures)[kind] \in Int
          BY <5>2, <5>3, AmountsAre
        <5> QED
          BY <5>4
      <4>3. \A p \in PostedSales : F[p] = G[p]
        BY <3>1, <3>2
      <4>4. G[o] = Amounts(sale, calc)[kind]
        BY <1>5, <1>6, <3>1
      <4>5. DOMAIN F = PostedSales /\ DOMAIN G = PostedSales'
        OBVIOUS
      <4> HIDE DEF F, G
      <4>6. /\ IsFiniteSet(DOMAIN F) /\ o \notin DOMAIN F /\ DOMAIN G = DOMAIN F \union {o}
            /\ \A p \in DOMAIN G : G[p] \in Int
            /\ \A p \in DOMAIN F : F[p] = G[p]
        BY <1>8, <3>1, <4>2, <4>3, <4>5
      <4>7. Total(G) = Total(F) + G[o]
        BY <4>6, TotalNext
      <4>8. G[o] \in Int
        BY <4>6
      <4> QED
        BY <4>1, <4>4, <4>7, <4>8
    <3>7. entries = SaleEntries(sale, calc)
      BY <2>2 DEF Where
    <3>8. /\ calc.settlement = calc.organizerProceeds - calc.commission.gross
                               - ChargedTo(sale, "ORGANIZER")
          /\ calc.revenue = calc.booking.net + calc.commission.net
          /\ calc.outputVat = calc.booking.vat + calc.commission.vat
      BY <3>5, AgentFigures DEF calc
    <3>9. \A a \in Accounts :
            Credited(SaleEntries(sale, calc), a)
              = -At("CASH_MPESA_CLEARING", a, calc.customerPayment)
                + At("ORGANIZER_PAYABLE", a, calc.organizerProceeds - calc.commission.gross
                                             - ChargedTo(sale, "ORGANIZER"))
                + At("BOOKING_FEE_REVENUE", a, calc.booking.net)
                + At("COMMISSION_REVENUE", a, calc.commission.net)
                + At("TICKETFLOW_VAT_PAYABLE", a, calc.booking.vat + calc.commission.vat)
                + At("PROCESSOR_PAYABLE_CLEARING", a, calc.processorCharge)
                - At("PAYMENT_PROCESSING_EXPENSE", a, ChargedTo(sale, "TICKETFLOW"))
      BY <1>10, <2>2, SaleAdds
    <3>10. /\ calc.customerPayment \in Nat /\ calc.settlement \in Int
           /\ calc.booking.net \in Nat /\ calc.commission.net \in Nat
           /\ calc.outputVat \in Int /\ calc.processorCharge \in Nat
           /\ ChargedTo(sale, "TICKETFLOW") \in Nat
      <4>1. Amounts(sale, calc)["settlement"] \in Int /\ Amounts(sale, calc)["outputVat"] \in Int
        BY <3>6 DEF Kinds
      <4> QED
        BY <1>10, <4>1, ChargedSome DEF Chargeable, Amounts
    <3>11. /\ Credited(entries, "CASH_MPESA_CLEARING") = -calc.customerPayment
           /\ Credited(entries, "ORGANIZER_PAYABLE") = calc.settlement
           /\ Credited(entries, "BOOKING_FEE_REVENUE") = calc.booking.net
           /\ Credited(entries, "COMMISSION_REVENUE") = calc.commission.net
           /\ Credited(entries, "TICKETFLOW_VAT_PAYABLE") = calc.outputVat
           /\ Credited(entries, "PROCESSOR_PAYABLE_CLEARING") = calc.processorCharge
           /\ Credited(entries, "PAYMENT_PROCESSING_EXPENSE") = -ChargedTo(sale, "TICKETFLOW")
           /\ \A a \in Accounts : Credited(entries, a) \in Int
      BY <3>7, <3>8, <3>9, <3>10 DEF At, Accounts
    <3> HIDE DEF entries
    <3>12. \A a \in Accounts : balance[a] \in Int /\ balance'[a] = balance[a] + Credited(entries, a)
      BY <1>4, <3>4 DEF BooksAre
    <3>13. /\ SummedFor("payment")' = SummedFor("payment") + calc.customerPayment
           /\ SummedFor("settlement")' = SummedFor("settlement") + calc.settlement
           /\ SummedFor("revenue")'
                = SummedFor("revenue") + (calc.booking.net + calc.commission.net)
           /\ SummedFor("outputVat")' = SummedFor("outputVat") + calc.outputVat
           /\ SummedFor("charge")' = SummedFor("charge") + calc.processorCharge
           /\ SummedFor("expense")' = SummedFor("expense") + ChargedTo(sale, "TICKETFLOW")
      BY <3>6, <3>8 DEF Kinds, Amounts
    <3>14. \A kind \in Kinds : SummedFor(kind) \in Int /\ SummedFor(kind)' \in Int
      BY <3>4, <3>6 DEF BooksAre
    <3>15. \A a \in Accounts : balance'[a] \in Int
      BY <3>11, <3>12
    <3>16. /\ balance'["CASH_MPESA_CLEARING"] = -SummedFor("payment")'
           /\ balance'["ORGANIZER_PAYABLE"] = SummedFor("settlement")'
           /\ balance'["TICKETFLOW_VAT_PAYABLE"] = SummedFor("outputVat")'
      BY <3>4, <3>10, <3>11, <3>12, <3>13, <3>14 DEF BooksAre, Accounts, Kinds
    <3>17. /\ balance'["PROCESSOR_PAYABLE_CLEARING"] = SummedFor("charge")'
           /\ balance'["PAYMENT_PROCESSING_EXPENSE"] = -SummedFor("expense")'
      BY <3>4, <3>10, <3>11, <3>12, <3>13, <3>14 DEF BooksAre, Accounts, Kinds
    <3>18. balance'["BOOKING_FEE_REVENUE"] + balance'["COMMISSION_REVENUE"]
             = SummedFor("revenue")'
      BY <3>4, <3>10, <3>11, <3>12, <3>13, <3>14 DEF BooksAre, Accounts, Kinds
    <3> QED
      BY <3>14, <3>15, <3>16, <3>17, <3>18 DEF BooksAre
  <2> QED
    BY <2>1, <2>2
<1> QED
  BY <1>8, <1>9, <1>12 DEF BooksInv

\* A refund that is posted makes the books those of refunds, for good; one that is
\* not leaves them as they are.
LEMMA RefundStoreAgrees ==
  ASSUME BooksInv, NEW h \in Handlers, RefundStore(h)
  PROVE  BooksInv'
<1>0. PICK o \in Calculated : \E refund \in RefundRequests(calculation[o].sale) :
        /\ refundCalculation' = With(refundCalculation, id[h],
             [order |-> o, refund |-> refund, figures |-> RefundOf(o, refund)])
        /\ Post(PostedFor(refund, RefundOf(o, refund)))
  BY DEF RefundStore
<1>1. PICK refund \in RefundRequests(calculation[o].sale) :
        /\ refundCalculation' = With(refundCalculation, id[h],
             [order |-> o, refund |-> refund, figures |-> RefundOf(o, refund)])
        /\ Post(PostedFor(refund, RefundOf(o, refund)))
  BY <1>0
<1> DEFINE entries == PostedFor(refund, RefundOf(o, refund))
<1>2. /\ id[h] \notin Refunded /\ calculation' = calculation
      /\ balance' = [a \in Accounts |-> balance[a] + Credited(entries, a)]
  BY <1>1 DEF RefundStore, RefundUnique, Post
<1>3. /\ Refunded' = Refunded \union {id[h]}
      /\ refundCalculation'[id[h]].refund = refund
      /\ \A r \in Refunded : refundCalculation'[r] = refundCalculation[r]
  BY <1>1, <1>2 DEF With, Refunded
<1>4. /\ Calculated' = Calculated /\ PostedSales' = PostedSales
      /\ \A p : Agent(p)' <=> Agent(p)
      /\ \A kind : SummedFor(kind)' = SummedFor(kind)
  BY <1>2 DEF Calculated, PostedSales, Agent, SummedFor
<1>5. refund.posted \in BOOLEAN
  BY TaxBooksAssumption DEF RefundRequests, Policies
<1>6. ASSUME Comparable' PROVE BooksAre'
  <2>1. ~refund.posted
    BY <1>3, <1>6 DEF Comparable, PostedRefunds
  <2>2. PostedRefunds = {}
    BY <1>3, <1>6 DEF Comparable, PostedRefunds
  <2>3. BooksAre
    BY <1>4, <1>6, <2>2 DEF BooksInv, Comparable
  <2>4. entries = <<>>
    BY <1>5, <2>1 DEF PostedFor, Where
  <2>5. \A a \in Accounts : balance'[a] = balance[a]
    <3> TAKE a \in Accounts
    <3>1. Credited(entries, a) = 0
      BY <2>4, FirstEntry
    <3>2. balance[a] \in Int
      BY <2>3 DEF BooksAre
    <3> QED
      BY <1>2, <3>1, <3>2
  <2> QED
    BY <1>4, <2>3, <2>5 DEF BooksAre, Accounts
<1> QED
  BY <1>2, <1>4, <1>6 DEF BooksInv

LEMMA BooksStay == Spec => []BooksInv
<1>1. Init => BooksInv
  <2> SUFFICES ASSUME Init PROVE BooksInv
    OBVIOUS
  <2>1. Calculated = {} /\ PostedSales = {} /\ PostedRefunds = {}
    BY DEF Init, Calculated, PostedSales, PostedRefunds, Refunded
  <2>2. \A kind \in Kinds : SummedFor(kind) = 0
    <3> TAKE kind \in Kinds
    <3> DEFINE F == [o \in PostedSales |->
                       Amounts(calculation[o].sale, calculation[o].figures)[kind]]
    <3>1. DOMAIN F = {}
      BY <2>1
    <3> QED
      BY <3>1, TotalOfNone DEF SummedFor
  <2>3. \A a \in Accounts : balance[a] = 0
    BY DEF Init
  <2>4. BooksAre
    BY <2>2, <2>3 DEF BooksAre, Kinds, Accounts
  <2> QED
    BY <2>1, <2>4, FS_EmptySet DEF BooksInv
<1>2. ASSUME BooksInv, RowsInv, RowsInv', [Next]_vars PROVE BooksInv'
  <2>1. CASE UNCHANGED <<calculation, refundCalculation, balance>>
    BY <1>2, <2>1 DEF BooksInv, Comparable, BooksAre, SummedFor, Calculated, PostedSales,
                      PostedRefunds, Refunded, Agent
  <2>2. ASSUME NEW h \in Handlers, SaleStore(h) PROVE BooksInv'
    BY <1>2, <2>2, SaleStoreAgrees
  <2>3. ASSUME NEW h \in Handlers, RefundStore(h) PROVE BooksInv'
    BY <1>2, <2>3, RefundStoreAgrees
  <2> QED
    BY <1>2, <2>1, <2>2, <2>3, SMTT(30) DEF Next, vars, SaleFind, RefundFind, RollBack
<1> QED
  BY <1>1, <1>2, Rows, PTL DEF Spec

\* Nothing is posted twice and every account carries what the calculations say.
THEOREM BooksBalance == Spec => []BooksAgree
<1>1. BooksInv => BooksAgree
  BY BooksAgreeIf DEF BooksInv
<1> QED
  BY <1>1, BooksStay, PTL
-----------------------------------------------------------------------------
(* WholeRefundPosts                                                         *)

LEMMA TotalOfThree ==
  ASSUME NEW F, DOMAIN F = {1, 2, 3}, F[1] \in Int, F[2] \in Int, F[3] \in Int
  PROVE  Total(F) = F[1] + F[2] + F[3]
<1> DEFINE G == [i \in {1, 2} |-> F[i]]
<1>1. DOMAIN G = {1, 2} /\ G[1] = F[1] /\ G[2] = F[2]
  OBVIOUS
<1>2. /\ IsFiniteSet(DOMAIN G) /\ 3 \notin DOMAIN G /\ DOMAIN F = DOMAIN G \union {3}
      /\ \A i \in DOMAIN F : F[i] \in Int
      /\ \A i \in DOMAIN G : G[i] = F[i]
  <2>1. IsFiniteSet({1} \union {2})
    BY FS_Singleton, FS_AddElement
  <2>2. {1, 2} = {1} \union {2}
    OBVIOUS
  <2> QED
    BY <2>1, <2>2
<1> HIDE DEF G
<1>3. Total(G) = F[1] + F[2]
  BY <1>1, TotalOfTwo
<1>4. Total(F) = Total(G) + F[3]
  BY <1>2, TotalNext
<1> QED
  BY <1>3, <1>4

LEMMA Balanced ==
  ASSUME NEW entry \in Seq(Lines), Imbalance(entry) = 0
  PROVE  Accepted(entry)
<1>1. Total([i \in DOMAIN entry |-> entry[i].debit - entry[i].credit]) = 0
  BY DEF Imbalance
<1>2. \A i \in DOMAIN entry : entry[i] \in Lines
  OBVIOUS
<1>3. \A i \in DOMAIN entry : entry[i].debit >= 0 /\ entry[i].credit >= 0
  BY <1>2 DEF Lines
<1> QED
  BY <1>1, <1>3 DEF Accepted

\* How postRefund puts its entries together: none, either or both.
LEMMA BothAccepted ==
  ASSUME NEW first \in Seq(Lines), NEW second \in Seq(Lines), Accepted(first), Accepted(second),
         NEW one, one = <<>> \/ one = <<first>>,
         NEW tail, tail = <<>> \/ tail = <<second>>
  PROVE  AllAccepted(one \o tail)
<1>1. one \in Seq(Seq(Lines)) /\ AllAccepted(one)
  <2>1. CASE one = <<>>
    BY <2>1 DEF AllAccepted
  <2>2. CASE one = <<first>>
    <3>1. DOMAIN one = {1} /\ one[1] = first /\ one \in Seq(Seq(Lines))
      BY <2>2
    <3> QED
      BY <3>1 DEF AllAccepted
  <2> QED
    BY <2>1, <2>2
<1>2. CASE tail = <<>>
  <2>1. one \o tail = one
    BY <1>1, <1>2, ConcatEmptySeq
  <2> QED
    BY <1>1, <2>1
<1>3. CASE tail = <<second>>
  <2> DEFINE longer == one \o tail
             T == Seq(Lines)
  <2>1. one \in Seq(T) /\ second \in T /\ longer = one \o <<second>>
    BY <1>1, <1>3
  <2> HIDE DEF longer, T
  <2>2. /\ DOMAIN longer = DOMAIN one \union {Len(one) + 1}
        /\ longer[Len(one) + 1] = second
        /\ \A i \in DOMAIN one : longer[i] = one[i]
    BY <2>1, Appended
  <2>3. AllAccepted(longer)
    BY <1>1, <2>2 DEF AllAccepted
  <2> QED
    BY <2>3 DEF longer
<1> QED
  BY <1>2, <1>3

\* The figures of a refund that can be posted: what the customer is owed is the face
\* value and the booking fee, with its VAT.
Postable(calc) ==
  /\ calc.faceValue \in Nat /\ calc.bookingFee \in Nat
  /\ calc.booking.net \in Nat /\ calc.booking.vat \in Nat
  /\ calc.commission.net \in Nat /\ calc.commission.vat \in Nat
  /\ calc.booking.net + calc.booking.vat = calc.bookingFee

LEMMA RefundEntryAccepted ==
  ASSUME NEW calc, Postable(calc)
  PROVE  RefundEntry(calc) \in Seq(Lines) /\ Accepted(RefundEntry(calc))
<1> DEFINE owed == calc.faceValue + calc.bookingFee
           residual == owed - calc.faceValue - calc.booking.net - calc.booking.vat
           two == <<Debit("CUSTOMER_REFUND_PAYABLE", owed),
                    Credit("ORGANIZER_PAYABLE", calc.faceValue)>>
           net == Where(calc.booking.net > 0,
                        <<Credit("BOOKING_FEE_REVENUE", calc.booking.net)>>)
           vat == Where(calc.booking.vat > 0,
                        <<Credit("TICKETFLOW_VAT_PAYABLE", calc.booking.vat)>>)
           rest == Where(residual # 0, <<Credit("CLIENT_MONEY_ORGANIZER_FUNDS", residual)>>)
           three == two \o net
           four == three \o vat
           five == four \o rest
<1>1. RefundEntry(calc) = five
  BY DEF RefundEntry
<1>2. /\ calc.faceValue \in Nat /\ owed \in Nat
      /\ calc.booking.net \in Nat /\ calc.booking.vat \in Nat /\ residual = 0
      /\ owed = calc.faceValue + calc.booking.net + calc.booking.vat
  BY DEF Postable
<1>3. {"CUSTOMER_REFUND_PAYABLE", "ORGANIZER_PAYABLE", "BOOKING_FEE_REVENUE",
       "TICKETFLOW_VAT_PAYABLE"} \subseteq Accounts
  BY DEF Accounts
<1> HIDE DEF owed, residual
<1>4. two \in Seq(Lines) /\ Imbalance(two) = owed - calc.faceValue
  <2> DEFINE first == Debit("CUSTOMER_REFUND_PAYABLE", owed)
             second == Credit("ORGANIZER_PAYABLE", calc.faceValue)
  <2>1. first \in Lines /\ first.debit - first.credit = owed
    BY <1>2, <1>3, LineIs
  <2>2. second \in Lines /\ second.debit - second.credit = -calc.faceValue
    BY <1>2, <1>3, LineIs
  <2> HIDE DEF first, second
  <2>3. /\ <<first, second>> \in Seq(Lines)
        /\ Imbalance(<<first, second>>)
             = (first.debit - first.credit) + (second.debit - second.credit)
    BY <2>1, <2>2, FirstLines
  <2> QED
    BY <1>2, <2>1, <2>2, <2>3 DEF first, second
<1>5. /\ \/ net = <<>> /\ calc.booking.net = 0
         \/ /\ net = <<Credit("BOOKING_FEE_REVENUE", calc.booking.net)>>
            /\ calc.booking.net = calc.booking.net
      /\ \/ vat = <<>> /\ calc.booking.vat = 0
         \/ /\ vat = <<Credit("TICKETFLOW_VAT_PAYABLE", calc.booking.vat)>>
            /\ calc.booking.vat = calc.booking.vat
      /\ rest = <<>>
  BY <1>2 DEF Where
<1>6. three = two \o net
  OBVIOUS
<1>7. four = three \o vat
  OBVIOUS
<1>8. five = four \o rest
  OBVIOUS
<1> HIDE DEF two, net, vat, rest, three, four, five
<1>9. three \in Seq(Lines) /\ Imbalance(three) = Imbalance(two) - calc.booking.net
  <2>1. /\ two \in Seq(Lines) /\ "BOOKING_FEE_REVENUE" \in Accounts /\ calc.booking.net \in Nat
        /\ \/ net = <<>> /\ calc.booking.net = 0
           \/ /\ net = <<Credit("BOOKING_FEE_REVENUE", calc.booking.net)>>
              /\ calc.booking.net = calc.booking.net
    BY <1>2, <1>3, <1>4, <1>5
  <2> QED
    BY <1>6, <2>1, CreditNext, ZenonT(40)
<1>10. four \in Seq(Lines) /\ Imbalance(four) = Imbalance(three) - calc.booking.vat
  <2>1. /\ three \in Seq(Lines) /\ "TICKETFLOW_VAT_PAYABLE" \in Accounts
        /\ calc.booking.vat \in Nat
        /\ \/ vat = <<>> /\ calc.booking.vat = 0
           \/ /\ vat = <<Credit("TICKETFLOW_VAT_PAYABLE", calc.booking.vat)>>
              /\ calc.booking.vat = calc.booking.vat
    BY <1>2, <1>3, <1>5, <1>9
  <2> QED
    BY <1>7, <2>1, CreditNext, ZenonT(40)
<1>11. five = four
  BY <1>5, <1>8, <1>10, ConcatEmptySeq
<1>12. Imbalance(four) = 0
  BY <1>2, <1>4, <1>9, <1>10, SMTT(20)
<1> QED
  BY <1>1, <1>10, <1>11, <1>12, Balanced

LEMMA ReversedCommissionAccepted ==
  ASSUME NEW calc, Postable(calc)
  PROVE  /\ ReversedCommissionEntry(calc) \in Seq(Lines)
         /\ Accepted(ReversedCommissionEntry(calc))
<1> DEFINE net == calc.commission.net
           vat == calc.commission.vat
           first == Debit("COMMISSION_REVENUE", net)
           second == Debit("TICKETFLOW_VAT_PAYABLE", vat)
           third == Credit("ORGANIZER_PAYABLE", net + vat)
           entry == <<first, second, third>>
           F == [i \in DOMAIN entry |-> entry[i].debit - entry[i].credit]
<1>1. ReversedCommissionEntry(calc) = entry
  BY DEF ReversedCommissionEntry
<1>2. net \in Nat /\ vat \in Nat
  BY DEF Postable
<1> HIDE DEF net, vat
<1>3. {"COMMISSION_REVENUE", "TICKETFLOW_VAT_PAYABLE", "ORGANIZER_PAYABLE"} \subseteq Accounts
  BY DEF Accounts
<1>4. first \in Lines /\ first.debit - first.credit = net
  BY <1>2, <1>3, LineIs
<1>5. second \in Lines /\ second.debit - second.credit = vat
  BY <1>2, <1>3, LineIs
<1>6. third \in Lines /\ third.debit - third.credit = -(net + vat)
  BY <1>2, <1>3, LineIs
<1> HIDE DEF first, second, third
<1>7. /\ DOMAIN entry = {1, 2, 3} /\ entry[1] = first /\ entry[2] = second /\ entry[3] = third
      /\ entry \in Seq(Lines)
  BY <1>4, <1>5, <1>6
<1>8. Imbalance(entry) = Total(F)
  BY DEF Imbalance
<1> HIDE DEF entry
<1>9. DOMAIN F = {1, 2, 3} /\ F[1] = net /\ F[2] = vat /\ F[3] = -(net + vat)
  BY <1>4, <1>5, <1>6, <1>7
<1> HIDE DEF F
<1>10. Total(F) = F[1] + F[2] + F[3]
  BY <1>2, <1>9, TotalOfThree
<1>11. Imbalance(entry) = 0
  BY <1>2, <1>8, <1>9, <1>10
<1> QED
  BY <1>1, <1>7, <1>11, Balanced

LEMMA PostsRefund ==
  ASSUME NEW calc, Postable(calc), NEW refund, refund.posted \in BOOLEAN
  PROVE  AllAccepted(PostedFor(refund, calc))
<1> DEFINE first == RefundEntry(calc)
           second == ReversedCommissionEntry(calc)
           one == Where(calc.faceValue + calc.bookingFee > 0, <<first>>)
           tail == Where(calc.commission.net > 0 \/ calc.commission.vat > 0, <<second>>)
<1>1. /\ first \in Seq(Lines) /\ second \in Seq(Lines) /\ Accepted(first) /\ Accepted(second)
  BY RefundEntryAccepted, ReversedCommissionAccepted
<1>2. (one = <<>> \/ one = <<first>>) /\ (tail = <<>> \/ tail = <<second>>)
  BY DEF Where
<1>3. RefundEntries(calc) = one \o tail
  BY DEF RefundEntries
<1> HIDE DEF first, second, one, tail
<1>4. AllAccepted(RefundEntries(calc))
  BY <1>1, <1>2, <1>3, BothAccepted
<1>5. AllAccepted(<<>>)
  BY DEF AllAccepted
<1> QED
  BY <1>4, <1>5 DEF PostedFor, Where

LEMMA TotalNat ==
  ASSUME NEW F, IsFiniteSet(DOMAIN F), \A x \in DOMAIN F : F[x] \in Nat
  PROVE  Total(F) \in Nat
<1> PICK S : S = DOMAIN F
  OBVIOUS
<1>1. /\ IsFiniteSet(S) /\ S \in SUBSET S
      /\ \A x \in S : F[x] \in Int /\ F[x] \in Nat
      /\ \A x \in S : F[x] <= F[x]
  OBVIOUS
<1>2. SumOver(F, S) \in Nat
  BY <1>1, SumMonotone
<1> QED
  BY <1>2, TotalIs

LEMMA LinesAre ==
  ASSUME NEW sale \in Sales
  PROVE  \A i \in DOMAIN sale.lines :
           sale.lines[i].price \in Nat /\ sale.lines[i].quantity \in Nat
<1>1. sale.lines \in Seq(TicketLines)
  BY DEF Sales
<1>2. \A i \in DOMAIN sale.lines : sale.lines[i] \in TicketLines
  BY <1>1
<1> QED
  BY <1>2 DEF TicketLines

LEMMA LinesFinite == ASSUME NEW sale \in Sales PROVE IsFiniteSet(DOMAIN sale.lines)
<1>1. sale.lines \in Seq(TicketLines)
  BY DEF Sales
<1>2. DOMAIN sale.lines = 1..Len(sale.lines) /\ Len(sale.lines) \in Nat
  BY <1>1
<1> QED
  BY <1>2, FS_Interval

\* The listed price of some tickets, and the share of it that is refunded.
LEMMA ListedType ==
  ASSUME NEW sale \in Sales, NEW quantities,
         \A i \in DOMAIN sale.lines : quantities[i] \in Nat
  PROVE  Listed(sale, quantities) \in Nat
<1> DEFINE F == [i \in DOMAIN sale.lines |-> sale.lines[i].price * quantities[i]]
<1>1. \A i \in DOMAIN sale.lines : sale.lines[i].price \in Nat
  BY LinesAre
<1>2. IsFiniteSet(DOMAIN F) /\ \A i \in DOMAIN F : F[i] \in Nat
  BY <1>1, LinesFinite
<1>3. Listed(sale, quantities) = Total(F)
  BY DEF Listed
<1> HIDE DEF F
<1> QED
  BY <1>2, <1>3, TotalNat

LEMMA SoldType ==
  ASSUME NEW sale \in Sales
  PROVE  \A i \in DOMAIN sale.lines : Sold(sale)[i] \in Nat
BY LinesAre DEF Sold

LEMMA FractionType ==
  ASSUME NEW sale \in Sales, NEW quantities,
         \A i \in DOMAIN sale.lines : quantities[i] \in Nat
  PROVE  Fraction(sale, quantities) \in 0..BPS
<1> DEFINE all == Listed(sale, Sold(sale))
           part == Listed(sale, quantities)
           share == DivideRounded(part * BPS, all, "HALF_UP")
<1>1. all \in Nat /\ part \in Nat
  BY ListedType, SoldType
<1>2. BPS \in Nat
  BY DEF BPS
<1>3. Fraction(sale, quantities)
        = IF all = 0 THEN 0 ELSE IF share > BPS THEN BPS ELSE share
  BY DEF Fraction
<1> HIDE DEF all, part
<1>4. ASSUME all # 0 PROVE share \in Nat
  <2>1. all \in Nat \ {0} /\ "HALF_UP" \in RoundingModes
    BY <1>1, <1>4 DEF RoundingModes
  <2>2. part * BPS \in Nat
    BY <1>1, <1>2 DEF BPS
  <2> QED
    BY <2>1, <2>2, Rounded
<1> HIDE DEF share
<1> QED
  BY <1>2, <1>3, <1>4

LEMMA ReturnedType ==
  ASSUME NEW gross \in Nat, NEW policy, NEW fraction \in 0..BPS
  PROVE  Returned(gross, policy, fraction) \in 0..gross
<1>1. "HALF_UP" \in RoundingModes
  BY DEF RoundingModes
<1>2. Percentage(gross, fraction, "HALF_UP") \in 0..gross
  BY <1>1, ShareBounded
<1> QED
  BY <1>2 DEF Returned

\* Whatever is refunded of it, a fee that splits back is its net amount and its VAT.
LEMMA FeeRefund ==
  ASSUME NEW amount \in Nat, NEW fee \in Fees, NEW sale \in Sales, NEW rules \in VatRules
  PROVE  LET split == Split(amount, fee.pricing, sale.ticketFlowRegistered, rules.ticketFlow) IN
         /\ split.net \in Nat /\ split.vat \in Nat
         /\ SplitsBack(fee, sale) => split.net + split.vat = amount
<1>1. /\ fee.pricing \in PricingModes /\ sale.ticketFlowRegistered \in BOOLEAN
      /\ rules.ticketFlow \in Rules
  BY DEF Fees, Sales, VatRules
<1> DEFINE split == Split(amount, fee.pricing, sale.ticketFlowRegistered, rules.ticketFlow)
<1>2. /\ split \in Splits
      /\ split.net + split.vat = split.gross
      /\ fee.pricing = "VAT_INCLUSIVE" \/ ~sale.ticketFlowRegistered => split.gross = amount
  BY <1>1, SplitBalances
<1> HIDE DEF split
<1>3. /\ split.net \in Nat /\ split.vat \in Nat
      /\ SplitsBack(fee, sale) => split.net + split.vat = amount
  BY <1>2 DEF Splits, SplitsBack
<1> QED
  BY <1>3 DEF split

\* No policy makes the refund of a whole agent sale fail.
LEMMA WholeRefundGoesThrough ==
  ASSUME RowsInv, BooksInv, NEW o \in Calculated, Agent(o),
         SplitsBack(calculation[o].sale.bookingFee, calculation[o].sale),
         calculation[o].figures.commission.gross <= calculation[o].figures.organizerProceeds,
         NEW refund \in RefundRequests(calculation[o].sale),
         WholeRefund(calculation[o].sale, refund)
  PROVE  RefundGoesThrough(refund, RefundOf(o, refund))
<1> DEFINE sale == calculation[o].sale
           charged == calculation[o].figures
           rules == calculation[o].rules
           calc == RefundTax(sale, charged, refund, rules)
           fraction == Fraction(sale, refund.quantities)
           bookingFee == Returned(charged.booking.gross, refund.bookingPolicy, fraction)
           commission == Returned(charged.commission.gross, refund.commissionPolicy, fraction)
           booking == Split(bookingFee, sale.bookingFee.pricing, sale.ticketFlowRegistered,
                            rules.ticketFlow)
           reversed == Split(commission, sale.commission.pricing, sale.ticketFlowRegistered,
                             rules.ticketFlow)
           face == TicketsGross(sale, refund.quantities, rules)
<1>1. /\ sale \in Sales /\ rules \in VatRules /\ charged = TicketSaleTax(sale, rules)
      /\ SaleStorable(charged) /\ RefundOf(o, refund) = calc
      /\ sale.agencyModel = "DISCLOSED_AGENT" /\ refund.quantities = Sold(sale)
      /\ SplitsBack(sale.bookingFee, sale)
      /\ charged.commission.gross <= charged.organizerProceeds
  BY DEF RowsInv, BooksInv, RefundOf, HistoricalRules, Agent, WholeRefund
<1>2. refund.posted \in BOOLEAN /\ refund.settled \in BOOLEAN
  BY TaxBooksAssumption DEF RefundRequests, Policies
<1> HIDE DEF sale, charged, rules
<1>3. charged.organizerProceeds = TicketsGross(sale, Sold(sale), rules)
  BY <1>1 DEF TicketSaleTax
<1>4. /\ charged.booking.gross \in Nat /\ charged.commission.gross \in Nat
      /\ charged.organizerProceeds \in Nat
  BY <1>1 DEF SaleStorable
<1>5. fraction \in 0..BPS
  BY <1>1, SoldType, FractionType
<1> HIDE DEF fraction
<1>6. bookingFee \in 0..charged.booking.gross /\ commission \in 0..charged.commission.gross
  BY <1>4, <1>5, ReturnedType, SMTT(30)
<1>7. /\ calc.faceValue = face /\ calc.bookingFee = bookingFee
      /\ calc.nonRefundable = charged.booking.gross - bookingFee
      /\ calc.booking = booking /\ calc.commission = reversed
      /\ calc.revenue = booking.net + reversed.net
      /\ calc.outputVat = booking.vat + reversed.vat
      /\ calc.organizerPayable = face - commission
      /\ calc.recovery = IF refund.settled /\ face - commission > 0
                         THEN face - commission ELSE 0
  BY <1>1 DEF RefundTax, fraction
<1> HIDE DEF bookingFee, commission
<1>8. sale.bookingFee \in Fees /\ sale.commission \in Fees
  BY <1>1 DEF Sales
<1>9. bookingFee \in Nat /\ commission \in Nat
  BY <1>4, <1>6
<1>10. /\ booking.net \in Nat /\ booking.vat \in Nat
       /\ booking.net + booking.vat = bookingFee
  BY <1>1, <1>8, <1>9, FeeRefund
<1>11. reversed.net \in Nat /\ reversed.vat \in Nat
  BY <1>1, <1>8, <1>9, FeeRefund
<1>12. face = charged.organizerProceeds
  BY <1>1, <1>3
<1> HIDE DEF calc, booking, reversed, face
<1>13. RefundStorable(calc)
  BY <1>1, <1>4, <1>6, <1>7, <1>10, <1>11, <1>12 DEF RefundStorable
<1>14. Postable(calc)
  BY <1>4, <1>7, <1>9, <1>10, <1>11, <1>12 DEF Postable
<1>15. AllAccepted(PostedFor(refund, calc))
  BY <1>2, <1>14, PostsRefund
<1> QED
  BY <1>1, <1>13, <1>15 DEF RefundGoesThrough

\* Under its exception no policy makes the refund of a whole agent sale fail on a
\* constraint of the table or on an entry that does not balance.
THEOREM WholeRefundGoes == Spec => []WholeRefundPosts
<1>1. ASSUME RowsInv, BooksInv PROVE WholeRefundPosts
  BY <1>1, WholeRefundGoesThrough DEF WholeRefundPosts
<1> QED
  BY <1>1, Rows, BooksStay, PTL
-----------------------------------------------------------------------------
(* ProratedAddsUp                                                           *)

\* Every refund is for tickets that were sold.
RefundsInv ==
  /\ IsFiniteSet(Refunded)
  /\ \A r \in Refunded :
       LET row == refundCalculation[r]
           sale == calculation[row.order].sale
       IN /\ row.order \in Calculated
          /\ row.refund.quantities \in [DOMAIN sale.lines -> Nat]
          /\ ValidRefund(sale, row.refund.quantities)

LEMMA RefundsStay == Spec => []RefundsInv
<1>1. Init => RefundsInv
  BY FS_EmptySet DEF Init, RefundsInv, Refunded
<1>2. ASSUME RefundsInv, [Next]_vars PROVE RefundsInv'
  <2>1. CASE UNCHANGED <<calculation, refundCalculation>>
    BY <1>2, <2>1 DEF RefundsInv, Refunded, Calculated
  <2>2. ASSUME NEW h \in Handlers, SaleStore(h) PROVE RefundsInv'
    <3>1. /\ refundCalculation' = refundCalculation
          /\ Calculated \subseteq Calculated'
          /\ \A p \in Calculated : calculation'[p] = calculation[p]
      BY <2>2 DEF SaleStore, SaleUnique, With, Calculated
    <3> QED
      BY <1>2, <3>1 DEF RefundsInv, Refunded
  <2>3. ASSUME NEW h \in Handlers, RefundStore(h) PROVE RefundsInv'
    <3>0. PICK o \in Calculated : \E refund \in RefundRequests(calculation[o].sale) :
            refundCalculation' = With(refundCalculation, id[h],
              [order |-> o, refund |-> refund, figures |-> RefundOf(o, refund)])
      BY <2>3 DEF RefundStore
    <3>1. PICK refund \in RefundRequests(calculation[o].sale) :
            refundCalculation' = With(refundCalculation, id[h],
              [order |-> o, refund |-> refund, figures |-> RefundOf(o, refund)])
      BY <3>0
    <3>2. id[h] \notin Refunded /\ calculation' = calculation /\ Calculated' = Calculated
      BY <2>3 DEF RefundStore, RefundUnique, Calculated
    <3>3. /\ Refunded' = Refunded \union {id[h]}
          /\ refundCalculation'[id[h]].order = o /\ refundCalculation'[id[h]].refund = refund
          /\ \A r \in Refunded : refundCalculation'[r] = refundCalculation[r]
      BY <3>1, <3>2 DEF With, Refunded
    <3>4. IsFiniteSet(Refunded')
      BY <1>2, <3>3, FS_AddElement DEF RefundsInv
    <3>5. /\ refund.quantities \in [DOMAIN calculation[o].sale.lines -> Nat]
          /\ ValidRefund(calculation[o].sale, refund.quantities)
      <4>1. PICK q \in [DOMAIN calculation[o].sale.lines -> 0..MaxQuantity], t \in RefundTerms :
              /\ ValidRefund(calculation[o].sale, q)
              /\ refund = [quantities |-> q, bookingPolicy |-> t.bookingPolicy,
                           commissionPolicy |-> t.commissionPolicy, settled |-> t.settled,
                           posted |-> t.posted]
        BY DEF RefundRequests
      <4>2. q \in [DOMAIN calculation[o].sale.lines -> Nat]
        OBVIOUS
      <4> QED
        BY <4>1, <4>2
    <3>6. ASSUME NEW r \in Refunded'
          PROVE  LET row == refundCalculation'[r]
                     sale == calculation'[row.order].sale
                 IN /\ row.order \in Calculated'
                    /\ row.refund.quantities \in [DOMAIN sale.lines -> Nat]
                    /\ ValidRefund(sale, row.refund.quantities)
      <4>1. CASE r = id[h]
        BY <3>2, <3>3, <3>5, <4>1
      <4>2. CASE r \in Refunded
        BY <1>2, <3>2, <3>3, <4>2 DEF RefundsInv
      <4> QED
        BY <3>3, <4>1, <4>2
    <3> QED
      BY <3>4, <3>6 DEF RefundsInv
  <2> QED
    BY <1>2, <2>1, <2>2, <2>3 DEF Next, vars, SaleFind, RefundFind, RollBack
<1> QED
  BY <1>1, <1>2, PTL DEF Spec

LEMMA Cancel ==
  ASSUME NEW x \in Int, NEW y \in Int, NEW d \in Nat \ {0}, x * d <= y * d
  PROVE  x <= y
<1> SUFFICES ASSUME x > y PROVE FALSE
  OBVIOUS
<1>1. PICK k \in Nat : x = y + k /\ k >= 1
  <2>1. x - y \in Nat /\ x = y + (x - y) /\ x - y >= 1
    OBVIOUS
  <2> QED
    BY <2>1
<1>2. x * d = y * d + k * d /\ k * d \in Nat /\ y * d \in Int
  BY <1>1
<1>3. k * d >= 1 * d
  BY <1>1, Monotone
<1> QED
  BY <1>2, <1>3

\* How far a prorated fee is from its exact share, both roundings together, over the
\* common denominator.
Near(all, fee, part, returned) ==
  /\ 2 * BPS * (all * returned - fee * part) <= (BPS + fee) * all
  /\ -((BPS + fee) * all) <= 2 * BPS * (all * returned - fee * part)

LEMMA ProratedWithin ==
  ASSUME NEW fee \in Nat, NEW all \in Nat \ {0}, NEW part \in Nat, NEW share \in Nat,
         NEW returned \in Nat,
         2 * (share * all - part * BPS) <= all, 2 * (part * BPS - share * all) <= all,
         2 * (returned * BPS - fee * share) <= BPS, 2 * (fee * share - returned * BPS) <= BPS
  PROVE  Near(all, fee, part, returned)
<1> PICK a \in Int, b \in Int :
      a = 2 * (share * all - part * BPS) /\ b = 2 * (returned * BPS - fee * share)
  BY DEF BPS
<1>1. a <= all /\ -all <= a /\ b <= BPS /\ -BPS <= b
  BY DEF BPS
<1>2. 2 * BPS * (all * returned - fee * part) = all * b + fee * a
  BY DEF BPS
<1>3. fee * a <= fee * all /\ -(fee * all) <= fee * a
  <2>1. all - a \in Nat /\ all + a \in Nat
    BY <1>1
  <2>2. fee * (all - a) \in Nat /\ fee * (all + a) \in Nat
    BY <2>1
  <2>3. fee * (all - a) = fee * all - fee * a /\ fee * (all + a) = fee * all + fee * a
    OBVIOUS
  <2>4. fee * all \in Int /\ fee * a \in Int
    OBVIOUS
  <2> QED
    BY <2>2, <2>3, <2>4
<1>4. all * b <= all * BPS /\ -(all * BPS) <= all * b
  <2>1. BPS - b \in Nat /\ BPS + b \in Nat
    BY <1>1 DEF BPS
  <2>2. all * (BPS - b) \in Nat /\ all * (BPS + b) \in Nat
    BY <2>1
  <2>3. all * (BPS - b) = all * BPS - all * b /\ all * (BPS + b) = all * BPS + all * b
    BY DEF BPS
  <2>4. all * BPS \in Int /\ all * b \in Int
    BY DEF BPS
  <2> QED
    BY <2>2, <2>3, <2>4
<1>5. (BPS + fee) * all = all * BPS + fee * all
  BY DEF BPS
<1>6. all * BPS \in Int /\ all * b \in Int /\ fee * all \in Int /\ fee * a \in Int
  BY DEF BPS
<1> QED
  BY <1>2, <1>3, <1>4, <1>5, <1>6 DEF Near

\* One prorated refund of a sale.
LEMMA ProratedFee ==
  ASSUME NEW sale \in Sales, NEW quantities \in [DOMAIN sale.lines -> Nat],
         ValidRefund(sale, quantities), Listed(sale, Sold(sale)) > 0, NEW fee \in Nat
  PROVE  LET all == Listed(sale, Sold(sale))
             part == Listed(sale, quantities)
             returned == Returned(fee, "PRORATED", Fraction(sale, quantities))
         IN /\ all \in Nat \ {0} /\ part \in Nat /\ returned \in Nat
            /\ Near(all, fee, part, returned)
<1> DEFINE all == Listed(sale, Sold(sale))
           part == Listed(sale, quantities)
           F == [i \in DOMAIN sale.lines |-> sale.lines[i].price * quantities[i]]
           G == [i \in DOMAIN sale.lines |-> sale.lines[i].price * Sold(sale)[i]]
           share == DivideRounded(part * BPS, all, "HALF_UP")
           returned == Returned(fee, "PRORATED", share)
<1>1. /\ \A i \in DOMAIN sale.lines : quantities[i] \in Nat
      /\ \A i \in DOMAIN sale.lines : Sold(sale)[i] \in Nat
  BY SoldType
<1>2. all \in Nat \ {0} /\ part \in Nat
  BY <1>1, ListedType
<1>3. part <= all
  <2> PICK S : S = DOMAIN sale.lines
    OBVIOUS
  <2>1. IsFiniteSet(S)
    BY LinesFinite
  <2>2. \A i \in S : F[i] \in Int /\ G[i] \in Nat /\ F[i] <= G[i]
    <3> SUFFICES ASSUME NEW i \in S PROVE F[i] \in Int /\ G[i] \in Nat /\ F[i] <= G[i]
      OBVIOUS
    <3> PICK price, q, s : price = sale.lines[i].price /\ q = quantities[i] /\ s = Sold(sale)[i]
      OBVIOUS
    <3>1. price \in Nat /\ q \in Nat /\ s \in Nat /\ q <= s
      BY <1>1, LinesAre DEF ValidRefund, Sold
    <3>2. s * price >= q * price
      BY <3>1, Monotone
    <3>3. F[i] = price * q /\ G[i] = price * s
      OBVIOUS
    <3> QED
      BY <3>1, <3>2, <3>3
  <2>3. DOMAIN F = S /\ DOMAIN G = S
    OBVIOUS
  <2>4. part = Total(F) /\ all = Total(G)
    BY DEF Listed
  <2> HIDE DEF F, G
  <2>5. S \in SUBSET S /\ (\A i \in S : F[i] \in Int /\ G[i] \in Nat)
        /\ (\A i \in S : F[i] <= G[i])
    BY <2>2
  <2>6. SumOver(F, S) <= SumOver(G, S)
    BY <2>1, <2>5, SumMonotone
  <2> QED
    BY <2>3, <2>4, <2>6, TotalIs
<1> HIDE DEF F, G, all, part
<1>4. BPS \in Nat \ {0} /\ "HALF_UP" \in RoundingModes
  BY DEF BPS, RoundingModes
<1>5. part * BPS \in Nat /\ part * BPS <= BPS * all
  <2>1. all * BPS >= part * BPS
    BY <1>2, <1>3, <1>4, Monotone
  <2> QED
    BY <1>2, <2>1 DEF BPS
<1>6. share \in Nat /\ share <= BPS
  BY <1>2, <1>4, <1>5, Rounded, AtMost
<1>7. 2 * (share * all - part * BPS) <= all /\ 2 * (part * BPS - share * all) < all
  BY <1>2, <1>4, <1>5, Rounded
<1>8. Fraction(sale, quantities) = share
  BY <1>2, <1>4, <1>6 DEF Fraction, all, part
<1> HIDE DEF share
<1>9. returned = DivideRounded(fee * share, BPS, "HALF_UP")
  BY DEF Returned, Percentage
<1>10. fee * share \in Nat
  BY <1>6
<1>11. /\ returned \in Nat
       /\ 2 * (returned * BPS - fee * share) <= BPS /\ 2 * (fee * share - returned * BPS) < BPS
  BY <1>4, <1>9, <1>10, Rounded
<1> HIDE DEF returned
<1>12. /\ 2 * (part * BPS - share * all) <= all /\ 2 * (fee * share - returned * BPS) <= BPS
  <2>1. /\ part * BPS \in Int /\ share * all \in Int /\ fee * share \in Int
        /\ returned * BPS \in Int
    BY <1>2, <1>6, <1>11 DEF BPS
  <2> QED
    BY <1>2, <1>4, <1>7, <1>11, <2>1
<1>13. Near(all, fee, part, returned)
  BY <1>2, <1>6, <1>7, <1>11, <1>12, ProratedWithin
<1> QED
  BY <1>2, <1>8, <1>11, <1>13 DEF all, part, returned

\* Refunds that between them return every ticket return the listed price.
LEMMA ListedAddsUp ==
  ASSUME NEW sale \in Sales, NEW R, IsFiniteSet(R), NEW Q,
         \A r \in R : Q[r] \in [DOMAIN sale.lines -> Nat],
         \A i \in DOMAIN sale.lines : SumOver([r \in R |-> Q[r][i]], R) = Sold(sale)[i]
  PROVE  SumOver([r \in R |-> Listed(sale, Q[r])], R) = Listed(sale, Sold(sale))
<1> PICK I, price : I = DOMAIN sale.lines /\ price = [i \in I |-> sale.lines[i].price]
  OBVIOUS
<1> DEFINE M == [r \in R |-> [i \in I |-> price[i] * Q[r][i]]]
           N == [i \in I |-> [r \in R |-> M[r][i]]]
           ByRefund == [r \in R |-> Listed(sale, Q[r])]
           ByLine == [i \in I |-> SumOver(N[i], R)]
           Whole == [i \in I |-> price[i] * Sold(sale)[i]]
<1>1. IsFiniteSet(I) /\ \A i \in I : price[i] \in Nat /\ Sold(sale)[i] \in Nat
  BY LinesFinite, LinesAre, SoldType
<1>2. ASSUME NEW r \in R, NEW i \in I
      PROVE  Q[r][i] \in Nat /\ M[r][i] = price[i] * Q[r][i] /\ M[r][i] \in Int
  <2> PICK p, q : p = price[i] /\ q = Q[r][i]
    OBVIOUS
  <2>1. p \in Nat /\ q \in Nat
    BY <1>1
  <2>2. p * q \in Int
    BY <2>1
  <2>3. M[r][i] = p * q
    OBVIOUS
  <2> QED
    BY <2>1, <2>2, <2>3
<1>3. ASSUME NEW r \in R PROVE Listed(sale, Q[r]) = SumOver(M[r], I)
  <2>1. Listed(sale, Q[r]) = Total([i \in I |-> price[i] * Q[r][i]])
    BY DEF Listed
  <2>2. M[r] = [i \in I |-> price[i] * Q[r][i]] /\ DOMAIN M[r] = I
    OBVIOUS
  <2> HIDE DEF M
  <2> QED
    BY <2>1, <2>2, TotalIs
<1>4. ASSUME NEW i \in I PROVE ByLine[i] = Whole[i]
  <2> DEFINE F == [r \in R |-> Q[r][i]]
             H == [r \in R |-> M[r][i]]
  <2>1. \A r \in R : F[r] \in Int /\ H[r] = price[i] * F[r] + 0 * F[r]
    <3> SUFFICES ASSUME NEW r \in R PROVE F[r] \in Int /\ H[r] = price[i] * F[r] + 0 * F[r]
      OBVIOUS
    <3> PICK p, q : p = price[i] /\ q = Q[r][i]
      OBVIOUS
    <3>1. F[r] = q /\ H[r] = M[r][i]
      OBVIOUS
    <3>2. q \in Nat /\ M[r][i] = p * q /\ p \in Nat
      BY <1>1, <1>2
    <3>3. p * q = p * q + 0 * q
      BY <3>2
    <3> HIDE DEF F, H, M
    <3> QED
      BY <3>1, <3>2, <3>3
  <2>2. SumOver(F, R) = Sold(sale)[i] /\ ByLine[i] = SumOver(H, R)
    OBVIOUS
  <2>3. price[i] \in Int /\ 0 \in Int
    BY <1>1
  <2> HIDE DEF F, H, M, ByLine
  <2>4. SumOver(H, R) = price[i] * SumOver(F, R) + 0 * SumOver(F, R)
    BY <2>1, <2>3, SumIsLinear
  <2>5. price[i] * Sold(sale)[i] + 0 * Sold(sale)[i] = price[i] * Sold(sale)[i]
    <3> PICK p \in Nat, q \in Nat : p = price[i] /\ q = Sold(sale)[i]
      BY <1>1
    <3>1. p * q + 0 * q = p * q
      OBVIOUS
    <3> QED
      BY <3>1
  <2>6. Whole[i] = price[i] * Sold(sale)[i]
    OBVIOUS
  <2> HIDE DEF Whole
  <2> QED
    BY <2>2, <2>4, <2>5, <2>6
<1>5. SumOver(ByRefund, R) = SumOver(ByLine, I)
  <2>1. IsFiniteSet(I) /\ IsFiniteSet(R) /\ Table(R, I, M, N, ByRefund, ByLine)
    <3>1. \A r \in R, i \in I : N[i][r] = M[r][i]
      OBVIOUS
    <3>2. \A r \in R : ByRefund[r] = Listed(sale, Q[r])
      OBVIOUS
    <3>3. \A i \in I : ByLine[i] = SumOver(N[i], R)
      OBVIOUS
    <3> HIDE DEF M, N, ByRefund, ByLine
    <3> QED
      BY <1>1, <1>2, <1>3, <3>1, <3>2, <3>3 DEF Table
  <2> HIDE DEF M, N, ByRefund, ByLine
  <2> QED
    BY <2>1, SumsSwap
<1>6. SumOver(ByLine, I) = SumOver(Whole, I)
  <2> HIDE DEF ByLine, Whole
  <2> QED
    BY <1>1, <1>4, SumAgrees
<1>7. Listed(sale, Sold(sale)) = SumOver(Whole, I)
  <2>1. Listed(sale, Sold(sale)) = Total(Whole) /\ DOMAIN Whole = I
    BY DEF Listed
  <2> HIDE DEF Whole
  <2> QED
    BY <2>1, TotalIs
<1> QED
  BY <1>5, <1>6, <1>7

\* The errors of the refunds of a sale add up to the error of their sum.
LEMMA ProratedSum ==
  ASSUME NEW R, IsFiniteSet(R), NEW all \in Nat \ {0}, NEW fee \in Nat, NEW Listing,
         NEW Returns, SumOver(Listing, R) = all,
         \A r \in R : /\ Listing[r] \in Nat /\ Returns[r] \in Nat
                      /\ Near(all, fee, Listing[r], Returns[r])
  PROVE  2 * BPS * Magnitude(SumOver(Returns, R) - fee) <= Cardinality(R) * (BPS + fee)
<1> DEFINE a == (2 * BPS) * all
           b == -((2 * BPS) * fee)
           bound == (BPS + fee) * all
           Errors == [r \in R |-> a * Returns[r] + b * Listing[r]]
           error == SumOver(Returns, R) - fee
           n == Cardinality(R)
<1>1. BPS \in Nat /\ a \in Int /\ b \in Int /\ bound \in Nat /\ n \in Nat
  BY FS_CardinalityType DEF BPS
<1>2. \A r \in R : 2 * BPS * (all * Returns[r] - fee * Listing[r])
                     = a * Returns[r] + b * Listing[r]
  BY DEF BPS
<1>3. SumOver(Returns, R) \in Int
  <2>1. \A r \in R : Returns[r] \in Int
    OBVIOUS
  <2> QED
    BY <2>1, SumTakesAny
<1> HIDE DEF a, b, bound
<1>4. \A r \in R : /\ Returns[r] \in Int /\ Listing[r] \in Int
                   /\ Errors[r] = a * Returns[r] + b * Listing[r]
                   /\ Errors[r] \in Int /\ Errors[r] <= bound /\ -bound <= Errors[r]
  <2> SUFFICES ASSUME NEW r \in R
               PROVE  /\ Returns[r] \in Int /\ Listing[r] \in Int
                      /\ Errors[r] = a * Returns[r] + b * Listing[r]
                      /\ Errors[r] \in Int /\ Errors[r] <= bound /\ -bound <= Errors[r]
    OBVIOUS
  <2>1. Returns[r] \in Int /\ Listing[r] \in Int
    OBVIOUS
  <2>2. Errors[r] = a * Returns[r] + b * Listing[r]
    OBVIOUS
  <2>3. a * Returns[r] + b * Listing[r] <= bound /\ -bound <= a * Returns[r] + b * Listing[r]
    BY <1>2 DEF bound, Near
  <2>4. a * Returns[r] + b * Listing[r] \in Int
    BY <1>1, <2>1
  <2> QED
    BY <2>1, <2>2, <2>3, <2>4
<1> HIDE DEF Errors
<1>5. SumOver(Errors, R) = a * SumOver(Returns, R) + b * SumOver(Listing, R)
  <2>1. Combines(R, Returns, Listing, Errors, a, b)
    BY <1>1, <1>4 DEF Combines
  <2> QED
    BY <2>1, SumOfCombination
<1>6. SumOver(Errors, R) <= bound * n /\ -(bound * n) <= SumOver(Errors, R)
  <2>1. bound \in Nat /\ \A r \in R : Errors[r] \in Int /\ Errors[r] <= bound /\ -bound <= Errors[r]
    BY <1>1, <1>4
  <2> QED
    BY <2>1, SumWithin
<1>7. SumOver(Errors, R) = (2 * BPS * error) * all
  <2> PICK s \in Int : s = SumOver(Returns, R)
    BY <1>3
  <2>1. a * s + b * all = (2 * BPS * (s - fee)) * all
    BY DEF a, b, BPS
  <2> QED
    BY <1>5, <2>1
<1>8. bound * n = (n * (BPS + fee)) * all
  BY <1>1 DEF bound, BPS
<1>9. error \in Int /\ 2 * BPS * error \in Int /\ n * (BPS + fee) \in Int
  BY <1>1, <1>3 DEF BPS
<1> HIDE DEF error, n
<1>10. 2 * BPS * error <= n * (BPS + fee)
  <2>1. (2 * BPS * error) * all <= (n * (BPS + fee)) * all
    BY <1>6, <1>7, <1>8
  <2> QED
    BY <1>9, <2>1, Cancel
<1>11. 2 * BPS * (-error) <= n * (BPS + fee)
  <2>1. -((2 * BPS * error) * all) <= (n * (BPS + fee)) * all
    <3> PICK x \in Int, y \in Int : x = SumOver(Errors, R) /\ y = bound * n
      BY <1>1, <1>7, <1>9
    <3>1. -y <= x
      BY <1>6
    <3>2. -x <= y
      BY <3>1
    <3> QED
      BY <1>7, <1>8, <3>2
  <2>2. -((2 * BPS * error) * all) = (2 * BPS * (-error)) * all
    BY <1>9 DEF BPS
  <2>3. 2 * BPS * (-error) \in Int
    BY <1>9 DEF BPS
  <2> QED
    BY <1>9, <2>1, <2>2, <2>3, Cancel
<1>12. 2 * BPS * Magnitude(error) <= n * (BPS + fee)
  BY <1>9, <1>10, <1>11 DEF Magnitude
<1> QED
  BY <1>12 DEF error, n

\* Prorated refunds of every ticket of a sale return its booking fee, but for the two
\* roundings of each.
THEOREM ProratedRefundsAddUp == Spec => []ProratedAddsUp
<1>1. ASSUME RowsInv, BooksInv, RefundsInv PROVE ProratedAddsUp
  <2> SUFFICES ASSUME NEW o \in Calculated, AllTickets(o),
                      Listed(calculation[o].sale, Sold(calculation[o].sale)) > 0,
                      \A r \in RefundsOf(o) :
                        refundCalculation[r].refund.bookingPolicy = "PRORATED"
               PROVE  LET n == Cardinality(RefundsOf(o))
                          fee == calculation[o].figures.booking.gross
                          returned == Total([r \in RefundsOf(o) |->
                                               refundCalculation[r].figures.bookingFee])
                      IN 2 * BPS * Magnitude(returned - fee) <= n * (BPS + fee)
    BY DEF ProratedAddsUp
  <2> PICK R, sale, charged, rules :
        R = RefundsOf(o) /\ sale = calculation[o].sale
          /\ charged = calculation[o].figures /\ rules = calculation[o].rules
    OBVIOUS
  <2> PICK fee, all : fee = charged.booking.gross /\ all = Listed(sale, Sold(sale))
    OBVIOUS
  <2>1. sale \in Sales /\ SaleStorable(charged)
    BY <1>1 DEF RowsInv, BooksInv
  <2>2. fee \in Nat
    BY <2>1 DEF SaleStorable
  <2>3. IsFiniteSet(R) /\ \A r \in R : r \in Refunded /\ refundCalculation[r].order = o
    <3>1. IsFiniteSet(Refunded) /\ RefundsOf(o) \subseteq Refunded
      BY <1>1 DEF RefundsInv, RefundsOf
    <3> QED
      BY <3>1, FS_Subset DEF RefundsOf
  <2> DEFINE Q == [r \in R |-> refundCalculation[r].refund.quantities]
             Listing == [r \in R |-> Listed(sale, Q[r])]
             Returns == [r \in R |-> refundCalculation[r].figures.bookingFee]
  <2>4. \A r \in R : Q[r] \in [DOMAIN sale.lines -> Nat] /\ ValidRefund(sale, Q[r])
    BY <1>1, <2>3 DEF RefundsInv
  <2>5. \A r \in R : Returns[r] = Returned(fee, "PRORATED", Fraction(sale, Q[r]))
    <3> SUFFICES ASSUME NEW r \in R
                 PROVE  Returns[r] = Returned(fee, "PRORATED", Fraction(sale, Q[r]))
      OBVIOUS
    <3>1. refundCalculation[r].figures
            = RefundTax(sale, charged, refundCalculation[r].refund, rules)
      BY <1>1, <2>3 DEF RowsInv, RefundOf, HistoricalRules
    <3>2. refundCalculation[r].refund.bookingPolicy = "PRORATED"
      OBVIOUS
    <3>3. PICK refund : refund = refundCalculation[r].refund
      OBVIOUS
    <3>4. RefundTax(sale, charged, refund, rules).bookingFee
            = Returned(fee, "PRORATED", Fraction(sale, refund.quantities))
      BY <3>2, <3>3 DEF RefundTax
    <3>5. Returns[r] = refundCalculation[r].figures.bookingFee /\ Q[r] = refund.quantities
      BY <3>3
    <3> QED
      BY <3>1, <3>3, <3>4, <3>5
  <2>6. \A i \in DOMAIN sale.lines : SumOver([r \in R |-> Q[r][i]], R) = Sold(sale)[i]
    <3> SUFFICES ASSUME NEW i \in DOMAIN sale.lines
                 PROVE  SumOver([r \in R |-> Q[r][i]], R) = Sold(sale)[i]
      OBVIOUS
    <3> DEFINE F == [r \in R |-> refundCalculation[r].refund.quantities[i]]
    <3>1. Total(F) = Sold(sale)[i] /\ DOMAIN F = R
      BY DEF AllTickets
    <3>2. [r \in R |-> Q[r][i]] = F
      OBVIOUS
    <3> HIDE DEF F
    <3> QED
      BY <3>1, <3>2, TotalIs
  <2> HIDE DEF Q
  <2>7. SumOver(Listing, R) = all
    BY <2>1, <2>3, <2>4, <2>6, ListedAddsUp
  <2>8. all > 0
    OBVIOUS
  <2>9. all \in Nat \ {0}
    BY <2>1, <2>8, ListedType, SoldType
  <2>10. \A r \in R :
           /\ Listing[r] \in Nat /\ Returns[r] \in Nat
           /\ Near(all, fee, Listing[r], Returns[r])
    <3> SUFFICES ASSUME NEW r \in R
                 PROVE  /\ Listing[r] \in Nat /\ Returns[r] \in Nat
                        /\ Near(all, fee, Listing[r], Returns[r])
      OBVIOUS
    <3> PICK q, back : q = Q[r] /\ back = Returned(fee, "PRORATED", Fraction(sale, q))
      OBVIOUS
    <3>1. Listing[r] = Listed(sale, q) /\ Returns[r] = back
      BY <2>5
    <3>2. /\ q \in [DOMAIN sale.lines -> Nat] /\ ValidRefund(sale, q)
          /\ Listed(sale, Sold(sale)) > 0
      BY <2>4
    <3>3. /\ Listed(sale, q) \in Nat /\ back \in Nat
          /\ Near(all, fee, Listed(sale, q), back)
      BY <2>1, <2>2, <3>2, ProratedFee
    <3> QED
      BY <3>1, <3>3
  <2>11. Total(Returns) = SumOver(Returns, R)
    BY TotalIs
  <2> HIDE DEF Listing, Returns
  <2>12. 2 * BPS * Magnitude(SumOver(Returns, R) - fee) <= Cardinality(R) * (BPS + fee)
    BY <2>2, <2>3, <2>7, <2>9, <2>10, ProratedSum
  <2> QED
    BY <2>11, <2>12 DEF Returns
<1> QED
  BY <1>1, Rows, BooksStay, RefundsStay, PTL

-----------------------------------------------------------------------------
(* TypeOK and TrialBalance.                                                 *)

\* Lines as they are before postEntry has looked at them.
Drafted == [account : Accounts, debit : Int, credit : Int]

LEMMA AccountsFinite == IsFiniteSet(Accounts)
<1>1. \A x, y, z : IsFiniteSet({x, y, z})
  <2> TAKE x, y, z
  <2>1. IsFiniteSet({x}) /\ IsFiniteSet({y}) /\ IsFiniteSet({z})
    BY FS_Singleton
  <2>2. IsFiniteSet({x} \union {y})
    BY <2>1, FS_Union
  <2>3. IsFiniteSet(({x} \union {y}) \union {z})
    BY <2>1, <2>2, FS_Union
  <2>4. {x, y, z} = ({x} \union {y}) \union {z}
    OBVIOUS
  <2> QED
    BY <2>3, <2>4
<1>2. PICK R, S, T :
        /\ R = {"CASH_MPESA_CLEARING", "CUSTOMER_REFUND_PAYABLE", "CLIENT_MONEY_ORGANIZER_FUNDS"}
        /\ S = {"ORGANIZER_PAYABLE", "BOOKING_FEE_REVENUE", "COMMISSION_REVENUE"}
        /\ T = {"TICKETFLOW_VAT_PAYABLE", "PAYMENT_PROCESSING_EXPENSE",
                "PROCESSOR_PAYABLE_CLEARING"}
  OBVIOUS
<1>3. Accounts = (R \union S) \union T
  BY <1>2 DEF Accounts
<1>4. IsFiniteSet(R) /\ IsFiniteSet(S) /\ IsFiniteSet(T)
  BY <1>1, <1>2
<1> QED
  BY <1>3, <1>4, FS_Union

\* What a sum comes to when all but one element are 0.
LEMMA SumOfSingle ==
  ASSUME NEW S, IsFiniteSet(S), NEW G, NEW b \in S, G[b] \in Int,
         \A a \in S : a # b => G[a] = 0
  PROVE  SumOver(G, S) = G[b]
<1> DEFINE R == S \ {b}
<1>1. \A a \in S : G[a] \in Int
  OBVIOUS
<1>2. SumOver(G, S) = G[b] + SumOver(G, R)
  BY <1>1, SumTakesAny
<1>3. IsFiniteSet(R) /\ \A a \in R : G[a] = 0
  BY FS_Subset
<1> HIDE DEF R
<1>4. SumOver(G, R) = 0
  BY <1>3, SumOfZeros
<1> QED
  BY <1>2, <1>4

\* Over all accounts an entry that postEntry accepts adds nothing: its lines by account and
\* its accounts by line are one table.
LEMMA EntryBalances ==
  ASSUME NEW entry \in Seq(Drafted), Accepted(entry)
  PROVE  /\ \A a \in Accounts : EntryCredit(entry, a) \in Int
         /\ SumOver([a \in Accounts |-> EntryCredit(entry, a)], Accounts) = 0
<1> DEFINE I == DOMAIN entry
           M == [a \in Accounts |-> [i \in I |-> LineCredit(entry[i], a)]]
           Col == [i \in I |-> [a \in Accounts |-> LineCredit(entry[i], a)]]
           Row == [a \in Accounts |-> EntryCredit(entry, a)]
           Column == [i \in I |-> entry[i].credit - entry[i].debit]
           Balance == [i \in I |-> entry[i].debit - entry[i].credit]
<1>1. IsFiniteSet(I) /\ IsFiniteSet(Accounts)
  <2>1. I = 1..Len(entry) /\ Len(entry) \in Nat
    OBVIOUS
  <2> QED
    BY <2>1, FS_Interval, AccountsFinite
<1>2. \A i \in I : /\ entry[i].account \in Accounts
                   /\ entry[i].debit \in Int /\ entry[i].credit \in Int
  <2>1. \A i \in I : entry[i] \in Drafted
    OBVIOUS
  <2> QED
    BY <2>1 DEF Drafted
<1>3. \A a \in Accounts, i \in I : M[a][i] \in Int /\ Col[i][a] = M[a][i]
  BY <1>2 DEF LineCredit
<1>4. \A a \in Accounts : Row[a] = SumOver(M[a], I)
  BY TotalIs DEF EntryCredit
<1>5. ASSUME NEW i \in I PROVE Column[i] = SumOver(Col[i], Accounts)
  <2> DEFINE b == entry[i].account
             G == Col[i]
  <2>1. /\ b \in Accounts /\ G[b] = Column[i] /\ G[b] \in Int
        /\ \A a \in Accounts : a # b => G[a] = 0
    BY <1>2, <1>5 DEF LineCredit
  <2> HIDE DEF G, b, Column
  <2>2. IsFiniteSet(Accounts)
    BY AccountsFinite
  <2>3. SumOver(G, Accounts) = G[b]
    BY <2>1, <2>2, SumOfSingle
  <2> QED
    BY <2>1, <2>3 DEF G
<1>6. Table(Accounts, I, M, Col, Row, Column)
  <2> HIDE DEF M, Col, Row, Column
  <2> QED
    BY <1>3, <1>4, <1>5 DEF Table
<1>7. SumOver(Balance, I) = 0
  BY TotalIs DEF Accepted
<1>8. SumOver(Column, I) = 0
  <2>1. \A i \in I : /\ Balance[i] \in Int
                     /\ Column[i] = (-1) * Balance[i] + 0 * Balance[i]
    BY <1>2
  <2> HIDE DEF Balance, Column, I
  <2>2. -1 \in Int /\ 0 \in Int /\ IsFiniteSet(I)
    BY <1>1
  <2>3. SumOver(Column, I) = (-1) * SumOver(Balance, I) + 0 * SumOver(Balance, I)
    BY <2>1, <2>2, SumIsLinear, SMTT(30)
  <2> QED
    BY <1>7, <2>3
<1>9. \A a \in Accounts : EntryCredit(entry, a) \in Int
  <2> TAKE a \in Accounts
  <2> DEFINE F == M[a]
  <2>1. \A i \in I : F[i] \in Int
    BY <1>3
  <2>2. SumOver(F, I) \in Int
    <3> HIDE DEF F
    <3> QED
      BY <1>1, <2>1, SumTakesAny
  <2> QED
    BY <1>4, <2>2
<1>10. SumOver(Row, Accounts) = SumOver(Column, I)
  <2> HIDE DEF M, Col, Row, Column, I
  <2> QED
    BY <1>1, <1>6, SumsSwap
<1> QED
  BY <1>8, <1>9, <1>10

\* And so does a posting, which is a table of accounts and entries.
LEMMA PostingBalances ==
  ASSUME NEW entries \in Seq(Seq(Drafted)), AllAccepted(entries)
  PROVE  /\ \A a \in Accounts : Credited(entries, a) \in Int
         /\ SumOver([a \in Accounts |-> Credited(entries, a)], Accounts) = 0
<1> DEFINE K == DOMAIN entries
           M == [a \in Accounts |-> [k \in K |-> EntryCredit(entries[k], a)]]
           Col == [k \in K |-> [a \in Accounts |-> EntryCredit(entries[k], a)]]
           Row == [a \in Accounts |-> Credited(entries, a)]
           Column == [k \in K |-> 0]
<1>1. IsFiniteSet(K) /\ IsFiniteSet(Accounts)
  <2>1. K = 1..Len(entries) /\ Len(entries) \in Nat
    OBVIOUS
  <2> QED
    BY <2>1, FS_Interval, AccountsFinite
<1>2. \A k \in K : entries[k] \in Seq(Drafted) /\ Accepted(entries[k])
  BY DEF AllAccepted
<1>3. \A a \in Accounts, k \in K : M[a][k] \in Int /\ Col[k][a] = M[a][k]
  BY <1>2, EntryBalances
<1>4. \A a \in Accounts : Row[a] = SumOver(M[a], K)
  BY TotalIs DEF Credited
<1>5. \A k \in K : Column[k] = SumOver(Col[k], Accounts)
  BY <1>2, EntryBalances
<1>6. Table(Accounts, K, M, Col, Row, Column)
  <2> HIDE DEF M, Col, Row, Column
  <2> QED
    BY <1>3, <1>4, <1>5 DEF Table
<1>7. SumOver(Column, K) = 0
  <2>1. \A k \in K : Column[k] = 0
    OBVIOUS
  <2> HIDE DEF Column
  <2> QED
    BY <1>1, <2>1, SumOfZeros
<1>8. \A a \in Accounts : Credited(entries, a) \in Int
  <2> TAKE a \in Accounts
  <2> DEFINE F == M[a]
  <2>1. \A k \in K : F[k] \in Int
    BY <1>3
  <2>2. SumOver(F, K) \in Int
    <3> HIDE DEF F
    <3> QED
      BY <1>1, <2>1, SumTakesAny
  <2> QED
    BY <1>4, <2>2
<1>9. SumOver(Row, Accounts) = SumOver(Column, K)
  <2> HIDE DEF M, Col, Row, Column, K
  <2> QED
    BY <1>1, <1>6, SumsSwap
<1> QED
  BY <1>7, <1>8, <1>9

\* A posting that is accepted keeps the ledger balanced.
InBalance == balance \in [Accounts -> Int] /\ Total(balance) = 0

LEMMA PostBalances ==
  ASSUME InBalance, NEW entries \in Seq(Seq(Drafted)), AllAccepted(entries), Post(entries)
  PROVE  InBalance'
<1> DEFINE D == [a \in Accounts |-> Credited(entries, a)]
<1>1. (\A a \in Accounts : D[a] \in Int) /\ SumOver(D, Accounts) = 0
  BY PostingBalances
<1>2. balance' = [a \in Accounts |-> balance[a] + D[a]]
  BY DEF Post
<1> HIDE DEF D
<1>3. balance \in [Accounts -> Int] /\ SumOver(balance, Accounts) = 0
  BY TotalIs DEF InBalance
<1>4. PICK new : new = balance'
  OBVIOUS
<1>5. /\ new \in [Accounts -> Int]
      /\ \A a \in Accounts : /\ balance[a] \in Int /\ D[a] \in Int
                             /\ new[a] = 1 * balance[a] + 1 * D[a]
  BY <1>1, <1>2, <1>3, <1>4
<1>6. IsFiniteSet(Accounts) /\ 1 \in Int
  BY AccountsFinite
<1>8. SumOver(new, Accounts) = 1 * SumOver(balance, Accounts) + 1 * SumOver(D, Accounts)
  BY <1>5, <1>6, SumIsLinear
<1>7. Total(new) = SumOver(new, Accounts)
  BY <1>5, TotalIs
<1> QED
  BY <1>1, <1>3, <1>4, <1>5, <1>7, <1>8 DEF InBalance

\* A part that may be left out, and parts put together.
LEMMA WhereType ==
  ASSUME NEW T, NEW part \in Seq(T), NEW condition
  PROVE  Where(condition, part) \in Seq(T)
BY DEF Where

LEMMA ConcatType ==
  ASSUME NEW T, NEW front \in Seq(T), NEW back \in Seq(T)
  PROVE  front \o back \in Seq(T)
OBVIOUS

LEMMA DraftType ==
  ASSUME NEW account \in Accounts, NEW n \in Int
  PROVE  /\ Debit(account, n) \in Drafted /\ Credit(account, n) \in Drafted
         /\ <<Debit(account, n)>> \in Seq(Drafted) /\ <<Credit(account, n)>> \in Seq(Drafted)
<1>1. Debit(account, n) \in Drafted /\ Credit(account, n) \in Drafted
  BY DEF Debit, Credit, Drafted
<1> QED
  BY <1>1

\* The entries of a sale and of a refund are lines of amounts, whichever are left out.
LEMMA SaleEntriesDrafted ==
  ASSUME NEW sale, NEW calc, Chargeable(sale, calc)
  PROVE  SaleEntries(sale, calc) \in Seq(Seq(Drafted))
<1> DEFINE first == SaleEntry(sale, calc)
           second == CommissionEntry(calc)
           third == ProcessorEntry(sale, calc)
<1>1. /\ calc.customerPayment \in Int /\ calc.organizerProceeds \in Int
      /\ calc.processorCharge \in Int
      /\ calc.booking.net \in Int /\ calc.booking.vat \in Int
      /\ calc.commission.gross \in Int /\ calc.commission.net \in Int
      /\ calc.commission.vat \in Int
  BY DEF Chargeable
<1>2. first \in Seq(Drafted)
  <2> DEFINE a == <<Debit("CASH_MPESA_CLEARING", calc.customerPayment)>>
             b == <<Credit("ORGANIZER_PAYABLE", calc.organizerProceeds)>>
             c == Where(calc.booking.net > 0,
                        <<Credit("BOOKING_FEE_REVENUE", calc.booking.net)>>)
             d == Where(calc.booking.vat > 0,
                        <<Credit("TICKETFLOW_VAT_PAYABLE", calc.booking.vat)>>)
             e == Where(ChargedTo(sale, "CUSTOMER") > 0,
                        <<Credit("PROCESSOR_PAYABLE_CLEARING", calc.processorCharge)>>)
  <2>1. /\ a \in Seq(Drafted) /\ b \in Seq(Drafted) /\ c \in Seq(Drafted)
        /\ d \in Seq(Drafted) /\ e \in Seq(Drafted)
    BY <1>1, DraftType, WhereType DEF Accounts
  <2>2. <<Debit("CASH_MPESA_CLEARING", calc.customerPayment),
          Credit("ORGANIZER_PAYABLE", calc.organizerProceeds)>> = a \o b
    OBVIOUS
  <2>3. first = (((a \o b) \o c) \o d) \o e
    BY <2>2 DEF SaleEntry
  <2> HIDE DEF a, b, c, d, e, first
  <2>4. a \o b \in Seq(Drafted)
    BY <2>1, ConcatType
  <2>5. (a \o b) \o c \in Seq(Drafted)
    BY <2>1, <2>4, ConcatType
  <2>6. ((a \o b) \o c) \o d \in Seq(Drafted)
    BY <2>1, <2>5, ConcatType
  <2>7. (((a \o b) \o c) \o d) \o e \in Seq(Drafted)
    BY <2>1, <2>6, ConcatType
  <2> QED
    BY <2>3, <2>7
<1>3. second \in Seq(Drafted)
  <2> DEFINE a == <<Debit("ORGANIZER_PAYABLE", calc.commission.gross)>>
             b == Where(calc.commission.net > 0,
                        <<Credit("COMMISSION_REVENUE", calc.commission.net)>>)
             c == Where(calc.commission.vat > 0,
                        <<Credit("TICKETFLOW_VAT_PAYABLE", calc.commission.vat)>>)
  <2>1. a \in Seq(Drafted) /\ b \in Seq(Drafted) /\ c \in Seq(Drafted)
    BY <1>1, DraftType, WhereType DEF Accounts
  <2>2. second = (a \o b) \o c
    BY DEF CommissionEntry
  <2> HIDE DEF a, b, c, second
  <2>3. a \o b \in Seq(Drafted)
    BY <2>1, ConcatType
  <2>4. (a \o b) \o c \in Seq(Drafted)
    BY <2>1, <2>3, ConcatType
  <2> QED
    BY <2>2, <2>4
<1>4. third \in Seq(Drafted)
  <2> DEFINE bearing == IF sale.bearer = "TICKETFLOW" THEN "PAYMENT_PROCESSING_EXPENSE"
                        ELSE "ORGANIZER_PAYABLE"
  <2>1. bearing \in Accounts /\ "PROCESSOR_PAYABLE_CLEARING" \in Accounts
    BY DEF Accounts
  <2>2. third = <<Debit(bearing, calc.processorCharge),
                  Credit("PROCESSOR_PAYABLE_CLEARING", calc.processorCharge)>>
    BY DEF ProcessorEntry
  <2> HIDE DEF bearing, third
  <2>3. /\ Debit(bearing, calc.processorCharge) \in Drafted
        /\ Credit("PROCESSOR_PAYABLE_CLEARING", calc.processorCharge) \in Drafted
    BY <1>1, <2>1, DraftType
  <2> QED
    BY <2>2, <2>3
<1> DEFINE T == Seq(Drafted)
           x == <<first>>
           y == Where(calc.commission.gross > 0, <<second>>)
           z == Where(calc.processorCharge > 0 /\ sale.bearer # "CUSTOMER", <<third>>)
<1>5. SaleEntries(sale, calc) = IF calc.customerPayment <= 0 THEN <<>> ELSE (x \o y) \o z
  BY DEF SaleEntries
<1> HIDE DEF first, second, third
<1>6. x \in Seq(T) /\ y \in Seq(T) /\ z \in Seq(T)
  <2>1. <<first>> \in Seq(T) /\ <<second>> \in Seq(T) /\ <<third>> \in Seq(T)
    BY <1>2, <1>3, <1>4
  <2> QED
    BY <2>1, WhereType
<1> HIDE DEF x, y, z, T
<1>7. x \o y \in Seq(T)
  BY <1>6, ConcatType
<1>8. (x \o y) \o z \in Seq(T)
  BY <1>6, <1>7, ConcatType
<1>9. <<>> \in Seq(T)
  OBVIOUS
<1> QED
  BY <1>5, <1>8, <1>9 DEF T

LEMMA RefundEntriesDrafted ==
  ASSUME NEW calc, calc.faceValue \in Int, calc.bookingFee \in Int,
         calc.booking.net \in Int, calc.booking.vat \in Int,
         calc.commission.net \in Int, calc.commission.vat \in Int
  PROVE  RefundEntries(calc) \in Seq(Seq(Drafted))
<1> DEFINE first == RefundEntry(calc)
           second == ReversedCommissionEntry(calc)
           owed == calc.faceValue + calc.bookingFee
           residual == owed - calc.faceValue - calc.booking.net - calc.booking.vat
<1>1. owed \in Int /\ residual \in Int /\ calc.commission.net + calc.commission.vat \in Int
  OBVIOUS
<1>2. first \in Seq(Drafted)
  <2> DEFINE a == <<Debit("CUSTOMER_REFUND_PAYABLE", owed)>>
             b == <<Credit("ORGANIZER_PAYABLE", calc.faceValue)>>
             c == Where(calc.booking.net > 0,
                        <<Credit("BOOKING_FEE_REVENUE", calc.booking.net)>>)
             d == Where(calc.booking.vat > 0,
                        <<Credit("TICKETFLOW_VAT_PAYABLE", calc.booking.vat)>>)
             e == Where(residual # 0, <<Credit("CLIENT_MONEY_ORGANIZER_FUNDS", residual)>>)
  <2>1. /\ a \in Seq(Drafted) /\ b \in Seq(Drafted) /\ c \in Seq(Drafted)
        /\ d \in Seq(Drafted) /\ e \in Seq(Drafted)
    <3> HIDE DEF owed, residual
    <3> QED
      BY <1>1, DraftType, WhereType DEF Accounts
  <2>2. <<Debit("CUSTOMER_REFUND_PAYABLE", owed),
          Credit("ORGANIZER_PAYABLE", calc.faceValue)>> = a \o b
    <3> HIDE DEF owed, residual
    <3> QED
      OBVIOUS
  <2>3. first = (((a \o b) \o c) \o d) \o e
    BY <2>2 DEF RefundEntry
  <2> HIDE DEF a, b, c, d, e, first
  <2>4. a \o b \in Seq(Drafted)
    BY <2>1, ConcatType
  <2>5. (a \o b) \o c \in Seq(Drafted)
    BY <2>1, <2>4, ConcatType
  <2>6. ((a \o b) \o c) \o d \in Seq(Drafted)
    BY <2>1, <2>5, ConcatType
  <2>7. (((a \o b) \o c) \o d) \o e \in Seq(Drafted)
    BY <2>1, <2>6, ConcatType
  <2> QED
    BY <2>3, <2>7
<1>3. second \in Seq(Drafted)
  <2>1. /\ Debit("COMMISSION_REVENUE", calc.commission.net) \in Drafted
        /\ Debit("TICKETFLOW_VAT_PAYABLE", calc.commission.vat) \in Drafted
        /\ Credit("ORGANIZER_PAYABLE", calc.commission.net + calc.commission.vat) \in Drafted
    BY <1>1, DraftType DEF Accounts
  <2> QED
    BY <2>1 DEF ReversedCommissionEntry
<1> DEFINE T == Seq(Drafted)
           x == Where(calc.faceValue + calc.bookingFee > 0, <<first>>)
           y == Where(calc.commission.net > 0 \/ calc.commission.vat > 0, <<second>>)
<1>4. RefundEntries(calc) = x \o y
  BY DEF RefundEntries
<1> HIDE DEF first, second
<1>5. x \in Seq(T) /\ y \in Seq(T)
  <2>1. <<first>> \in Seq(T) /\ <<second>> \in Seq(T)
    BY <1>2, <1>3
  <2> QED
    BY <2>1, WhereType
<1> HIDE DEF x, y, T
<1>6. x \o y \in Seq(T)
  BY <1>5, ConcatType
<1> QED
  BY <1>4, <1>6 DEF T

\* What a refund that can be stored is made of.
LEMMA RefundFigures ==
  ASSUME NEW sale \in Sales, NEW rules \in VatRules, NEW charged,
         charged.booking.gross \in Nat, charged.commission.gross \in Nat,
         NEW refund, \A i \in DOMAIN sale.lines : refund.quantities[i] \in Nat,
         RefundStorable(RefundTax(sale, charged, refund, rules))
  PROVE  LET calc == RefundTax(sale, charged, refund, rules) IN
         /\ calc.faceValue \in Int /\ calc.bookingFee \in Int
         /\ calc.booking.net \in Int /\ calc.booking.vat \in Int
         /\ calc.commission.net \in Int /\ calc.commission.vat \in Int
<1> DEFINE calc == RefundTax(sale, charged, refund, rules)
           fraction == Fraction(sale, refund.quantities)
           bookingFee == Returned(charged.booking.gross, refund.bookingPolicy, fraction)
           commission == Returned(charged.commission.gross, refund.commissionPolicy, fraction)
<1>1. fraction \in 0..BPS
  BY FractionType
<1>2. /\ calc.booking = Split(bookingFee, sale.bookingFee.pricing, sale.ticketFlowRegistered,
                              rules.ticketFlow)
      /\ calc.commission = Split(commission, sale.commission.pricing,
                                 sale.ticketFlowRegistered, rules.ticketFlow)
  BY DEF RefundTax
<1>3. calc.faceValue \in Int /\ calc.bookingFee \in Int
  BY DEF RefundStorable
<1> HIDE DEF calc, fraction
<1>4. bookingFee \in 0..charged.booking.gross /\ commission \in 0..charged.commission.gross
  BY <1>1, ReturnedType
<1>5. bookingFee \in Nat /\ commission \in Nat
  BY <1>4
<1>6. sale.bookingFee \in Fees /\ sale.commission \in Fees
  BY DEF Sales
<1> HIDE DEF bookingFee, commission
<1>7. calc.booking.net \in Nat /\ calc.booking.vat \in Nat
  BY <1>2, <1>5, <1>6, FeeRefund
<1>8. calc.commission.net \in Nat /\ calc.commission.vat \in Nat
  BY <1>2, <1>5, <1>6, FeeRefund
<1> QED
  BY <1>3, <1>7, <1>8 DEF calc

\* What a request has found out when it comes to store.
BooksTypes ==
  /\ TypeOK
  /\ \A h \in Handlers : /\ pc[h] = "store_sale" => id[h] \in Orders
                         /\ pc[h] = "store_refund" => id[h] \in Refunds

LEMMA SaleStoreTyped ==
  ASSUME BooksTypes, InBalance, NEW h \in Handlers, SaleStore(h)
  PROVE  BooksTypes' /\ InBalance'
<1>1. PICK sale \in SaleInputs, rules \in RuleVersions :
        LET calc == TicketSaleTax(sale, rules)
            entries == Where(sale.posted, SaleEntries(sale, calc))
        IN /\ SaleStorable(calc)
           /\ AllAccepted(entries)
           /\ calculation' = With(calculation, id[h],
                                  [sale |-> sale, rules |-> rules, figures |-> calc])
           /\ Post(entries)
  BY DEF SaleStore
<1> DEFINE calc == TicketSaleTax(sale, rules)
           row == [sale |-> sale, rules |-> rules, figures |-> calc]
           entries == Where(sale.posted, SaleEntries(sale, calc))
<1>2. sale \in Sales
  BY TaxBooksAssumption
<1>3. entries \in Seq(Seq(Drafted))
  <2>1. Chargeable(sale, calc)
    BY <1>1, <1>2, StoredIsChargeable
  <2> HIDE DEF calc
  <2> QED
    BY <2>1, SaleEntriesDrafted, WhereType
<1>4. InBalance'
  <2>1. AllAccepted(entries) /\ Post(entries)
    BY <1>1
  <2> HIDE DEF entries
  <2> QED
    BY <1>3, <2>1, PostBalances
<1>5. calculation' = With(calculation, id[h], row)
  BY <1>1
<1>6. row.sale = sale /\ row.rules = rules
  OBVIOUS
<1> HIDE DEF row, entries, calc
<1>7. /\ pc[h] = "store_sale" /\ refundCalculation' = refundCalculation
      /\ pc' = [pc EXCEPT ![h] = "idle"] /\ id' = [id EXCEPT ![h] = Nothing]
  BY DEF SaleStore, Finish, Goto
<1>8. id[h] \in Orders /\ id[h] \notin Calculated
  BY <1>7 DEF BooksTypes, SaleStore, SaleUnique
<1>9. /\ Calculated' = Calculated \union {id[h]} /\ Refunded' = Refunded
      /\ calculation'[id[h]] = row
      /\ \A o \in Calculated : calculation'[o] = calculation[o]
  BY <1>5, <1>7, <1>8 DEF With, Calculated, Refunded
<1>10. /\ Calculated' \subseteq Orders
       /\ \A o \in Calculated' :
            calculation'[o].sale \in SaleInputs /\ calculation'[o].rules \in RuleVersions
  BY <1>6, <1>8, <1>9 DEF BooksTypes, TypeOK
<1>11. BooksTypes'
  BY <1>4, <1>7, <1>9, <1>10 DEF BooksTypes, TypeOK, InBalance
<1> QED
  BY <1>4, <1>11

LEMMA RefundStoreTyped ==
  ASSUME BooksTypes, InBalance, RowsInv, NEW h \in Handlers, RefundStore(h)
  PROVE  BooksTypes' /\ InBalance'
<1>0. PICK o \in Calculated : \E refund \in RefundRequests(calculation[o].sale) :
        /\ RefundGoesThrough(refund, RefundOf(o, refund))
        /\ refundCalculation' = With(refundCalculation, id[h],
             [order |-> o, refund |-> refund, figures |-> RefundOf(o, refund)])
        /\ Post(PostedFor(refund, RefundOf(o, refund)))
  BY DEF RefundStore
<1>1. PICK refund \in RefundRequests(calculation[o].sale) :
        /\ RefundGoesThrough(refund, RefundOf(o, refund))
        /\ refundCalculation' = With(refundCalculation, id[h],
             [order |-> o, refund |-> refund, figures |-> RefundOf(o, refund)])
        /\ Post(PostedFor(refund, RefundOf(o, refund)))
  BY <1>0
<1> DEFINE calc == RefundOf(o, refund)
           sale == calculation[o].sale
           charged == calculation[o].figures
           rules == calculation[o].rules
           row == [order |-> o, refund |-> refund, figures |-> calc]
           entries == PostedFor(refund, calc)
<1>2. sale \in Sales /\ rules \in VatRules
  BY TaxBooksAssumption DEF BooksTypes, TypeOK
<1>3. charged.booking.gross \in Nat /\ charged.commission.gross \in Nat
  BY DEF RowsInv, SaleStorable
<1>4. \A i \in DOMAIN sale.lines : refund.quantities[i] \in Nat
  BY TaxBooksAssumption DEF RefundRequests
<1>5. calc = RefundTax(sale, charged, refund, rules)
  BY DEF RefundOf, HistoricalRules
<1>6. RefundStorable(calc) /\ AllAccepted(entries) /\ Post(entries)
  BY <1>1 DEF RefundGoesThrough
<1>7. refundCalculation' = With(refundCalculation, id[h], row) /\ row.order = o
  BY <1>1
<1> HIDE DEF calc, row
<1>8. entries \in Seq(Seq(Drafted))
  <2> HIDE DEF sale, charged, rules
  <2>1. /\ calc.faceValue \in Int /\ calc.bookingFee \in Int
        /\ calc.booking.net \in Int /\ calc.booking.vat \in Int
        /\ calc.commission.net \in Int /\ calc.commission.vat \in Int
    BY <1>2, <1>3, <1>4, <1>5, <1>6, RefundFigures
  <2>2. RefundEntries(calc) \in Seq(Seq(Drafted))
    BY <2>1, RefundEntriesDrafted
  <2> QED
    BY <2>2, WhereType DEF PostedFor
<1> HIDE DEF entries
<1>9. InBalance'
  BY <1>6, <1>8, PostBalances
<1>10. /\ pc[h] = "store_refund" /\ calculation' = calculation
       /\ pc' = [pc EXCEPT ![h] = "idle"] /\ id' = [id EXCEPT ![h] = Nothing]
  BY DEF RefundStore, Finish, Goto
<1>11. id[h] \in Refunds /\ id[h] \notin Refunded
  BY <1>10 DEF BooksTypes, RefundStore, RefundUnique
<1>12. /\ Calculated' = Calculated /\ Refunded' = Refunded \union {id[h]}
       /\ refundCalculation'[id[h]] = row
       /\ \A r \in Refunded : refundCalculation'[r] = refundCalculation[r]
  BY <1>7, <1>10, <1>11 DEF With, Calculated, Refunded
<1>13. BooksTypes'
  BY <1>7, <1>9, <1>10, <1>11, <1>12 DEF BooksTypes, TypeOK, InBalance
<1> QED
  BY <1>9, <1>13

LEMMA BooksInductive == Spec => [](BooksTypes /\ InBalance)
<1>1. Init => BooksTypes /\ InBalance
  <2> SUFFICES ASSUME Init PROVE BooksTypes /\ InBalance
    OBVIOUS
  <2>1. /\ balance \in [Accounts -> Int] /\ DOMAIN balance = Accounts
        /\ \A a \in Accounts : balance[a] = 0
    BY DEF Init
  <2>2. Total(balance) = 0
    BY <2>1, AccountsFinite, SumOfZeros, TotalIs
  <2>3. Calculated = {} /\ Refunded = {}
    BY DEF Init, Calculated, Refunded
  <2> QED
    BY <2>1, <2>2, <2>3 DEF Init, BooksTypes, TypeOK, InBalance
<1>2. ASSUME BooksTypes, InBalance, RowsInv, [Next]_vars PROVE (BooksTypes /\ InBalance)'
  <2>1. CASE UNCHANGED vars
    BY <1>2, <2>1 DEF vars, BooksTypes, TypeOK, InBalance, Calculated, Refunded
  <2>2. ASSUME NEW h \in Handlers, \/ \E o \in Orders : SaleFind(h, o)
                                   \/ \E r \in Refunds : RefundFind(h, r)
                                   \/ RollBack(h)
        PROVE  (BooksTypes /\ InBalance)'
    <3>1. /\ UNCHANGED <<calculation, refundCalculation, balance>>
          /\ \E label \in {"idle", "store_sale", "store_refund"},
                subject \in Orders \union Refunds \union {Nothing} :
               /\ Goto(h, label, subject)
               /\ label = "store_sale" => subject \in Orders
               /\ label = "store_refund" => subject \in Refunds
      BY <2>2 DEF SaleFind, RefundFind, RollBack, Finish
    <3> QED
      BY <1>2, <3>1 DEF Goto, BooksTypes, TypeOK, InBalance, Calculated, Refunded
  <2>3. ASSUME NEW h \in Handlers, SaleStore(h) PROVE (BooksTypes /\ InBalance)'
    BY <1>2, <2>3, SaleStoreTyped
  <2>4. ASSUME NEW h \in Handlers, RefundStore(h) PROVE (BooksTypes /\ InBalance)'
    BY <1>2, <2>4, RefundStoreTyped
  <2> QED
    BY <1>2, <2>1, <2>2, <2>3, <2>4 DEF Next
<1> QED
  BY <1>1, <1>2, Rows, PTL DEF Spec

\* Rows hold validated inputs, refunds refer to stored sales, and balances are whole cents.
THEOREM BooksTyped == Spec => []TypeOK
<1>1. BooksTypes => TypeOK
  BY DEF BooksTypes
<1> QED
  BY <1>1, BooksInductive, PTL

\* The ledger as a whole balances after every posting, of whatever model of agency and
\* after however many refunds (TrialBalance).
THEOREM LedgerBalances == Spec => []TrialBalance
<1>1. InBalance => TrialBalance
  BY DEF InBalance, TrialBalance
<1> QED
  BY <1>1, BooksInductive, PTL

-----------------------------------------------------------------------------
(* TaxPeriods and EtimsOutbox.                                              *)

Labels == {"idle", "create", "createThenSum", "createThenAdjust", "sales", "adjust",
           "refunds", "adjustments", "write", "invoices", "returns", "compare",
           "mark", "reconcile"}
Reading == [sales : SUBSET MonthSales, refunds : SUBSET MonthSales,
            approved : SUBSET Adjustments, missing : BOOLEAN]
Period == [status : PeriodStatus, vat : Int, approved : SUBSET Adjustments]

Types ==
  /\ sold \subseteq MonthSales /\ refunded \subseteq MonthSales
  /\ period \in Period
  /\ at \in [Desk -> Labels]
  /\ seen \in [Desk -> Reading]
  /\ raced \in BOOLEAN

(* What a run that found nothing missing so far has made sure of; and while *)
(* it is about to mark, the figures are those it compared, or else another  *)
(* aggregation has been written since.                                      *)
RunInv(r) ==
  /\ at[r] \in {"returns", "compare", "mark", "reconcile"} /\ ~seen[r].missing
       => seen[r].sales \subseteq invoiced
  /\ at[r] \in {"compare", "mark", "reconcile"} /\ ~seen[r].missing
       => seen[r].refunds \subseteq credited
  /\ at[r] \in {"mark", "reconcile"}
       => ~seen[r].missing /\ (raced \/ period.vat = Vat(seen[r]))

PInv == Types /\ (\A r \in Desk : RunInv(r)) /\ ReconciledAsChecked

LEMMA NothingReadType == NothingRead \in Reading
  BY DEF NothingRead, Reading

LEMMA VatType == \A read \in Reading : Vat(read) \in Int
<1> TAKE read \in Reading
<1>1. IsFiniteSet(read.sales) /\ IsFiniteSet(read.refunds)
  BY PeriodsAssumption, FS_Subset DEF Reading
<1> QED
  BY <1>1, FS_CardinalityType DEF Vat

(* Initially nobody has read anything. *)
LEMMA PInit == PeriodsInit => PInv
<1> SUFFICES ASSUME PeriodsInit PROVE PInv
  OBVIOUS
<1>1. Types
  <2>1. period \in Period
    BY DEF PeriodsInit, Period, PeriodStatus
  <2>2. at \in [Desk -> Labels]
    BY DEF PeriodsInit, Labels
  <2>3. seen \in [Desk -> Reading]
    BY NothingReadType DEF PeriodsInit
  <2> QED
    BY <2>1, <2>2, <2>3 DEF PeriodsInit, Types
<1>2. ASSUME NEW r \in Desk PROVE RunInv(r)
  BY <1>2 DEF PeriodsInit, RunInv
<1>3. ReconciledAsChecked
  BY DEF PeriodsInit, ReconciledAsChecked
<1> QED
  BY <1>1, <1>2, <1>3 DEF PInv

(* Documents only get more, so what a run has made sure of stays true while *)
(* the books go on and it does nothing itself.                              *)
LEMMA RunKeeps ==
  ASSUME PInv, NEW r \in Desk, at'[r] = at[r], seen'[r] = seen[r],
         invoiced \subseteq invoiced', credited \subseteq credited',
         period'.vat = period.vat, raced' = raced
  PROVE  RunInv(r)'
BY DEF PInv, RunInv, Vat

LEMMA MarkKeeps ==
  ASSUME PInv, invoiced \subseteq invoiced', credited \subseteq credited',
         period' = period, raced' = raced, checked' = checked
  PROVE  ReconciledAsChecked'
BY DEF PInv, ReconciledAsChecked, Vat

(* The books go on: no request takes a step. *)
LEMMA BooksStep ==
  ASSUME PInv, sold' \subseteq MonthSales, refunded' \subseteq MonthSales,
         invoiced \subseteq invoiced', credited \subseteq credited',
         UNCHANGED <<period, at, seen, checked, raced>>
  PROVE  PInv'
<1>1. Types'
  BY DEF PInv, Types
<1>2. \A r \in Desk : RunInv(r)'
  BY RunKeeps
<1>3. ReconciledAsChecked'
  BY MarkKeeps
<1> QED
  BY <1>1, <1>2, <1>3 DEF PInv

(* One request takes a step that leaves the figures and the marks alone. *)
LEMMA DeskStep ==
  ASSUME PInv, NEW r \in Desk, NEW label \in Labels, NEW read \in Reading,
         Goes(r, label), seen' = [seen EXCEPT ![r] = read],
         sold' = sold, refunded' = refunded, invoiced' = invoiced, credited' = credited,
         period' \in Period, period'.vat = period.vat, raced' = raced,
         RunInv(r)', ReconciledAsChecked'
  PROVE  PInv'
<1>1. Types'
  BY DEF PInv, Types, Goes
<1>2. ASSUME NEW o \in Desk PROVE RunInv(o)'
  <2>1. CASE o = r
    BY <2>1
  <2>2. CASE o # r
    <3>1. at'[o] = at[o] /\ seen'[o] = seen[o]
      BY <2>2 DEF PInv, Types, Goes
    <3> QED
      BY <3>1, RunKeeps
  <2> QED
    BY <2>1, <2>2
<1> QED
  BY <1>1, <1>2 DEF PInv
(* A request that does nothing of a run is bound to nothing. *)
LEMMA Free ==
  ASSUME NEW r \in Desk, at \in [Desk -> Labels], NEW label \in Labels, Goes(r, label),
         label \notin {"returns", "compare", "mark", "reconcile"}
  PROVE  RunInv(r)'
BY DEF RunInv, Goes

(* The steps of a request outside the monthly run that read or wait. *)
LEMMA FindStep ==
  ASSUME PInv, NEW r \in Desk, NEW then \in {"idle", "sales", "adjust"}, FindPeriod(r, then)
  PROVE  PInv'
<1>1. PICK label \in Labels :
         Goes(r, label) /\ label \notin {"returns", "compare", "mark", "reconcile"}
  BY DEF FindPeriod, Creating, Labels
<1>2. seen[r] \in Reading /\ seen' = [seen EXCEPT ![r] = seen[r]] /\ period \in Period
  BY DEF PInv, Types, FindPeriod
<1>3. RunInv(r)'
  BY <1>1, Free DEF PInv, Types
<1>4. ReconciledAsChecked'
  BY MarkKeeps DEF FindPeriod, books
<1> QED
  BY <1>1, <1>2, <1>3, <1>4, DeskStep DEF FindPeriod, books

LEMMA CreateStep ==
  ASSUME PInv, NEW r \in Desk, NEW then \in {"idle", "sales", "adjust"}, CreateDraft(r, then)
  PROVE  PInv'
<1>1. PICK label \in Labels :
         Goes(r, label) /\ label \notin {"returns", "compare", "mark", "reconcile"}
  BY DEF CreateDraft, Labels
<1>2. seen[r] \in Reading /\ seen' = [seen EXCEPT ![r] = seen[r]]
  BY DEF PInv, Types, CreateDraft
<1>3. period' \in Period /\ period'.vat = period.vat
  BY DEF PInv, Types, Period, PeriodStatus, CreateDraft
<1>4. RunInv(r)'
  BY <1>1, Free DEF PInv, Types
<1>5. ReconciledAsChecked'
  <2>1. CASE UNCHANGED period
    BY <2>1, MarkKeeps DEF CreateDraft, books
  <2>2. CASE period' = [period EXCEPT !.status = "DRAFT"]
    BY <2>2 DEF PInv, Types, Period, ReconciledAsChecked
  <2> QED
    BY <2>1, <2>2 DEF CreateDraft
<1> QED
  BY <1>1, <1>2, <1>3, <1>4, <1>5, DeskStep DEF CreateDraft, books

(* The reads of an aggregation. *)
LEMMA ReadStep ==
  ASSUME PInv, NEW r \in Desk, SumSales(r) \/ SumRefunds(r) \/ ReadAdjustments(r)
  PROVE  PInv'
<1>1. PICK label \in Labels :
         Goes(r, label) /\ label \notin {"returns", "compare", "mark", "reconcile"}
  BY DEF SumSales, SumRefunds, ReadAdjustments, Labels
<1>2. PICK read \in Reading : seen' = [seen EXCEPT ![r] = read]
  <2>1. CASE SumSales(r)
    <3>1. [seen[r] EXCEPT !.sales = sold] \in Reading
      BY DEF PInv, Types, Reading
    <3> QED
      BY <2>1, <3>1 DEF SumSales
  <2>2. CASE SumRefunds(r)
    <3>1. [seen[r] EXCEPT !.refunds = refunded] \in Reading
      BY DEF PInv, Types, Reading
    <3> QED
      BY <2>2, <3>1 DEF SumRefunds
  <2>3. CASE ReadAdjustments(r)
    <3>1. [seen[r] EXCEPT !.approved = {n \in Adjustments : adjustment[n] = "approved"}] \in Reading
      BY DEF PInv, Types, Reading
    <3> QED
      BY <2>3, <3>1 DEF ReadAdjustments
  <2> QED
    BY <2>1, <2>2, <2>3
<1>3. UNCHANGED <<books, period, checked, raced>>
  BY DEF SumSales, SumRefunds, ReadAdjustments
<1>4. RunInv(r)'
  BY <1>1, Free DEF PInv, Types
<1>5. ReconciledAsChecked'
  BY <1>3, MarkKeeps DEF books
<1>6. period' \in Period /\ period'.vat = period.vat
  BY <1>3 DEF PInv, Types
<1> QED
  BY <1>1, <1>2, <1>3, <1>4, <1>5, <1>6, DeskStep DEF books

(* New figures are PREPARED, and a run that is about to mark learns of them *)
(* through raced.                                                           *)
LEMMA FiguresStep ==
  ASSUME PInv, NEW r \in Desk, WriteFigures(r)
  PROVE  PInv'
<1> USE DEF WriteFigures
<1>1. Types'
  <2>1. seen[r] \in Reading
    BY DEF PInv, Types
  <2>2. period' \in Period
    BY <2>1, VatType DEF Period, PeriodStatus, Reading
  <2>3. at' \in [Desk -> Labels]
    BY DEF PInv, Types, Goes, Labels
  <2>4. seen' \in [Desk -> Reading]
    BY NothingReadType DEF PInv, Types
  <2>5. sold' = sold /\ refunded' = refunded /\ raced' \in BOOLEAN
    BY DEF books
  <2> QED
    BY <2>2, <2>3, <2>4, <2>5 DEF PInv, Types
<1>2. ASSUME NEW o \in Desk PROVE RunInv(o)'
  <2>1. CASE o = r
    <3>1. Goes(r, "idle") /\ "idle" \in Labels /\ at \in [Desk -> Labels]
      BY DEF PInv, Types, Labels
    <3> QED
      BY <2>1, <3>1, Free
  <2>2. CASE o # r
    <3>1. at'[o] = at[o] /\ seen'[o] = seen[o] /\ invoiced' = invoiced /\ credited' = credited
      BY <2>2 DEF PInv, Types, Goes, books
    <3>2. at[o] \in {"mark", "reconcile"} => raced'
      BY DEF Marking
    <3>3. RunInv(o)
      BY DEF PInv
    <3> QED
      BY <3>1, <3>2, <3>3 DEF RunInv
  <2> QED
    BY <2>1, <2>2
<1>3. ReconciledAsChecked'
  BY DEF ReconciledAsChecked
<1> QED
  BY <1>1, <1>2, <1>3 DEF PInv

(* The steps of a run up to its mark: RunInv grows with what it reads. *)
LEMMA RunStep ==
  ASSUME PInv, NEW r \in Desk,
         ReconcilePeriod(r) \/ CheckInvoices(r) \/ CheckCreditNotes(r)
           \/ CompareVat(r) \/ FindPrepared(r)
  PROVE  PInv'
<1>1. UNCHANGED <<books, period, checked, raced>> /\ at \in [Desk -> Labels]
        /\ seen \in [Desk -> Reading] /\ seen[r] \in Reading /\ period \in Period
        /\ RunInv(r)
  BY DEF PInv, Types, ReconcilePeriod, CheckInvoices, CheckCreditNotes, CompareVat, FindPrepared
<1>2. PICK label \in Labels, read \in Reading :
         Goes(r, label) /\ seen' = [seen EXCEPT ![r] = read] /\ RunInv(r)'
  <2>1. CASE ReconcilePeriod(r)
    <3>1. [seen[r] EXCEPT !.sales = sold] \in Reading
      BY DEF PInv, Types, Reading
    <3>2. "invoices" \in Labels /\ Goes(r, "invoices")
      BY <2>1 DEF Labels, ReconcilePeriod
    <3>3. RunInv(r)'
      BY <1>1, <3>2, Free
    <3> QED
      BY <2>1, <3>1, <3>2, <3>3 DEF ReconcilePeriod
  <2>2. CASE CheckInvoices(r)
    <3> DEFINE read == [seen[r] EXCEPT !.missing = ~(seen[r].sales \subseteq invoiced)]
    <3>1. read \in Reading /\ seen' = [seen EXCEPT ![r] = read]
      BY <1>1, <2>2 DEF Reading, CheckInvoices
    <3>2. "returns" \in Labels /\ Goes(r, "returns")
      BY <2>2 DEF Labels, CheckInvoices
    <3>3. at'[r] = "returns" /\ seen'[r] = read /\ invoiced' = invoiced
      BY <1>1, <3>1, <3>2 DEF Goes, books
    <3>4. RunInv(r)'
      BY <1>1, <3>3 DEF RunInv, Reading
    <3> QED
      BY <3>1, <3>2, <3>4
  <2>3. CASE CheckCreditNotes(r)
    <3> DEFINE read == [seen[r] EXCEPT !.refunds = refunded,
                          !.missing = @ \/ ~(refunded \subseteq credited)]
    <3>1. read \in Reading /\ seen' = [seen EXCEPT ![r] = read]
      BY <1>1, <2>3 DEF PInv, Types, Reading, CheckCreditNotes
    <3>2. "compare" \in Labels /\ Goes(r, "compare")
      BY <2>3 DEF Labels, CheckCreditNotes
    <3>3. at'[r] = "compare" /\ seen'[r] = read /\ invoiced' = invoiced /\ credited' = credited
      BY <1>1, <3>1, <3>2 DEF Goes, books
    <3>4. RunInv(r)'
      BY <1>1, <2>3, <3>3 DEF RunInv, Reading, CheckCreditNotes
    <3> QED
      BY <3>1, <3>2, <3>4
  <2>4. CASE Goes(r, "idle") /\ seen' = [seen EXCEPT ![r] = NothingRead]
    <3>1. "idle" \in Labels
      BY DEF Labels
    <3>2. RunInv(r)'
      BY <1>1, <2>4, <3>1, Free
    <3> QED
      BY <2>4, <3>1, <3>2, NothingReadType
  <2>5. CASE CompareVat(r) /\ Clean(r) /\ Goes(r, "mark") /\ UNCHANGED seen
    <3>1. "mark" \in Labels /\ seen' = [seen EXCEPT ![r] = seen[r]]
      BY <1>1, <2>5 DEF Labels
    <3>2. at[r] = "compare" /\ at'[r] = "mark" /\ seen'[r] = seen[r]
            /\ ~seen[r].missing /\ period.vat = Vat(seen[r])
      BY <1>1, <2>5 DEF Goes, CompareVat, Clean, VatAgrees
    <3>3. RunInv(r)'
      BY <1>1, <3>2 DEF RunInv, Vat, books
    <3> QED
      BY <1>1, <2>5, <3>1, <3>3
  <2>6. CASE FindPrepared(r) /\ Goes(r, "reconcile") /\ UNCHANGED seen
    <3>1. "reconcile" \in Labels /\ seen' = [seen EXCEPT ![r] = seen[r]]
      BY <1>1, <2>6 DEF Labels
    <3>2. at[r] = "mark" /\ at'[r] = "reconcile" /\ seen'[r] = seen[r]
      BY <1>1, <2>6 DEF Goes, FindPrepared
    <3>3. RunInv(r)'
      BY <1>1, <3>2 DEF RunInv, Vat, books
    <3> QED
      BY <1>1, <2>6, <3>1, <3>3
  <2> QED
    BY <2>1, <2>2, <2>3, <2>4, <2>5, <2>6 DEF CompareVat, FindPrepared
<1>3. ReconciledAsChecked'
  BY <1>1, MarkKeeps DEF books
<1> QED
  BY <1>1, <1>2, <1>3, DeskStep DEF books

(* The mark copies what the run has made sure of. *)
LEMMA MarkStep ==
  ASSUME PInv, NEW r \in Desk, MarkReconciled(r)
  PROVE  PInv'
<1>1. "idle" \in Labels /\ Goes(r, "idle") /\ at \in [Desk -> Labels] /\ RunInv(r)
  BY DEF PInv, Types, Labels, MarkReconciled
<1>2. RunInv(r)'
  BY <1>1, Free
<1>3. period' \in Period /\ period'.vat = period.vat
  BY DEF PInv, Types, Period, PeriodStatus, MarkReconciled
<1>4. ReconciledAsChecked'
  BY <1>1, <1>3 DEF RunInv, ReconciledAsChecked, MarkReconciled, Vat, books
<1> QED
  BY <1>1, <1>2, <1>3, <1>4, DeskStep, NothingReadType DEF MarkReconciled, books

(* Every step keeps what a run has made sure of. *)
LEMMA PNext == PInv /\ [PeriodsNext]_periodvars => PInv'
<1> SUFFICES ASSUME PInv, [PeriodsNext]_periodvars PROVE PInv'
  OBVIOUS
<1>1. ASSUME NEW s \in MonthSales,
             RecordSale(s) \/ RecordRefund(s) \/ FileInvoice(s) \/ FileCreditNote(s)
      PROVE  PInv'
  <2>1. sold' \subseteq MonthSales /\ refunded' \subseteq MonthSales
          /\ invoiced \subseteq invoiced' /\ credited \subseteq credited'
          /\ UNCHANGED <<period, at, seen, checked, raced>>
    BY <1>1 DEF PInv, Types, RecordSale, RecordRefund, FileInvoice, FileCreditNote
  <2> QED
    BY <2>1, BooksStep
<1>2. ASSUME NEW n \in Adjustments, ApproveAdjustment(n) PROVE PInv'
  BY <1>2, BooksStep DEF PInv, Types, ApproveAdjustment
<1>3. ASSUME NEW n \in Adjustments, NEW r \in Desk, EnterAdjustment(r, n) PROVE PInv'
  <2>1. "idle" \in Labels /\ Goes(r, "idle") /\ at \in [Desk -> Labels] /\ seen[r] \in Reading
          /\ seen' = [seen EXCEPT ![r] = seen[r]] /\ period' \in Period /\ period' = period
    BY <1>3 DEF PInv, Types, Labels, EnterAdjustment
  <2>2. RunInv(r)'
    BY <2>1, Free
  <2>3. ReconciledAsChecked'
    BY <1>3, MarkKeeps DEF EnterAdjustment
  <2> QED
    BY <1>3, <2>1, <2>2, <2>3, DeskStep DEF EnterAdjustment
<1>4. CASE \E r \in Desk :
             \/ PrepareDraft(r) \/ Aggregate(r) \/ AddAdjustment(r)
             \/ \E then \in {"idle", "sales", "adjust"} : CreateDraft(r, then)
  BY <1>4, FindStep, CreateStep DEF PrepareDraft, Aggregate, AddAdjustment
<1>5. CASE \E r \in Desk : SumSales(r) \/ SumRefunds(r) \/ ReadAdjustments(r) \/ WriteFigures(r)
  BY <1>5, ReadStep, FiguresStep
<1>6. CASE \E r \in Desk : \/ ReconcilePeriod(r) \/ CheckInvoices(r) \/ CheckCreditNotes(r)
                          \/ CompareVat(r) \/ FindPrepared(r) \/ MarkReconciled(r)
  BY <1>6, RunStep, MarkStep
<1>7. CASE UNCHANGED periodvars
  BY <1>7, BooksStep DEF periodvars, books, PInv, Types
<1> QED
  BY <1>1, <1>2, <1>3, <1>4, <1>5, <1>6, <1>7 DEF PeriodsNext

(* A period that reads RECONCILED holds the VAT of what its run read, each  *)
(* with its document, unless an aggregation came between (tax-period and    *)
(* reconciliation services).                                                *)
THEOREM ReconciledSound == PeriodsSpec => []ReconciledAsChecked
<1>1. PInv => ReconciledAsChecked
  BY DEF PInv
<1> QED
  BY PInit, PNext, <1>1, PTL DEF PeriodsSpec

\* Only sales are refunded and invoiced, and only refunds credited; the status of a
\* period and its VAT keep their types (PeriodsTypeOK).
THEOREM PeriodsTyped == PeriodsSpec => []PeriodsTypeOK
<1> DEFINE Within == /\ refunded \subseteq sold /\ invoiced \subseteq sold
                     /\ credited \subseteq refunded
<1>1. PeriodsInit => Within
  BY DEF PeriodsInit
<1>2. Within /\ [PeriodsNext]_periodvars => Within'
  <2> SUFFICES ASSUME Within, [PeriodsNext]_periodvars PROVE Within'
    OBVIOUS
  <2>1. CASE UNCHANGED <<sold, refunded, invoiced, credited>>
    BY <2>1
  <2>2. CASE \E s \in MonthSales : RecordSale(s) \/ RecordRefund(s) \/ FileInvoice(s)
                                  \/ FileCreditNote(s)
    BY <2>2 DEF RecordSale, RecordRefund, FileInvoice, FileCreditNote
  <2> QED
    BY <2>1, <2>2
    DEF PeriodsNext, periodvars, books, PrepareDraft, Aggregate, AddAdjustment, FindPeriod,
        CreateDraft, EnterAdjustment, ApproveAdjustment, SumSales, SumRefunds,
        ReadAdjustments, WriteFigures, ReconcilePeriod, CheckInvoices, CheckCreditNotes,
        CompareVat, FindPrepared, MarkReconciled
<1>3. PInv /\ Within => PeriodsTypeOK
  BY DEF PInv, Types, Period, PeriodsTypeOK
<1> QED
  BY <1>1, <1>2, <1>3, PInit, PNext, PTL DEF PeriodsSpec

(***************************************************************************)
(* The outbox.                                                             *)
(***************************************************************************)
Places == {"idle", "select", "create", "block", "transmit", "record", "count", "backoff"}
Call == [at : Places, doc : Documents \cup {"none"}, adapter : Modes, found : BOOLEAN, tries : Nat]

Works(c, d) == call[c].at # "idle" /\ call[c].doc = d

OutboxTypes ==
  /\ mode \in Modes
  /\ document \in [Documents -> EtimsDocument]
  /\ call \in [Callers -> Call]
  /\ \A c \in Callers : call[c].at # "idle" => call[c].doc \in Documents
  /\ accepted \in [Documents -> Nat]

(* A document that waits has attempts left; one not disturbed has at most   *)
(* one call about it, which has transmitted nothing before it records, and  *)
(* has been transmitted only if its row says so or that call will.          *)
DocumentInv(d) ==
  /\ document[d].status = "NONE" => document[d].tries = 0
  /\ document[d].status = "PENDING_SUBMISSION" => document[d].tries < MaxTries
  /\ d \notin disturbed =>
       /\ accepted[d] <= 1
       /\ \A c, o \in Callers : Works(c, d) /\ Works(o, d) => c = o
       /\ \A c \in Callers : Works(c, d) => accepted[d] = 0 \/ call[c].at = "record"
       /\ accepted[d] = 1 => \/ document[d].status \in Transmitted
                            \/ \E c \in Callers : Works(c, d)

OInv == OutboxTypes /\ \A d \in Documents : DocumentInv(d)

LEMMA RestingType == Resting \in Call
  BY DEF Resting, Call, Places, Modes

LEMMA OInit == EtimsInit => OInv
<1> SUFFICES ASSUME EtimsInit PROVE OInv
  OBVIOUS
<1>1. document \in [Documents -> EtimsDocument]
  BY DEF EtimsInit, EtimsDocument
<1>2. OutboxTypes
  BY <1>1, RestingType DEF EtimsInit, OutboxTypes, Resting
<1>3. ASSUME NEW d \in Documents PROVE DocumentInv(d)
  BY EtimsAssumption DEF EtimsInit, DocumentInv, Works, Resting
<1> QED
  BY <1>2, <1>3 DEF OInv

(* A call that starts: about a document whose row is not transmitted, or    *)
(* about one that another call has in hand, which disturbs it.              *)
LEMMA TakeStep ==
  ASSUME OInv, NEW c \in Callers, NEW d \in Documents, Take(c, d), call[c].at = "idle",
         document[d].status \notin Transmitted
  PROVE  OInv'
<1> USE DEF OInv, OutboxTypes, Take
<1> DEFINE new == [Resting EXCEPT !.at = "select", !.doc = d, !.found = document[d].status # "NONE"]
<1>1. new \in Call /\ new.at = "select" /\ new.doc = d
  BY DEF Resting, Call, Places, Modes
<1>2. call' = [call EXCEPT ![c] = new]
  OBVIOUS
<1> HIDE DEF new
<1>3. OutboxTypes'
  BY <1>1, <1>2
<1>4. ASSUME NEW e \in Documents PROVE DocumentInv(e)'
  <2>1. DocumentInv(e) /\ accepted[e] \in Nat
    OBVIOUS
  <2>2. \A o \in Callers \ {c} : call'[o] = call[o]
    BY <1>2
  <2>3. call'[c] = new
    BY <1>2
  <2>4. CASE e # d
    <3>1. \A o \in Callers : Works(o, e)' <=> Works(o, e) /\ o # c
      BY <1>1, <2>2, <2>3, <2>4 DEF Works
    <3>2. e \notin disturbed' => e \notin disturbed
      OBVIOUS
    <3>3. ~Works(c, e)
      BY DEF Works
    <3> QED
      BY <2>1, <2>2, <3>1, <3>2, <3>3 DEF DocumentInv
  <2>5. CASE e = d
    <3>1. CASE d \in disturbed'
      BY <2>1, <2>5, <3>1 DEF DocumentInv
    <3>2. CASE d \notin disturbed'
      <4>1. d \notin disturbed /\ \A o \in Callers : ~Works(o, d)
        BY <3>2 DEF Works
      <4>2. accepted[d] = 0
        <5>1. DocumentInv(d) /\ accepted[d] \in Nat
          OBVIOUS
        <5>2. accepted[d] <= 1 /\ accepted[d] # 1
          BY <4>1, <5>1 DEF DocumentInv
        <5> QED
          BY <5>1, <5>2
      <4>3. \A o \in Callers : Works(o, d)' => o = c
        BY <2>2, <4>1 DEF Works
      <4> QED
        BY <2>1, <2>5, <4>2, <4>3 DEF DocumentInv
    <3> QED
      BY <3>1, <3>2
  <2> QED
    BY <2>4, <2>5
<1> QED
  BY <1>3, <1>4

(* A call goes on, in place, without transmitting or writing its document. *)
LEMMA MoveStep ==
  ASSUME OInv, NEW c \in Callers, NEW next \in Call, call[c].at \notin {"idle", "record"},
         call' = [call EXCEPT ![c] = next], next.at \in Places \ {"idle", "record"},
         next.doc = call[c].doc,
         UNCHANGED <<mode, document, accepted, disturbed>>
  PROVE  OInv'
<1> USE DEF OInv, OutboxTypes
<1>1. OutboxTypes'
  OBVIOUS
<1>2. ASSUME NEW d \in Documents PROVE DocumentInv(d)'
  <2>1. \A o \in Callers : Works(o, d)' <=> Works(o, d)
    BY DEF Works
  <2>2. \A o \in Callers : call'[o].at = "record" <=> call[o].at = "record"
    OBVIOUS
  <2> QED
    BY <2>1, <2>2 DEF DocumentInv
<1> QED
  BY <1>1, <1>2

(* A call that has transmitted nothing writes its document. *)
LEMMA WriteStep ==
  ASSUME OInv, NEW c \in Callers, NEW next \in Call, NEW row \in EtimsDocument,
         call[c].at \notin {"idle", "record"}, call' = [call EXCEPT ![c] = next],
         next = Resting \/ (next.at \in Places \ {"idle", "record"} /\ next.doc = call[c].doc),
         document' = [document EXCEPT ![call[c].doc] = row],
         row.status # "NONE", row.status = "PENDING_SUBMISSION" => row.tries < MaxTries,
         UNCHANGED <<mode, accepted, disturbed>>
  PROVE  OInv'
<1> USE DEF OInv, OutboxTypes
<1>1. OutboxTypes'
  BY DEF Resting
<1>2. ASSUME NEW d \in Documents PROVE DocumentInv(d)'
  <2>1. \A o \in Callers : Works(o, d)' => Works(o, d)
    BY DEF Works, Resting
  <2>2. \A o \in Callers : call'[o].at = "record" <=> call[o].at = "record"
    BY DEF Resting
  <2>3. DocumentInv(d) /\ accepted[d] \in Nat
    OBVIOUS
  <2>4. CASE d = call[c].doc
    <3>1. Works(c, d) /\ document'[d] = row
      BY <2>4 DEF Works
    <3>2. d \notin disturbed => accepted[d] = 0
      BY <2>3, <3>1 DEF DocumentInv
    <3> QED
      BY <2>1, <2>2, <2>3, <3>1, <3>2 DEF DocumentInv
  <2>5. CASE d # call[c].doc
    <3>1. document'[d] = document[d] /\ \A o \in Callers : Works(o, d)' <=> Works(o, d)
      BY <2>5 DEF Works, Resting
    <3> QED
      BY <2>1, <2>2, <2>3, <3>1 DEF DocumentInv
  <2> QED
    BY <2>4, <2>5
<1> QED
  BY <1>1, <1>2

(* A call ends and leaves its document alone; or the process stops, and     *)
(* disturbs what was about to be recorded.                                  *)
LEMMA EndStep ==
  ASSUME OInv, NEW ended \in SUBSET Callers,
         call' = [c \in Callers |-> IF c \in ended THEN Resting ELSE call[c]],
         UNCHANGED <<mode, document, accepted>>,
         disturbed \subseteq disturbed',
         \A c \in ended : call[c].at = "record" => call[c].doc \in disturbed'
  PROVE  OInv'
<1> USE DEF OInv, OutboxTypes
<1>1. OutboxTypes'
  BY RestingType DEF Resting
<1>2. ASSUME NEW d \in Documents PROVE DocumentInv(d)'
  <2>1. \A c \in Callers : Works(c, d)' <=> Works(c, d) /\ c \notin ended
    BY DEF Works, Resting
  <2>2. \A c \in Callers : Works(c, d)' => (call'[c].at = "record" <=> call[c].at = "record")
    BY DEF Works, Resting
  <2>3. DocumentInv(d) /\ accepted[d] \in Nat
    OBVIOUS
  <2>4. CASE d \in disturbed'
    BY <2>3, <2>4 DEF DocumentInv
  <2>5. CASE d \notin disturbed'
    <3>1. \A c \in Callers : Works(c, d) /\ accepted[d] = 1 => c \notin ended
      BY <2>3, <2>5 DEF DocumentInv, Works
    <3> QED
      BY <2>1, <2>2, <2>3, <2>5, <3>1 DEF DocumentInv
  <2> QED
    BY <2>4, <2>5
<1> QED
  BY <1>1, <1>2

(* The sandbox takes a document: the only call about it is to record that.  *)
LEMMA AcceptStep ==
  ASSUME OInv, NEW c \in Callers, SandboxAccepts(c)
  PROVE  OInv'
<1> USE DEF OInv, OutboxTypes, SandboxAccepts
<1> DEFINE next == [call[c] EXCEPT !.at = "record"]
<1>1. next \in Call /\ next.at = "record" /\ next.doc = call[c].doc
  BY DEF Call, Places
<1>2. call' = [call EXCEPT ![c] = next]
  OBVIOUS
<1> HIDE DEF next
<1>3. OutboxTypes'
  BY <1>1, <1>2
<1>4. ASSUME NEW d \in Documents PROVE DocumentInv(d)'
  <2>1. \A o \in Callers : Works(o, d)' <=> Works(o, d)
    BY <1>1, <1>2 DEF Works
  <2>2. \A o \in Callers \ {c} : call'[o] = call[o]
    BY <1>2
  <2>3. DocumentInv(d) /\ accepted[d] \in Nat
    OBVIOUS
  <2>4. CASE d = call[c].doc
    <3>1. Works(c, d) /\ call'[c].at = "record" /\ accepted'[d] = accepted[d] + 1
      BY <1>1, <1>2, <2>4 DEF Works
    <3>2. d \notin disturbed => accepted[d] = 0
      BY <2>3, <3>1 DEF DocumentInv
    <3> QED
      BY <2>1, <2>3, <3>1, <3>2 DEF DocumentInv
  <2>5. CASE d # call[c].doc
    <3>1. accepted'[d] = accepted[d] /\ ~Works(c, d)
      BY <2>5 DEF Works
    <3> QED
      BY <2>1, <2>2, <2>3, <3>1 DEF DocumentInv
  <2> QED
    BY <2>4, <2>5
<1> QED
  BY <1>3, <1>4

(* The answer is recorded, and the row says transmitted. *)
LEMMA RecordStep ==
  ASSUME OInv, NEW c \in Callers, RecordAnswer(c)
  PROVE  OInv'
<1> USE DEF OInv, OutboxTypes, RecordAnswer
<1> DEFINE row == [status |-> "SANDBOX_SIMULATED", tries |-> document[call[c].doc].tries + 1,
                   nextAttempt |-> "null"]
<1>1. row \in EtimsDocument /\ row.status \in Transmitted
        /\ row.status \notin {"NONE", "PENDING_SUBMISSION"}
  BY DEF EtimsDocument, Transmitted
<1>2. document' = [document EXCEPT ![call[c].doc] = row]
  OBVIOUS
<1> HIDE DEF row
<1>3. OutboxTypes'
  BY <1>1, <1>2, RestingType DEF Resting
<1>4. ASSUME NEW d \in Documents PROVE DocumentInv(d)'
  <2>1. \A o \in Callers : Works(o, d)' <=> Works(o, d) /\ o # c
    BY DEF Works, Resting
  <2>2. \A o \in Callers \ {c} : call'[o] = call[o]
    OBVIOUS
  <2>3. DocumentInv(d) /\ accepted[d] \in Nat
    OBVIOUS
  <2>4. CASE d = call[c].doc
    <3>1. Works(c, d) /\ document'[d] = row
      BY <1>2, <2>4 DEF Works
    <3> QED
      BY <1>1, <2>1, <2>2, <2>3, <3>1 DEF DocumentInv
  <2>5. CASE d # call[c].doc
    <3>1. document'[d] = document[d] /\ ~Works(c, d)
      BY <1>2, <2>5 DEF Works
    <3> QED
      BY <2>1, <2>2, <2>3, <3>1 DEF DocumentInv
  <2> QED
    BY <2>4, <2>5
<1> QED
  BY <1>3, <1>4

(* The write of the answer fails: the document is disturbed. *)
LEMMA LoseStep ==
  ASSUME OInv, NEW c \in Callers, RecordFails(c)
  PROVE  OInv'
<1> USE DEF OInv, OutboxTypes, RecordFails
<1> DEFINE next == [call[c] EXCEPT !.at = "count"]
<1>1. next \in Call /\ next.at = "count" /\ next.doc = call[c].doc
  BY DEF Call, Places
<1>2. call' = [call EXCEPT ![c] = next]
  OBVIOUS
<1> HIDE DEF next
<1>3. OutboxTypes'
  BY <1>1, <1>2
<1>4. ASSUME NEW d \in Documents PROVE DocumentInv(d)'
  <2>1. \A o \in Callers : Works(o, d)' <=> Works(o, d)
    BY <1>1, <1>2 DEF Works
  <2>2. \A o \in Callers \ {c} : call'[o] = call[o]
    BY <1>2
  <2>3. d \notin disturbed' => ~Works(c, d) /\ d \notin disturbed
    BY DEF Works
  <2> QED
    BY <2>1, <2>2, <2>3 DEF DocumentInv
<1> QED
  BY <1>3, <1>4

(* The back-off of a document passes. *)
LEMMA PassStep ==
  ASSUME OInv, NEW d \in Documents, BackoffPasses(d)
  PROVE  OInv'
<1> USE DEF OInv, OutboxTypes, BackoffPasses
<1> DEFINE row == [document[d] EXCEPT !.nextAttempt = "passed"]
<1>1. row \in EtimsDocument /\ row.status = document[d].status /\ row.tries = document[d].tries
  BY DEF EtimsDocument
<1>2. document' = [document EXCEPT ![d] = row]
  OBVIOUS
<1> HIDE DEF row
<1>3. OutboxTypes'
  BY <1>1, <1>2
<1>4. ASSUME NEW e \in Documents PROVE DocumentInv(e)'
  <2>1. document'[e].status = document[e].status /\ document'[e].tries = document[e].tries
    BY <1>1, <1>2
  <2>2. \A o \in Callers : Works(o, e)' <=> Works(o, e)
    BY DEF Works
  <2> QED
    BY <2>1, <2>2 DEF DocumentInv
<1> QED
  BY <1>3, <1>4

(* What is said of documents and calls does not depend on the list, the     *)
(* counters and the mode.                                                   *)
LEMMA SameStep ==
  ASSUME OInv, UNCHANGED <<document, call, accepted, disturbed>>, mode' \in Modes
  PROVE  OInv'
BY DEF OInv, OutboxTypes, DocumentInv, Works

(* A call about its document goes on. *)
LEMMA GoesOn ==
  ASSUME OInv, NEW c \in Callers, CallGoesOn(c)
  PROVE  OInv'
<1>1. /\ call \in [Callers -> Call] /\ call[c] \in Call /\ mode \in Modes
      /\ call[c].at # "idle" => call[c].doc \in Documents
      /\ document \in [Documents -> EtimsDocument]
  BY DEF OInv, OutboxTypes
<1>2. CASE SelectAdapter(c)
  <2> DEFINE place == CASE ~call[c].found -> "create"
                        [] mode = "DISABLED" -> "block"
                        [] OTHER -> "transmit"
             next == [call[c] EXCEPT !.adapter = mode, !.at = place]
  <2>1. place \in Places \ {"idle", "record"}
    BY DEF Places
  <2>2. call' = [call EXCEPT ![c].adapter = mode, ![c].at = place] /\ call[c].at = "select"
    BY <1>2 DEF SelectAdapter
  <2> HIDE DEF place
  <2>3. next \in Call /\ next.at \in Places \ {"idle", "record"} /\ next.doc = call[c].doc
    BY <1>1, <2>1 DEF Call
  <2>4. call' = [call EXCEPT ![c] = next]
    BY <1>1, <2>2
  <2>5. UNCHANGED <<mode, document, accepted, disturbed>>
    BY <1>2 DEF SelectAdapter
  <2> HIDE DEF next
  <2> QED
    BY <2>2, <2>5, <2>3, <2>4, MoveStep
<1>3. CASE CreateDocument(c)
  <2>1. call[c].at = "create" /\ UNCHANGED <<mode, accepted, disturbed>>
    BY <1>3 DEF CreateDocument
  <2>2. CASE /\ document[call[c].doc].status = "NONE"
             /\ document' = [document EXCEPT ![call[c].doc].status = "PENDING_SUBMISSION"]
             /\ call' = [call EXCEPT ![c].at = IF call[c].adapter = "DISABLED"
                                              THEN "block" ELSE "transmit"]
    <3> DEFINE next == [call[c] EXCEPT !.at = IF call[c].adapter = "DISABLED"
                                             THEN "block" ELSE "transmit"]
               row == [document[call[c].doc] EXCEPT !.status = "PENDING_SUBMISSION"]
    <3>1. next \in Call /\ next.at \in Places \ {"idle", "record"} /\ next.doc = call[c].doc
      BY <1>1 DEF Call, Places
    <3>2. document[call[c].doc] \in EtimsDocument /\ document[call[c].doc].tries = 0
      BY <1>1, <2>1, <2>2 DEF OInv, DocumentInv
    <3>3. row \in EtimsDocument /\ row.status = "PENDING_SUBMISSION" /\ row.tries < MaxTries
      BY <3>2, EtimsAssumption DEF EtimsDocument, Retryable
    <3>4. call' = [call EXCEPT ![c] = next] /\ document' = [document EXCEPT ![call[c].doc] = row]
      BY <1>1, <2>2
    <3> HIDE DEF next, row
    <3> QED
      BY <2>1, <3>1, <3>3, <3>4, WriteStep
  <2>3. CASE call' = [call EXCEPT ![c] = Resting] /\ UNCHANGED document
    <3>1. call' = [o \in Callers |-> IF o \in {c} THEN Resting ELSE call[o]]
      BY <1>1, <2>3
    <3> QED
      BY <2>1, <2>3, <3>1, EndStep
  <2> QED
    BY <1>3, <2>2, <2>3 DEF CreateDocument
<1>4. CASE BlockDocument(c)
  <2> DEFINE row == [document[call[c].doc] EXCEPT !.status = "PENDING_CONFIGURATION"]
  <2>1. document[call[c].doc] \in EtimsDocument
    BY <1>1, <1>4 DEF BlockDocument
  <2>2. row \in EtimsDocument /\ row.status = "PENDING_CONFIGURATION"
    BY <2>1 DEF EtimsDocument, Retryable
  <2>3. /\ call' = [call EXCEPT ![c] = Resting] /\ call[c].at = "block"
        /\ document' = [document EXCEPT ![call[c].doc] = row]
        /\ UNCHANGED <<mode, accepted, disturbed>>
    BY <1>1, <1>4 DEF BlockDocument
  <2> HIDE DEF row
  <2> QED
    BY <2>2, <2>3, RestingType, WriteStep
<1>5. CASE ProductionRefuses(c)
  <2> DEFINE next == [call[c] EXCEPT !.at = "count"]
  <2>1. next \in Call /\ next.at \in Places \ {"idle", "record"} /\ next.doc = call[c].doc
    BY <1>1 DEF Call, Places
  <2>2. call' = [call EXCEPT ![c] = next] /\ call[c].at \notin {"idle", "record"}
    BY <1>1, <1>5 DEF ProductionRefuses
  <2>3. UNCHANGED <<mode, document, accepted, disturbed>>
    BY <1>5 DEF ProductionRefuses
  <2> HIDE DEF next
  <2> QED
    BY <2>1, <2>2, <2>3, MoveStep
<1>6. CASE CountAttempts(c)
  <2> DEFINE next == [call[c] EXCEPT !.at = "backoff", !.tries = document[call[c].doc].tries + 1]
  <2>1. document[call[c].doc] \in EtimsDocument
    BY <1>1, <1>6 DEF CountAttempts
  <2>2. document[call[c].doc].tries + 1 \in Nat
    BY <2>1 DEF EtimsDocument
  <2>3. next \in Call /\ next.at \in Places \ {"idle", "record"} /\ next.doc = call[c].doc
    BY <1>1, <2>2 DEF Call, Places
  <2>4. call' = [call EXCEPT ![c] = next] /\ call[c].at \notin {"idle", "record"}
    BY <1>1, <1>6 DEF CountAttempts
  <2>5. UNCHANGED <<mode, document, accepted, disturbed>>
    BY <1>6 DEF CountAttempts
  <2> HIDE DEF next
  <2> QED
    BY <2>3, <2>4, <2>5, MoveStep
<1>7. CASE BackOff(c)
  <2> DEFINE row == IF call[c].tries >= MaxTries
               THEN [status |-> "REQUIRES_REVIEW", tries |-> call[c].tries,
                     nextAttempt |-> "null"]
               ELSE [status |-> "PENDING_SUBMISSION", tries |-> call[c].tries,
                     nextAttempt |-> "ahead"]
  <2>1. call[c].tries \in Nat
    BY <1>1 DEF Call
  <2>2. /\ row \in EtimsDocument /\ row.status # "NONE"
        /\ row.status = "PENDING_SUBMISSION" => row.tries < MaxTries
    BY <2>1, EtimsAssumption DEF EtimsDocument, Retryable
  <2>3. /\ call' = [call EXCEPT ![c] = Resting] /\ call[c].at = "backoff"
        /\ document' = [document EXCEPT ![call[c].doc] = row]
        /\ UNCHANGED <<mode, accepted, disturbed>>
    BY <1>7 DEF BackOff
  <2> HIDE DEF row
  <2> QED
    BY <2>2, <2>3, RestingType, WriteStep
<1> QED
  BY <1>2, <1>3, <1>4, <1>5, <1>6, <1>7, AcceptStep, RecordStep DEF CallGoesOn

LEMMA ONext == OInv /\ [EtimsNext]_etimsvars => OInv'
<1> SUFFICES ASSUME OInv, [EtimsNext]_etimsvars PROVE OInv'
  OBVIOUS
<1>1. ASSUME NEW c \in Clerks, NEW d \in Documents, Asks(c), Take(c, d),
             document[d].status \notin Transmitted
      PROVE  OInv'
  BY <1>1, TakeStep DEF Asks, Callers
<1>2. \A d : MayRetry(d) => document[d].status \notin Transmitted
  BY DEF MayRetry, Retryable, Transmitted
<1>3. ASSUME NEW c \in Clerks, NEW d \in Documents,
             \/ d \in Invoices /\ SubmitInvoice(c, d)
             \/ d \in CreditNotes /\ SubmitCreditNote(c, d)
             \/ RetryDocument(c, d)
      PROVE  OInv'
  BY <1>1, <1>2, <1>3 DEF SubmitInvoice, SubmitCreditNote, RetryDocument
<1>4. CASE \E c \in Callers : CallGoesOn(c) \/ RecordFails(c)
  BY <1>4, GoesOn, LoseStep
<1>5. ASSUME NEW d \in Documents, RetryListed(d) PROVE OInv'
  <2>1. CASE MayRetry(d)
    <3>1. Take(Outbox, d) /\ call[Outbox].at = "idle" /\ Outbox \in Callers
      BY <1>5, <2>1 DEF RetryListed, Callers
    <3> QED
      BY <1>2, <2>1, <3>1, TakeStep
  <2>2. CASE ~MayRetry(d)
    BY <1>5, <2>2, SameStep DEF RetryListed, OInv, OutboxTypes
  <2> QED
    BY <2>1, <2>2
<1>6. CASE \E d \in Documents : BackoffPasses(d)
  BY <1>6, PassStep
<1>7. CASE ListRetryable
  BY <1>7, SameStep DEF ListRetryable, OInv, OutboxTypes
<1>8. CASE EtimsStops
  <2>1. call' = [c \in Callers |-> IF c \in Callers THEN Resting ELSE call[c]]
    BY <1>8 DEF EtimsStops
  <2>2. \A c \in Callers : call[c].at = "record" => call[c].doc \in disturbed'
    BY <1>8 DEF EtimsStops, OInv, OutboxTypes
  <2>3. UNCHANGED <<mode, document, accepted>> /\ disturbed \subseteq disturbed'
    BY <1>8 DEF EtimsStops
  <2> QED
    BY <2>1, <2>2, <2>3, EndStep
<1>9. CASE \E m \in Modes : SwitchMode(m)
  BY <1>9, SameStep DEF SwitchMode
<1>10. CASE UNCHANGED etimsvars
  BY <1>10, SameStep DEF etimsvars, OInv, OutboxTypes
<1>11. Documents = Invoices \cup CreditNotes
  BY DEF Documents
<1> QED
  BY <1>3, <1>4, <1>5, <1>6, <1>7, <1>8, <1>9, <1>10, <1>11 DEF EtimsNext

(* A document is transmitted once unless calls about it overlapped or an    *)
(* answer was lost, and one that waits is one the job will list             *)
(* (etims-document service and the outbox job of tax-jobs).                 *)
THEOREM OutboxSound == EtimsSpec => []OutboxDelivers
<1>1. OInv => OutboxDelivers
  <2> SUFFICES ASSUME OInv, NEW d \in Documents
               PROVE  /\ accepted[d] > 1 => d \in disturbed
                      /\ Waiting(d) => \/ MayList(d)
                                       \/ document[d].nextAttempt = "ahead"
                                            /\ document[d].tries < MaxTries
    BY DEF OutboxDelivers
  <2>1. DocumentInv(d) /\ accepted[d] \in Nat /\ document[d] \in EtimsDocument
    BY DEF OInv, OutboxTypes
  <2>2. accepted[d] > 1 => d \in disturbed
    BY <2>1 DEF DocumentInv
  <2>3. document[d].nextAttempt \in {"null", "ahead", "passed"}
    BY <2>1 DEF EtimsDocument
  <2> QED
    BY <2>1, <2>2, <2>3 DEF DocumentInv, Waiting, MayList
<1> QED
  BY OInit, ONext, <1>1, PTL DEF EtimsSpec

\* Rows, calls and counts keep their types; what is listed and what is disturbed are
\* documents (EtimsTypeOK).
THEOREM OutboxTyped == EtimsSpec => []EtimsTypeOK
<1> DEFINE Known == listed \subseteq Documents /\ disturbed \subseteq Documents
<1>1. EtimsInit => Known
  BY DEF EtimsInit
<1>2. OInv /\ Known /\ [EtimsNext]_etimsvars => Known'
  <2> SUFFICES ASSUME OInv, Known, [EtimsNext]_etimsvars PROVE Known'
    OBVIOUS
  <2>1. \A c \in Callers : call[c].at # "idle" => call[c].doc \in Documents
    BY DEF OInv, OutboxTypes
  <2>2. ASSUME NEW c, NEW d \in Documents, listed' \subseteq listed, Take(c, d) PROVE Known'
    BY <2>2 DEF Take
  <2>3. ASSUME NEW c \in Clerks, NEW d \in Documents,
               \/ d \in Invoices /\ SubmitInvoice(c, d)
               \/ d \in CreditNotes /\ SubmitCreditNote(c, d)
               \/ RetryDocument(c, d)
        PROVE  Known'
    BY <2>2, <2>3 DEF SubmitInvoice, SubmitCreditNote, RetryDocument, Asks
  <2>4. CASE \E d \in Documents : RetryListed(d)
    BY <2>2, <2>4 DEF RetryListed
  <2>5. CASE \E c \in Callers : RecordFails(c)
    BY <2>1, <2>5 DEF RecordFails
  <2>6. CASE ListRetryable \/ EtimsStops
    BY <2>6 DEF ListRetryable, EtimsStops
  <2>7. CASE UNCHANGED <<listed, disturbed>>
    BY <2>7
  <2>8. CASE \E c \in Callers : CallGoesOn(c)
    BY <2>7, <2>8 DEF CallGoesOn, SelectAdapter, CreateDocument, BlockDocument, SandboxAccepts,
                      ProductionRefuses, RecordAnswer, CountAttempts, BackOff
  <2>9. CASE \/ \E d \in Documents : BackoffPasses(d)
             \/ \E m \in Modes : SwitchMode(m)
             \/ UNCHANGED etimsvars
    BY <2>7, <2>9 DEF BackoffPasses, SwitchMode, etimsvars
  <2>10. Documents = Invoices \cup CreditNotes
    BY DEF Documents
  <2> QED
    BY <2>3, <2>4, <2>5, <2>6, <2>8, <2>9, <2>10 DEF EtimsNext
<1>3. OInv /\ Known => EtimsTypeOK
  BY DEF OInv, OutboxTypes, EtimsTypeOK
<1> QED
  BY <1>1, <1>2, <1>3, OInit, ONext, PTL DEF EtimsSpec
=============================================================================
