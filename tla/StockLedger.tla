---------------------------- MODULE StockLedger ----------------------------
(***************************************************************************)
(* What TicketType.quantitySold owes to the orders.  create, markPaid,     *)
(* markFailed and reopenForRetry move an order's status and its stock in   *)
(* statements of their own, with other handlers of the same order in       *)
(* between; the ledger says which statements those are where the two part, *)
(* and that they part nowhere else.                                        *)
(***************************************************************************)
EXTENDS Checkout

VARIABLE mishaps   \* history: how the counter and the orders have parted so far

\* Statements whose handler has stock in hand: taken for a status it has yet to write,
\* or due to be given back for one it has written.
InHand == {"reopen_set", "paid_late", "release"}

\* What the counter should show for orders of these statuses and for stock in hand.
Owed(statuses) == [o \in Orders |-> IF orderStatus[o] \in statuses THEN Qty[o] ELSE 0]
Load == [w \in Workers |-> IF pc[w] \in InHand THEN Qty[ctx[w].order] ELSE 0]
Tally(F, S) == MapThenSumSet(LAMBDA x : F[x], S)
Due(statuses) == Tally(Owed(statuses), Orders) + Tally(Load, Workers)

\* markPaid read the order PENDING and writes PAID after markFailed has claimed the
\* order, whose stock goes back: a PAID order without any.
Strips(w) == /\ pc[w] = "paid_set" /\ pc'[w] = "issue_read"
             /\ orderStatus[ctx[w].order] = "FAILED"

\* markPaid or reopenForRetry took stock for an order it had read FAILED and finds it
\* holding stock by then: it holds it twice.
Doubles(w) == /\ pc[w] \in {"reopen_set", "paid_late"}
              /\ pc'[w] \in {"create_payment", "issue_read"}
              /\ orderStatus[ctx[w].order] \in {"PENDING", "PAID"}

\* A restart while stock is in hand: it is neither given back nor any order's.
Strands == crashes' > crashes /\ \E w \in Workers : pc[w] \in InHand

LedgerInit == Init /\ mishaps = {}
LedgerNext ==
  /\ Next
  /\ mishaps' = mishaps
       \union (IF \E w \in Workers : Strips(w) THEN {"stripped"} ELSE {})
       \union (IF Strands \/ \E w \in Workers : Doubles(w) THEN {"surplus"} ELSE {})
ledger == <<vars, mishaps>>
LedgerSpec == LedgerInit /\ [][LedgerNext]_ledger

-----------------------------------------------------------------------------
(* Properties. *)

\* The counter agrees with the orders at every moment of every interleaving.
\*   1. No stock is given back that an order still counts on: whichever callbacks,
\*      polls, sweeps and retries report failures of an order, restarts included, the
\*      counter covers every PENDING order (markFailed's claim).
\*   2. It covers the PAID ones as well, unless a failure was claimed between markPaid's
\*      read and its write.
\*   3. It counts nothing else, unless a handler wrote over a status that had changed
\*      since it was read or a restart caught stock in hand: what fails gives its stock
\*      back, once.
StockAccounted ==
  /\ quantitySold >= Due({"PENDING"})
  /\ "stripped" \notin mishaps => quantitySold >= Due({"PENDING", "PAID"})
  /\ "surplus" \notin mishaps => quantitySold <= Due({"PENDING", "PAID"})
=============================================================================
