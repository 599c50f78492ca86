------------------------------- MODULE MCStock -------------------------------
(* Who gets the last ticket, and the buyer's way to it, on small instances: *)
(* the orders and payments at the backend, the pages a buyer books on, and  *)
(* the screen that shows the payment.  Each models of the others what it    *)
(* sees of them and they share no state, so a behaviour of all is their     *)
(* behaviours interleaved and satisfies the properties of each when they    *)
(* do: one run explores them side by side, and "part" says which one moves. *)
EXTENDS MCCheckout, StockLedger, Booking, PayScreen

CONSTANTS e1, e2, q1, q2

VARIABLE part

stockvars == <<ledger, booking, pvars, part>>

MCTierEvent == q1 :> e1 @@ q2 :> e2
MCRoom == q1 :> 2 @@ q2 :> 1

StockInit ==
  /\ LedgerInit /\ BookingInit /\ PayInit
  /\ part \in {"backend", "booking", "screen"}

(* Sales go on: what their end does is explored with one order.             *)
StockNext ==
  \/ part = "backend" /\ LedgerNext /\ onSale' /\ UNCHANGED <<booking, pvars, part>>
  \/ part = "booking" /\ BookingNext /\ UNCHANGED <<ledger, pvars, part>>
  \/ part = "screen" /\ PayNext /\ UNCHANGED <<ledger, booking, part>>

(* Only the screen's requests and timers are fair, when it is what moves.   *)
ScreenFairness ==
  \A t \in Windows :
    /\ WF_pvars(part = "screen" /\ Answered(t))
    /\ WF_pvars(part = "screen" /\ Heeds(t))
    /\ WF_pvars(part = "screen" /\ CeilingReached(t))

StockSpec == StockInit /\ [][StockNext]_stockvars /\ ScreenFairness
=============================================================================
