----------------------------- MODULE PayScreen -----------------------------
(***************************************************************************)
(* Paying an order in the browser: the checkout page and the payment       *)
(* screen app/checkout/[orderId]/payment/page.tsx with lib/payment-flow.ts, *)
(* against the three endpoints they call.                                  *)
(*                                                                         *)
(* The screen is a projection of a payment it learns about by polling.     *)
(* What it knows may be old: an answer is computed by the backend, travels, *)
(* and is applied to a screen that has moved on; the connection may break; *)
(* the tab may be closed, reloaded, or reach the page twice.  The backend  *)
(* is the one of Checkout seen from outside: an order, its payments, and   *)
(* the stages they go through.                                             *)
(***************************************************************************)
EXTENDS Naturals

CONSTANTS
    Windows,    \* the tabs in which the order is open
    Declined,   \* bound: how the customer's refusal of a prompt may be told
    MaxPay      \* bound: payments created for the order

ASSUME PayAssumption == MaxPay \in Nat \ {0} /\ Declined \subseteq {"CANCELLED", "FAILED"}

VARIABLES
    paid,       \* backend: the order is PAID
    pay,        \* backend: the stage of each payment, "none" before it exists
    at,         \* per window: the page
    key,        \* per window: sessionStorage holds the number confirmed at checkout
    shown,      \* per window: the payment the screen follows, 0 if none yet
    cache,      \* per window: the stage last heard of each payment (react-query)
    order,      \* per window: the order's status last heard
    ask,        \* per window: the request the screen waits for, and its answer
    poll,       \* per window: the status answer on its way
    hold,       \* per window: the check-your-phone timer: "unset", "running", "elapsed",
                \* or "spent": cleared by a retry and not started again
    late,       \* per window: pollCeilingHit
    error       \* per window: initError

pvars == <<paid, pay, at, key, shown, cache, order, ask, poll, hold, late, error>>
backend == <<paid, pay>>
network == <<ask, poll>>
screen == <<shown, hold, late, error>>

Pay == 1..MaxPay
FinalStages == {"SUCCESS", "CANCELLED", "FAILED", "EXPIRED"}
OpenStages == {"INITIATED", "AWAITING_CUSTOMER", "VERIFYING"}
Stages == FinalStages \cup OpenStages
Silent == [kind |-> "none"]
View(p) == [kind |-> "view", id |-> p, stage |-> pay[p]]

Existing == {p \in Pay : pay[p] # "none"}
Latest == IF Existing = {} THEN 0 ELSE CHOOSE p \in Existing : \A q \in Existing : q <= p
Accepted(stage) == stage \notin {"none", "INITIATED"}

-----------------------------------------------------------------------------
(* The backend. *)

(* A payment moves on by callback, sweep, poll or retry; only the first    *)
(* outcome counts, except that a success is honoured after a failure.      *)
(* The order is marked PAID some time after the payment that paid for it.  *)
MovesTo(stage) ==
    CASE stage = "INITIATED" -> {"AWAITING_CUSTOMER", "FAILED"}
      [] stage = "AWAITING_CUSTOMER" -> {"VERIFYING", "SUCCESS", "EXPIRED"} \cup Declined
      [] stage = "VERIFYING" -> {"AWAITING_CUSTOMER", "SUCCESS", "EXPIRED"} \cup Declined
      [] stage \in {"CANCELLED", "FAILED", "EXPIRED"} -> {"SUCCESS"}
      [] OTHER -> {}

PaymentMoves(p) ==
    /\ \E s \in MovesTo(pay[p]) : pay' = [pay EXCEPT ![p] = s]
    /\ UNCHANGED <<paid, at, key, cache, order, network, screen>>

OrderPaid ==
    /\ ~paid
    /\ \E p \in Pay : pay[p] = "SUCCESS"
    /\ paid' = TRUE
    /\ UNCHANGED <<pay, at, key, cache, order, network, screen>>

(* POST stk-push, one request of the order at a time.  It is refused for a *)
(* paid order; an open payment is handed back, or retired when the prompt  *)
(* is dead; then a new payment, which fails when no prompt can be sent.    *)
Refused == [kind |-> "refused"]
Row(rows, answer) == [pay |-> rows, answer |-> answer]

Initiate ==
    IF paid THEN {Row(pay, Refused)}
    ELSE {Row(pay, View(p)) : p \in {q \in Existing : pay[q] \in OpenStages}} \cup
         IF Latest = MaxPay THEN {Row(pay, Refused)}
         ELSE LET retired == [q \in Pay |-> IF pay[q] \in OpenStages THEN "EXPIRED" ELSE pay[q]]
                  sent == [kind |-> "view", id |-> Latest + 1, stage |-> "AWAITING_CUSTOMER"]
              IN {Row([retired EXCEPT ![Latest + 1] = "AWAITING_CUSTOMER"], sent),
                  Row([retired EXCEPT ![Latest + 1] = "FAILED"], Refused)}

ServePush(t) ==
    /\ ask[t].kind = "push"
    /\ \E r \in Initiate : pay' = r.pay /\ ask' = [ask EXCEPT ![t] = r.answer]
    /\ UNCHANGED <<paid, at, key, cache, order, poll, screen>>

(* GET payments of the order, newest first. *)
ServeAdopt(t) ==
    /\ ask[t].kind = "adopt"
    /\ ask' = [ask EXCEPT ![t] = [kind |-> "latest", id |-> Latest,
                                  stage |-> IF Latest = 0 THEN "none" ELSE pay[Latest]]]
    /\ UNCHANGED <<backend, at, key, cache, order, poll, screen>>

-----------------------------------------------------------------------------
(* lib/payment-flow.ts: the stage heard, as the state of the screen. *)

FlowStateForAny(stage, elapsed) ==
    CASE stage = "SUCCESS" -> "SUCCESS"
      [] stage = "CANCELLED" -> "CANCELLED"
      [] stage = "FAILED" -> "FAILED"
      [] stage = "EXPIRED" -> "TIMEOUT"
      [] stage = "VERIFYING" -> "SUCCESS"
      [] stage = "AWAITING_CUSTOMER" -> IF elapsed THEN "WAITING_FOR_CONFIRMATION" ELSE "STK_SENT"
      [] OTHER -> "INITIALIZING"

FlowStateFor(stage, elapsed) ==
    CASE stage = "SUCCESS" -> "SUCCESS"
      [] stage = "CANCELLED" -> "CANCELLED"
      [] stage = "FAILED" -> "FAILED"
      [] stage = "EXPIRED" -> "TIMEOUT"
      [] stage = "VERIFYING" -> "VERIFYING"
      [] stage = "AWAITING_CUSTOMER" -> IF elapsed THEN "WAITING_FOR_CONFIRMATION" ELSE "STK_SENT"
      [] OTHER -> "INITIALIZING"

Status(t) == IF shown[t] = 0 THEN "none" ELSE cache[t][shown[t]]

(* The one state the screen renders: the failure to send first, then an    *)
(* outcome of the payment, then the ceiling.                               *)
ScreenState(t) ==
    IF error[t] THEN "FAILED"
    ELSE IF Status(t) \in FinalStages THEN FlowStateFor(Status(t), TRUE)
    ELSE IF late[t] THEN "TIMEOUT"
    ELSE FlowStateFor(Status(t), hold[t] = "elapsed")

FinalFlowStates == {"SUCCESS", "CANCELLED", "FAILED", "TIMEOUT"}

(* What the tab shows: the payment screen renders one state and nothing    *)
(* else; the checkout page the order once it is heard of, as a form to pay *)
(* by or as the confirmation with the tickets.                             *)
Screen(t) == IF at[t] = "payment" THEN ScreenState(t) ELSE "none"
PayForm(t) == at[t] = "checkout" /\ order[t] = "PENDING"
Confirmed(t) == at[t] = "checkout" /\ order[t] = "PAID"

(* The retry button, disabled while a request is being sent. *)
OffersRetry(t) ==
    /\ Screen(t) \in FinalFlowStates \ {"SUCCESS"}
    /\ ask[t].kind \notin {"push", "view", "refused"}

-----------------------------------------------------------------------------
(* The checkout page. *)

(* A page of the tab is left.  What is on its way to it is not heard; a    *)
(* push request that was sent is still served, before any later one of the *)
(* order (withOrderLock), or lost.                                         *)
Leave(t) ==
    /\ pay' \in {pay} \cup IF ask[t].kind = "push" THEN {r.pay : r \in Initiate} ELSE {}
    /\ poll' = [poll EXCEPT ![t] = Silent]
    /\ shown' = [shown EXCEPT ![t] = 0]
    /\ hold' = [hold EXCEPT ![t] = "unset"]
    /\ late' = [late EXCEPT ![t] = FALSE]
    /\ error' = [error EXCEPT ![t] = FALSE]

ToCheckout(t) ==
    /\ Leave(t)
    /\ at' = [at EXCEPT ![t] = "checkout"]
    /\ ask' = [ask EXCEPT ![t] = Silent]

(* By link, back button or redirect; what was heard of the order is still  *)
(* cached.                                                                 *)
OpenCheckout(t) ==
    /\ at[t] \in {"closed", "payment"}
    /\ ToCheckout(t)
    /\ UNCHANGED <<paid, key, cache, order>>

LoadOrder(t) ==
    /\ at[t] = "checkout"
    /\ order' = [order EXCEPT ![t] = IF paid THEN "PAID" ELSE "PENDING"]
    /\ UNCHANGED <<backend, at, key, cache, network, screen>>

(* Boot of the payment screen: send the prompt if this tab holds the       *)
(* number, else adopt the payment there is.                                *)
Boot(t) ==
    /\ Leave(t)
    /\ at' = [at EXCEPT ![t] = "payment"]
    /\ ask' = [ask EXCEPT ![t] = [kind |-> IF key'[t] THEN "push" ELSE "adopt"]]

(* Pay: the number travels in sessionStorage, which may refuse it. *)
StartPayment(t) ==
    /\ PayForm(t)
    /\ \/ key' = [key EXCEPT ![t] = TRUE]
       \/ UNCHANGED key
    /\ Boot(t)
    /\ UNCHANGED <<paid, cache, order>>

(* A reload of the screen, or a restored tab: sessionStorage stays, the    *)
(* query cache does not.                                                   *)
Refresh(t) ==
    /\ at[t] = "payment"
    /\ UNCHANGED key
    /\ Boot(t)
    /\ cache' = [cache EXCEPT ![t] = [p \in Pay |-> "none"]]
    /\ order' = [order EXCEPT ![t] = "none"]
    /\ UNCHANGED paid

(* A closed tab loses what it cached; restored, it may hold the number.    *)
Close(t) ==
    /\ at[t] # "closed"
    /\ Leave(t)
    /\ at' = [at EXCEPT ![t] = "closed"]
    /\ ask' = [ask EXCEPT ![t] = Silent]
    /\ \E kept \in {key[t], FALSE} : key' = [key EXCEPT ![t] = kept]
    /\ cache' = [cache EXCEPT ![t] = [p \in Pay |-> "none"]]
    /\ order' = [order EXCEPT ![t] = "none"]
    /\ UNCHANGED paid

-----------------------------------------------------------------------------
(* The payment screen. *)

Heard(t, p, stage) == cache' = [cache EXCEPT ![t][p] = stage]

(* The prompt was accepted: the screen follows that payment, and the time  *)
(* to look at the handset begins.                                          *)
PushAnswered(t) ==
    /\ ask[t].kind = "view"
    /\ ask' = [ask EXCEPT ![t] = Silent]
    /\ shown' = [shown EXCEPT ![t] = ask[t].id]
    /\ Heard(t, ask[t].id, ask[t].stage)
    /\ hold' = [hold EXCEPT ![t] = IF Accepted(ask[t].stage) THEN "running" ELSE @]
    /\ UNCHANGED <<backend, at, key, order, poll, late, error>>

(* Refused, or the connection broke, perhaps after the prompt was sent. *)
PushFailed(t) ==
    /\ ask[t].kind \in {"push", "refused", "view"}
    /\ ask' = [ask EXCEPT ![t] = Silent]
    /\ error' = [error EXCEPT ![t] = TRUE]
    /\ UNCHANGED <<backend, at, key, cache, order, poll, shown, hold, late>>

Adopted(t) ==
    /\ ask[t].kind = "latest" /\ ask[t].id # 0
    /\ ask' = [ask EXCEPT ![t] = Silent]
    /\ shown' = [shown EXCEPT ![t] = ask[t].id]
    /\ hold' = [hold EXCEPT ![t] = IF Accepted(ask[t].stage) THEN "elapsed" ELSE @]
    /\ UNCHANGED <<backend, at, key, cache, order, poll, late, error>>

(* No payment, or none to be heard of: back to checkout. *)
NothingToAdopt(t) ==
    /\ \/ ask[t].kind = "latest" /\ ask[t].id = 0
       \/ ask[t].kind = "adopt"
    /\ ToCheckout(t)
    /\ UNCHANGED <<paid, key, cache, order>>

(* The status query: at every refetch while the ceiling is not reached,    *)
(* every three seconds while the payment is open.                          *)
PollServed(t) ==
    /\ at[t] = "payment" /\ shown[t] # 0 /\ ~late[t]
    /\ poll[t].kind = "none"
    /\ poll' = [poll EXCEPT ![t] = View(shown[t])]
    /\ UNCHANGED <<backend, at, key, cache, order, ask, screen>>

PollHeard(t) ==
    /\ poll[t].kind = "view"
    /\ Heard(t, poll[t].id, poll[t].stage)
    /\ hold' = [hold EXCEPT ![t] = IF @ = "unset" /\ Accepted(poll[t].stage) THEN "running" ELSE @]
    /\ poll' = [poll EXCEPT ![t] = Silent]
    /\ UNCHANGED <<backend, at, key, order, ask, shown, late, error>>

PollLost(t) ==
    /\ poll[t].kind = "view"
    /\ poll' = [poll EXCEPT ![t] = Silent]
    /\ UNCHANGED <<backend, at, key, cache, order, ask, screen>>

HoldElapses(t) ==
    /\ at[t] = "payment" /\ hold[t] = "running"
    /\ hold' = [hold EXCEPT ![t] = "elapsed"]
    /\ UNCHANGED <<backend, at, key, cache, order, network, shown, late, error>>

(* Four minutes after the attempt began, whatever the backend says. *)
CeilingOnlyAfterAnswer(t) ==
    /\ at[t] = "payment" /\ ~late[t]
    /\ Status(t) \in OpenStages
    /\ late' = [late EXCEPT ![t] = TRUE]
    /\ UNCHANGED <<backend, at, key, cache, order, network, shown, hold, error>>

CeilingReached(t) ==
    /\ at[t] = "payment" /\ ~late[t]
    /\ shown[t] # 0 /\ Status(t) \notin FinalStages
    /\ late' = [late EXCEPT ![t] = TRUE]
    /\ UNCHANGED <<backend, at, key, cache, order, network, shown, hold, error>>

(* Success: the number is forgotten, the order is asked for again, and the *)
(* checkout page takes over, which is told afresh.                         *)
HandOver(t) ==
    /\ at[t] = "payment" /\ Status(t) = "SUCCESS"
    /\ key' = [key EXCEPT ![t] = FALSE]
    /\ order' = [order EXCEPT ![t] = IF paid THEN "PAID" ELSE "PENDING"]
    /\ ToCheckout(t)
    /\ UNCHANGED <<paid, cache>>

(* Try again, with the number; without it the button leads back to the     *)
(* checkout page (OpenCheckout).                                           *)
HandleRetry(t) ==
    /\ OffersRetry(t)
    /\ key[t]
    /\ ask' = [ask EXCEPT ![t] = [kind |-> "push"]]
    /\ error' = [error EXCEPT ![t] = FALSE]
    /\ late' = [late EXCEPT ![t] = FALSE]
    /\ hold' = [hold EXCEPT ![t] = IF @ = "elapsed" THEN "spent" ELSE @]
    /\ UNCHANGED <<backend, at, key, cache, order, poll, shown>>

-----------------------------------------------------------------------------
PayInit ==
    /\ paid = FALSE
    /\ pay = [p \in Pay |-> "none"]
    /\ at = [t \in Windows |-> "closed"]
    /\ key = [t \in Windows |-> FALSE]
    /\ shown = [t \in Windows |-> 0]
    /\ cache = [t \in Windows |-> [p \in Pay |-> "none"]]
    /\ order = [t \in Windows |-> "none"]
    /\ ask = [t \in Windows |-> Silent] /\ poll = [t \in Windows |-> Silent]
    /\ hold = [t \in Windows |-> "unset"]
    /\ late = [t \in Windows |-> FALSE] /\ error = [t \in Windows |-> FALSE]

Answered(t) == ServePush(t) \/ ServeAdopt(t)
Heeds(t) == PushAnswered(t) \/ PushFailed(t) \/ Adopted(t) \/ NothingToAdopt(t)

PayNext ==
    \/ \E p \in Pay : PaymentMoves(p)
    \/ OrderPaid
    \/ \E t \in Windows :
        \/ Answered(t) \/ Heeds(t)
        \/ OpenCheckout(t) \/ LoadOrder(t) \/ StartPayment(t) \/ Refresh(t) \/ Close(t)
        \/ PollServed(t) \/ PollHeard(t) \/ PollLost(t)
        \/ HoldElapses(t) \/ CeilingReached(t) \/ HandOver(t) \/ HandleRetry(t)

PaySpec == PayInit /\ [][PayNext]_pvars

(* Requests are answered or break, and the timers of an open page fire.    *)
(* Nothing is assumed of the backend's payment, of the polls or of the     *)
(* buyer.                                                                  *)
PayFairness ==
    \A t \in Windows :
        /\ WF_pvars(Answered(t)) /\ WF_pvars(Heeds(t))
        /\ WF_pvars(CeilingReached(t))

PayFairSpec == PaySpec /\ PayFairness

-----------------------------------------------------------------------------
PayScreenTypeOK ==
    /\ paid \in BOOLEAN
    /\ pay \in [Pay -> Stages \cup {"none"}]
    /\ at \in [Windows -> {"closed", "checkout", "payment"}]
    /\ key \in [Windows -> BOOLEAN]
    /\ shown \in [Windows -> Pay \cup {0}]
    /\ cache \in [Windows -> [Pay -> Stages \cup {"none"}]]
    /\ order \in [Windows -> {"none", "PENDING", "PAID"}]
    /\ \A t \in Windows :
        /\ ask[t].kind \in {"none", "push", "adopt", "view", "refused", "latest"}
        /\ poll[t].kind \in {"none", "view"}
    /\ hold \in [Windows -> {"unset", "running", "elapsed", "spent"}]
    /\ late \in [Windows -> BOOLEAN] /\ error \in [Windows -> BOOLEAN]

(* The screen says the payment succeeded only when the payment it follows  *)
(* has, and the confirmation page is shown only for an order that is PAID, *)
(* however old the answers they were drawn from ("conflating them is how a *)
(* screen ends up claiming a payment succeeded while it is still pending", *)
(* lib/payment-flow.ts).                                                   *)
NoFalseSuccess ==
    \A t \in Windows :
        /\ Screen(t) = "SUCCESS" => pay[shown[t]] = "SUCCESS"
        /\ Confirmed(t) => paid

(* A buyer on the payment screen is always led to an outcome or away from  *)
(* it, even when the backend never answers again ("a way out instead of an *)
(* endless spinner", POLL_CEILING_MS), unless they reload it for ever,     *)
(* which starts the attempt over.                                          *)
ScreenEnds ==
    \A t \in Windows :
        \/ []<>(Screen(t) \in FinalFlowStates \cup {"none"})
        \/ []<><<Refresh(t)>>_pvars
=============================================================================
