------------------------------ MODULE Checkout ------------------------------
(***************************************************************************)
(* Orders, ticket stock, M-Pesa payments and ticket issue: the handlers of *)
(* orders.service.ts, payments.service.ts, payment-reconciliation and the  *)
(* ticket recovery of payment-monitor, interleaved at every await that     *)
(* separates two database statements or a statement and a Daraja call.     *)
(*                                                                         *)
(* A worker is one request, callback or sweep step in flight.  Its pc names *)
(* the statement it will run next and its ctx holds the local variables    *)
(* that statement reads, among them the copy of the payment row taken when *)
(* the handler started, which may be stale by the time it is used.         *)
(***************************************************************************)
EXTENDS Integers, FiniteSets, FiniteSetsExt

CONSTANTS
  Orders,           \* orders buyers may place, all for one ticket tier
  NoOrder,          \* not an order: the order of an idle worker or unused payment
  Workers,          \* handlers that may be in flight at the same time
  Qty,              \* tickets each order asks for
  Capacity,         \* TicketType.quantity
  MaxPayments,      \* bound: payment rows ever created
  MaxAttempts,      \* bound: payment rows created for one order
  MaxCrashes,       \* bound: process restarts
  MaxAge,           \* bound: ages are not told apart beyond this
  Declines,         \* the statuses Daraja declines with in this instance
  ConfirmCallbacks, \* no callback token, or query confirmation is switched on
  QueryAfter, NoIdLimit, Validity, Deadline, HardExpiry \* timing knobs, in ages

Payments == 1..MaxPayments
Failures == {"FAILED", "CANCELLED", "EXPIRED"}
Outcomes == Failures \union {"SUCCESS"}

ASSUME CheckoutAssumption ==
  /\ NoOrder \notin Orders
  /\ Capacity \in Nat
  /\ Qty \in [Orders -> Nat \ {0}]
  /\ {MaxPayments, MaxAttempts, MaxCrashes, MaxAge} \subseteq Nat
  /\ {QueryAfter, NoIdLimit, Validity, Deadline, HardExpiry} \subseteq Nat
  /\ Declines \subseteq Failures
  /\ ConfirmCallbacks \in BOOLEAN

VARIABLES
  onSale,            \* the event is PUBLISHED, in the future and salesEnabled
  quantitySold,      \* TicketType.quantitySold
  orderStatus,       \* Order.status, or NONE before the order exists
  made,              \* payment rows created so far: they are 1..made, in order
  orderOf,           \* Payment.orderId
  paymentStatus,     \* Payment.status, or NONE before the row exists
  checkoutRequestId, \* whether Payment.checkoutRequestId is set
  isVerifying,       \* Payment.isVerifying
  age,               \* time since Payment.createdAt
  tickets,           \* sets of tickets issued to each order
  commission,        \* orders with a PlatformCommission row
  alerted,           \* orders with a PAYMENT_DOUBLE_CHARGE alert
  flagged,           \* orders with a COMMISSION_MISSING alert
  notices,           \* payments with a queued PAYMENT_FAILED_NOTICE job
  prompt,            \* Safaricom's side of each STK push
  pc,                \* what each worker does next
  ctx,               \* each worker's local variables
  crashes            \* restarts so far

orderVars == <<onSale, quantitySold, orderStatus, tickets, commission>>
rowVars == <<made, orderOf, paymentStatus, checkoutRequestId>>
outVars == <<alerted, flagged, notices>>
workerVars == <<pc, ctx>>
vars == <<orderVars, rowVars, isVerifying, age, outVars, prompt, workerVars, crashes>>

Ops == {"none", "create", "initiate", "callback", "reconcile", "recover"}
Labels == {"idle", "create_reserve", "find", "query", "succ_claim", "check_other",
           "paid_read", "paid_reserve", "paid_late", "paid_set", "issue_read", "issue",
           "fail_claim", "giveup_claim", "order_fail", "release", "reopen_read",
           "reopen_check", "reopen_take", "reopen_set", "create_payment", "push",
           "push_save", "push_fail", "cb_confirm", "cb_apply"}
PaymentStatus == {"NONE", "PENDING"} \union Outcomes
OrderStatus == {"NONE", "PENDING", "PAID", "FAILED"}
Prompts == {"none", "open"} \union Outcomes
Context == [op : Ops, order : Orders \union {NoOrder}, payment : Payments \union {0},
            seenStatus : PaymentStatus, seenId : BOOLEAN, seenVerifying : BOOLEAN,
            outcome : Outcomes \union {"none"}]

Idle == [op |-> "none", order |-> NoOrder, payment |-> 0, seenStatus |-> "NONE",
         seenId |-> FALSE, seenVerifying |-> FALSE, outcome |-> "none"]

Init ==
  /\ onSale = TRUE
  /\ quantitySold = 0
  /\ orderStatus = [o \in Orders |-> "NONE"]
  /\ made = 0
  /\ orderOf = [p \in Payments |-> NoOrder]
  /\ paymentStatus = [p \in Payments |-> "NONE"]
  /\ checkoutRequestId = [p \in Payments |-> FALSE]
  /\ isVerifying = [p \in Payments |-> FALSE]
  /\ age = [p \in Payments |-> 0]
  /\ tickets = [o \in Orders |-> 0]
  /\ commission = {}
  /\ alerted = {}
  /\ flagged = {}
  /\ notices = {}
  /\ prompt = [p \in Payments |-> "none"]
  /\ pc = [w \in Workers |-> "idle"]
  /\ ctx = [w \in Workers |-> Idle]
  /\ crashes = 0

-----------------------------------------------------------------------------
(* Control of one worker. *)

Goto(w, label) == /\ pc' = [pc EXCEPT ![w] = label]
                  /\ UNCHANGED ctx
GotoWith(w, label, c) == /\ pc' = [pc EXCEPT ![w] = label]
                         /\ ctx' = [ctx EXCEPT ![w] = c]
Finish(w) == GotoWith(w, "idle", Idle)

\* The local variables of a handler that has just begun work on order o.
Begin(o, operation) == [Idle EXCEPT !.op = operation, !.order = o]

\* Settling a payment ends the handler, except inside an initiation, which goes
\* on to reopen the order once the payment it found is no longer PENDING.
Return(w) == IF ctx[w].op = "initiate"
             THEN GotoWith(w, "reopen_read", Begin(ctx[w].order, "initiate"))
             ELSE Finish(w)

\* applyOutcome: on to markPaymentSuccess or markPaymentUnsuccessful.
Settle(w, result) ==
  GotoWith(w, IF result = "SUCCESS" THEN "succ_claim" ELSE "fail_claim",
           [Begin(ctx[w].order, ctx[w].op) EXCEPT !.payment = ctx[w].payment,
                                                  !.outcome = result])

\* The handler's own copy of payment row p.
Snapshot(c, p) == [c EXCEPT !.payment = p, !.seenStatus = paymentStatus[p],
                            !.seenId = checkoutRequestId[p],
                            !.seenVerifying = isVerifying[p]]

InFlight(o, operation) == \E w \in Workers : ctx[w].op = operation /\ ctx[w].order = o

SetStatus(p, status) == /\ paymentStatus' = [paymentStatus EXCEPT ![p] = status]
                        /\ UNCHANGED <<made, orderOf, checkoutRequestId>>

-----------------------------------------------------------------------------
(* OrdersService.create: one transaction, READ COMMITTED.  Its availability *)
(* check and its increment are two statements.                              *)

Available(o) == Capacity - quantitySold >= Qty[o]

CreateCheck(w, o) ==
  /\ pc[w] = "idle"
  /\ orderStatus[o] = "NONE"
  /\ ~InFlight(o, "create")
  /\ onSale
  /\ Available(o)
  /\ GotoWith(w, "create_reserve", Begin(o, "create"))
  /\ UNCHANGED <<orderVars, rowVars, isVerifying, age, outVars, prompt, crashes>>

CreateReserve(w) ==
  /\ pc[w] = "create_reserve"
  /\ quantitySold' = quantitySold + Qty[ctx[w].order]
  /\ orderStatus' = [orderStatus EXCEPT ![ctx[w].order] = "PENDING"]
  /\ Finish(w)
  /\ UNCHANGED <<onSale, tickets, commission, rowVars, isVerifying, age, outVars,
                 prompt, crashes>>

-----------------------------------------------------------------------------
(* PaymentsService.performInitiation, under the per-order lock of this      *)
(* process: a second initiation of the same order waits for the first.      *)

\* Mutant: the per-order lock is gone.
InitiateUnlocked(w, o) ==
  /\ pc[w] = "idle"
  /\ orderStatus[o] \in {"PENDING", "FAILED"}
  /\ Cardinality({p \in Payments : orderOf[p] = o}) < MaxAttempts
  /\ made + Cardinality({v \in Workers : ctx[v].op = "initiate"}) < MaxPayments
  /\ GotoWith(w, "find", Begin(o, "initiate"))
  /\ UNCHANGED <<orderVars, rowVars, isVerifying, age, outVars, prompt, crashes>>

InitiateStart(w, o) ==
  /\ pc[w] = "idle"
  /\ orderStatus[o] \in {"PENDING", "FAILED"}
  /\ ~InFlight(o, "initiate")
  /\ Cardinality({p \in Payments : orderOf[p] = o}) < MaxAttempts
  /\ made + Cardinality({v \in Workers : ctx[v].op = "initiate"}) < MaxPayments
  /\ GotoWith(w, "find", Begin(o, "initiate"))
  /\ UNCHANGED <<orderVars, rowVars, isVerifying, age, outVars, prompt, crashes>>

PendingPayments(o) == {p \in Payments : orderOf[p] = o /\ paymentStatus[p] = "PENDING"}

FindExisting(w) ==
  /\ pc[w] = "find"
  /\ \/ /\ PendingPayments(ctx[w].order) = {}
        /\ Goto(w, "reopen_read")
     \/ \E p \in PendingPayments(ctx[w].order) :
          /\ \A q \in PendingPayments(ctx[w].order) : q <= p
          /\ GotoWith(w, "query", Snapshot(ctx[w], p))
  /\ UNCHANGED <<orderVars, rowVars, isVerifying, age, outVars, prompt, crashes>>

CreatePayment(w) ==
  /\ pc[w] = "create_payment"
  /\ made < MaxPayments
  /\ made' = made + 1
  /\ orderOf' = [orderOf EXCEPT ![made + 1] = ctx[w].order]
  /\ paymentStatus' = [paymentStatus EXCEPT ![made + 1] = "PENDING"]
  /\ GotoWith(w, "push", [ctx[w] EXCEPT !.payment = made + 1])
  /\ UNCHANGED <<orderVars, checkoutRequestId, isVerifying, age, outVars, prompt, crashes>>

\* MpesaService.initiateStkPush.  Daraja may take the request and answer, never
\* take it, or take it and have its answer lost on the way back.
Push(w) ==
  /\ pc[w] = "push"
  /\ \/ /\ prompt' = [prompt EXCEPT ![ctx[w].payment] = "open"]
        /\ Goto(w, "push_save")
     \/ /\ prompt' = [prompt EXCEPT ![ctx[w].payment] = "open"]
        /\ Goto(w, "push_fail")
     \/ /\ UNCHANGED prompt
        /\ Goto(w, "push_fail")
  /\ UNCHANGED <<orderVars, rowVars, isVerifying, age, outVars, crashes>>

PushSave(w) ==
  /\ pc[w] = "push_save"
  /\ checkoutRequestId' = [checkoutRequestId EXCEPT ![ctx[w].payment] = TRUE]
  /\ Finish(w)
  /\ UNCHANGED <<orderVars, made, orderOf, paymentStatus, isVerifying, age, outVars,
                 prompt, crashes>>

\* The order stays PENDING and keeps its stock.
PushFail(w) ==
  /\ pc[w] = "push_fail"
  /\ SetStatus(ctx[w].payment, "FAILED")
  /\ Finish(w)
  /\ UNCHANGED <<orderVars, isVerifying, age, outVars, prompt, crashes>>

-----------------------------------------------------------------------------
(* OrdersService.reopenForRetry and its reserveItems transaction.           *)

ReopenRead(w) ==
  /\ pc[w] = "reopen_read"
  /\ CASE orderStatus[ctx[w].order] = "PENDING" -> Goto(w, "create_payment")
       [] orderStatus[ctx[w].order] = "FAILED" /\ onSale -> Goto(w, "reopen_check")
       [] OTHER -> Finish(w)
  /\ UNCHANGED <<orderVars, rowVars, isVerifying, age, outVars, prompt, crashes>>

ReopenCheck(w) ==
  /\ pc[w] = "reopen_check"
  /\ IF Available(ctx[w].order) THEN Goto(w, "reopen_take") ELSE Finish(w)
  /\ UNCHANGED <<orderVars, rowVars, isVerifying, age, outVars, prompt, crashes>>

ReopenTake(w) ==
  /\ pc[w] = "reopen_take"
  /\ quantitySold' = quantitySold + Qty[ctx[w].order]
  /\ Goto(w, "reopen_set")
  /\ UNCHANGED <<onSale, orderStatus, tickets, commission, rowVars, isVerifying, age,
                 outVars, prompt, crashes>>

\* Unconditional: whatever the order has become since ReopenRead is overwritten.
ReopenSet(w) ==
  /\ pc[w] = "reopen_set"
  /\ orderStatus' = [orderStatus EXCEPT ![ctx[w].order] = "PENDING"]
  /\ Goto(w, "create_payment")
  /\ UNCHANGED <<onSale, quantitySold, tickets, commission, rowVars, isVerifying, age,
                 outVars, prompt, crashes>>

-----------------------------------------------------------------------------
(* PaymentsService.reconcile: called by the 30 s sweep, by getStatus when a *)
(* buyer's screen polls, and by performInitiation.                          *)

ReconcileStart(w, p) ==
  /\ pc[w] = "idle"
  /\ paymentStatus[p] = "PENDING"
  /\ GotoWith(w, "query", Snapshot(Begin(orderOf[p], "reconcile"), p))
  /\ UNCHANGED <<orderVars, rowVars, isVerifying, age, outVars, prompt, crashes>>

\* Mutant: a prompt is superseded without waiting for its validity to pass.
SupersedeAtOnce(w, verifying) ==
  IF ctx[w].op = "initiate" /\ ~verifying THEN Settle(w, "EXPIRED") ELSE Finish(w)

\* reconcile returns a PENDING payment.  Only an initiation does more with it:
\* canSupersede retires a prompt that outlived its validity.
StillPending(w, verifying) ==
  IF ctx[w].op = "initiate" /\ ~verifying /\ age[ctx[w].payment] > Validity
  THEN Settle(w, "EXPIRED")
  ELSE Finish(w)

\* Mutant: a payment Safaricom never accepted is waited for indefinitely.
QueryNoIdWaits(w) ==
  /\ pc[w] = "query"
  /\ ~ctx[w].seenId
  /\ StillPending(w, ctx[w].seenVerifying)
  /\ UNCHANGED <<orderVars, rowVars, isVerifying, age, outVars, prompt, crashes>>

\* No CheckoutRequestID in the snapshot: nothing to ask Daraja about.
QueryNoId(w) ==
  /\ pc[w] = "query"
  /\ ~ctx[w].seenId
  /\ IF age[ctx[w].payment] > NoIdLimit THEN Goto(w, "giveup_claim")
                                        ELSE StillPending(w, ctx[w].seenVerifying)
  /\ UNCHANGED <<orderVars, rowVars, isVerifying, age, outVars, prompt, crashes>>

\* Too young to ask, or asked less than queryIntervalMs ago (a free choice).
QueryTooSoon(w) ==
  /\ pc[w] = "query"
  /\ ctx[w].seenId
  /\ StillPending(w, ctx[w].seenVerifying)
  /\ UNCHANGED <<orderVars, rowVars, isVerifying, age, outVars, prompt, crashes>>

\* What queryStkStatus can report for payment p at this moment.
QueryResults(p) == {"UNAVAILABLE"} \union
                   (IF prompt[p] = "open" THEN {"PROCESSING"} ELSE {prompt[p]} \intersect Outcomes)

\* The answer and the row update that records the poll.
Query(w) ==
  LET p == ctx[w].payment IN
  /\ pc[w] = "query"
  /\ ctx[w].seenId
  /\ age[p] >= QueryAfter
  /\ \E result \in QueryResults(p) :
       LET verifying == result = "PROCESSING" \/ ctx[w].seenVerifying
           overdue == \/ result = "UNAVAILABLE" /\ age[p] > HardExpiry
                      \/ result = "PROCESSING" /\ age[p] > Deadline
       IN /\ isVerifying' = [isVerifying EXCEPT ![p] = verifying]
          /\ CASE overdue -> Settle(w, "EXPIRED")
               [] result \in Outcomes -> Settle(w, result)
               [] OTHER -> StillPending(w, verifying)
  /\ UNCHANGED <<orderVars, rowVars, age, outVars, prompt, crashes>>

-----------------------------------------------------------------------------
(* PaymentsService.markPaymentSuccess, OrdersService.markPaid and           *)
(* TicketsService.generateForOrder.                                         *)

ClaimSuccess(w) ==
  LET p == ctx[w].payment IN
  /\ pc[w] = "succ_claim"
  /\ \/ /\ paymentStatus[p] # "SUCCESS"
        /\ SetStatus(p, "SUCCESS")
        /\ isVerifying' = [isVerifying EXCEPT ![p] = FALSE]
        /\ Goto(w, "check_other")
     \/ /\ paymentStatus[p] = "SUCCESS"
        /\ Return(w)
        /\ UNCHANGED <<rowVars, isVerifying>>
  /\ UNCHANGED <<orderVars, age, outVars, prompt, crashes>>

\* Mutant: only payments made after this one are looked at.
LaterSuccess(o, p) ==
  \E q \in Payments : q > p /\ orderOf[q] = o /\ paymentStatus[q] = "SUCCESS"

OtherSuccess(o, p) == \E q \in Payments \ {p} : orderOf[q] = o /\ paymentStatus[q] = "SUCCESS"

CheckOther(w) ==
  LET o == ctx[w].order IN
  /\ pc[w] = "check_other"
  /\ alerted' = IF OtherSuccess(o, ctx[w].payment) THEN alerted \union {o} ELSE alerted
  /\ Goto(w, "paid_read")
  /\ UNCHANGED <<orderVars, rowVars, isVerifying, age, flagged, notices, prompt,
                 crashes>>

\* Mutant: a success that comes after the order failed is dropped.
MarkPaidOnTime(w) ==
  /\ pc[w] = "paid_read"
  /\ CASE orderStatus[ctx[w].order] = "PAID" -> Goto(w, "issue_read")
       [] orderStatus[ctx[w].order] = "PENDING" -> Goto(w, "paid_set")
       [] OTHER -> Finish(w)
  /\ UNCHANGED <<orderVars, rowVars, isVerifying, age, outVars, prompt, crashes>>

MarkPaidRead(w) ==
  /\ pc[w] = "paid_read"
  /\ CASE orderStatus[ctx[w].order] = "PAID" -> Goto(w, "issue_read")
       [] orderStatus[ctx[w].order] = "PENDING" -> Goto(w, "paid_set")
       [] OTHER -> Goto(w, "paid_reserve")
  /\ UNCHANGED <<orderVars, rowVars, isVerifying, age, outVars, prompt, crashes>>

\* A late success takes its stock back even if the tier is full by now.
MarkPaidReserve(w) ==
  /\ pc[w] = "paid_reserve"
  /\ quantitySold' = quantitySold + Qty[ctx[w].order]
  /\ Goto(w, "paid_late")
  /\ UNCHANGED <<onSale, orderStatus, tickets, commission, rowVars, isVerifying, age,
                 outVars, prompt, crashes>>

\* Unconditional too, with a reservation of its own (paid_late) or on the strength of
\* the one the order was read to hold.
MarkPaidSet(w) ==
  /\ pc[w] \in {"paid_set", "paid_late"}
  /\ orderStatus' = [orderStatus EXCEPT ![ctx[w].order] = "PAID"]
  /\ Goto(w, "issue_read")
  /\ UNCHANGED <<onSale, quantitySold, tickets, commission, rowVars, isVerifying, age,
                 outVars, prompt, crashes>>

\* The commission upsert, then generateForOrder's check: it throws unless PAID.
IssueRead(w) ==
  LET o == ctx[w].order IN
  /\ pc[w] = "issue_read"
  /\ commission' = IF ctx[w].op = "recover" THEN commission ELSE commission \union {o}
  /\ IF orderStatus[o] = "PAID" THEN Goto(w, "issue") ELSE Finish(w)
  /\ UNCHANGED <<onSale, quantitySold, orderStatus, tickets, rowVars, isVerifying, age,
                 outVars, prompt, crashes>>

\* Mutant: tickets are issued without looking for earlier ones.
IssueAgain(w) ==
  /\ pc[w] = "issue"
  /\ tickets' = [tickets EXCEPT ![ctx[w].order] = @ + 1]
  /\ Return(w)
  /\ UNCHANGED <<onSale, quantitySold, orderStatus, commission, rowVars, isVerifying, age,
                 outVars, prompt, crashes>>

\* One transaction under an advisory lock: existing tickets are handed back.
Issue(w) ==
  LET o == ctx[w].order IN
  /\ pc[w] = "issue"
  /\ tickets' = IF tickets[o] > 0 THEN tickets ELSE [tickets EXCEPT ![o] = @ + 1]
  /\ Return(w)
  /\ UNCHANGED <<onSale, quantitySold, orderStatus, commission, rowVars, isVerifying, age,
                 outVars, prompt, crashes>>

\* PaymentMonitorService.recoverMissingTickets, for one order it selects.
RecoverStart(w, o) ==
  /\ pc[w] = "idle"
  /\ orderStatus[o] = "PAID"
  /\ tickets[o] = 0
  /\ \E p \in Payments : orderOf[p] = o /\ paymentStatus[p] = "SUCCESS"
  /\ GotoWith(w, "issue_read", Begin(o, "recover"))
  /\ UNCHANGED <<orderVars, rowVars, isVerifying, age, outVars, prompt, crashes>>

\* PaymentMonitorService.flagMissingCommissions: the row is ten minutes old, so the
\* handler that recorded the success is no longer at work on it.
FlagCommission(o) ==
  /\ o \notin flagged \union commission
  /\ \E p \in Payments : orderOf[p] = o /\ paymentStatus[p] = "SUCCESS"
  /\ \A w \in Workers : ctx[w].order = o =>
       pc[w] \notin {"check_other", "paid_read", "paid_reserve", "paid_late", "paid_set",
                     "issue_read"}
  /\ flagged' = flagged \union {o}
  /\ UNCHANGED <<orderVars, rowVars, isVerifying, age, alerted, notices, prompt, workerVars,
                 crashes>>

-----------------------------------------------------------------------------
(* PaymentsService.markPaymentUnsuccessful and OrdersService.markFailed.    *)

ClaimPending(w, status, next) ==
  LET p == ctx[w].payment IN
  \/ /\ paymentStatus[p] = "PENDING"
     /\ SetStatus(p, status)
     /\ isVerifying' = [isVerifying EXCEPT ![p] = FALSE]
     /\ next
  \/ /\ paymentStatus[p] # "PENDING"
     /\ Return(w)
     /\ UNCHANGED <<rowVars, isVerifying>>

ClaimFailure(w) ==
  /\ pc[w] = "fail_claim"
  /\ ClaimPending(w, ctx[w].outcome, Goto(w, "order_fail"))
  /\ UNCHANGED <<orderVars, age, outVars, prompt, crashes>>

\* releaseStock: false.  The order stays PENDING with its reservation.
ClaimGiveUp(w) ==
  /\ pc[w] = "giveup_claim"
  /\ ClaimPending(w, "FAILED", Return(w))
  /\ UNCHANGED <<orderVars, age, outVars, prompt, crashes>>

\* The PAYMENT_FAILED_NOTICE job, enqueued after the stock has been dealt with.
EnqueueNotice(w) == notices' = IF ctx[w].outcome = "FAILED"
                               THEN notices \union {ctx[w].payment} ELSE notices

\* Mutant: the claim is gone; whatever the order is, its stock is given back.
MarkFailedUnclaimed(w) ==
  /\ pc[w] = "order_fail"
  /\ orderStatus' = [orderStatus EXCEPT ![ctx[w].order] = "FAILED"]
  /\ Goto(w, "release")
  /\ UNCHANGED <<onSale, quantitySold, tickets, commission, rowVars, isVerifying, age,
                 outVars, prompt, crashes>>

MarkFailed(w) ==
  LET o == ctx[w].order IN
  /\ pc[w] = "order_fail"
  /\ \/ /\ orderStatus[o] = "PENDING"
        /\ orderStatus' = [orderStatus EXCEPT ![o] = "FAILED"]
        /\ Goto(w, "release")
        /\ UNCHANGED notices
     \/ /\ orderStatus[o] # "PENDING"
        /\ EnqueueNotice(w)
        /\ Return(w)
        /\ UNCHANGED orderStatus
  /\ UNCHANGED <<onSale, quantitySold, tickets, commission, rowVars, isVerifying, age,
                 alerted, flagged, prompt, crashes>>

\* GREATEST(0, quantitySold - quantity)
ReleaseReservation(w) ==
  /\ pc[w] = "release"
  /\ LET left == quantitySold - Qty[ctx[w].order]
     IN quantitySold' = IF left < 0 THEN 0 ELSE left
  /\ EnqueueNotice(w)
  /\ Return(w)
  /\ UNCHANGED <<onSale, orderStatus, tickets, commission, rowVars, isVerifying, age,
                 alerted, flagged, prompt, crashes>>

-----------------------------------------------------------------------------
(* PaymentsService.handleMpesaCallback.  Safaricom sends a callback for a   *)
(* settled prompt any number of times, late or never; where no token proves *)
(* its origin its claim counts for nothing, so it may arrive at any moment. *)

CallbackStart(w, p) ==
  /\ pc[w] = "idle"
  /\ checkoutRequestId[p]
  /\ LET c == Snapshot(Begin(orderOf[p], "callback"), p)
     IN \/ /\ ConfirmCallbacks
           /\ GotoWith(w, "cb_confirm", c)
        \/ /\ ~ConfirmCallbacks
           /\ prompt[p] \in Outcomes
           /\ GotoWith(w, "cb_apply", [c EXCEPT !.outcome = prompt[p]])
  /\ UNCHANGED <<orderVars, rowVars, isVerifying, age, outVars, prompt, crashes>>

CallbackConfirm(w) ==
  LET p == ctx[w].payment IN
  /\ pc[w] = "cb_confirm"
  /\ \E result \in QueryResults(p) :
       \/ /\ result \in Outcomes
          /\ GotoWith(w, "cb_apply", [ctx[w] EXCEPT !.outcome = result])
          /\ UNCHANGED isVerifying
       \/ /\ result \notin Outcomes
          /\ isVerifying' = [isVerifying EXCEPT ![p] =
                               ctx[w].seenStatus = "PENDING" \/ ctx[w].seenVerifying]
          /\ Finish(w)
  /\ UNCHANGED <<orderVars, rowVars, age, outVars, prompt, crashes>>

\* Decided on the row as it was when the callback arrived.  The late-success
\* branch honours a payment that had been written off.
CallbackApply(w) ==
  LET p == ctx[w].payment
      late == ctx[w].outcome = "SUCCESS" /\ ctx[w].seenStatus # "SUCCESS"
  IN /\ pc[w] = "cb_apply"
     /\ \/ /\ ctx[w].seenStatus = "PENDING" \/ late
           /\ isVerifying' = [isVerifying EXCEPT ![p] = FALSE]
           /\ Settle(w, ctx[w].outcome)
        \/ /\ ctx[w].seenStatus # "PENDING" /\ ~late
           /\ UNCHANGED isVerifying
           /\ Finish(w)
     /\ UNCHANGED <<orderVars, rowVars, age, outVars, prompt, crashes>>

-----------------------------------------------------------------------------
(* The surroundings: the buyer's handset and Safaricom, the event's         *)
(* organizer, time, and the process itself.                                 *)

Answer(p) ==
  /\ prompt[p] = "open"
  /\ \E result \in Declines \union {"SUCCESS"} : prompt' = [prompt EXCEPT ![p] = result]
  /\ UNCHANGED <<orderVars, rowVars, isVerifying, age, outVars, workerVars, crashes>>

StopSales ==
  /\ onSale
  /\ onSale' = FALSE
  /\ UNCHANGED <<quantitySold, orderStatus, tickets, commission, rowVars, isVerifying, age,
                 outVars, prompt, workerVars, crashes>>

Tick(p) ==
  /\ p <= made
  /\ age[p] < MaxAge
  /\ age' = [age EXCEPT ![p] = @ + 1]
  /\ UNCHANGED <<orderVars, rowVars, isVerifying, outVars, prompt, workerVars, crashes>>

\* The process restarts: what is in flight is gone, the database stays.
Crash ==
  /\ crashes < MaxCrashes
  /\ \E w \in Workers : pc[w] # "idle"
  /\ crashes' = crashes + 1
  /\ pc' = [w \in Workers |-> "idle"]
  /\ ctx' = [w \in Workers |-> Idle]
  /\ UNCHANGED <<orderVars, rowVars, isVerifying, age, outVars, prompt>>

-----------------------------------------------------------------------------
Initiation(w) == FindExisting(w) \/ ReopenRead(w) \/ ReopenCheck(w) \/ ReopenTake(w)
                 \/ ReopenSet(w) \/ CreatePayment(w) \/ Push(w) \/ PushSave(w) \/ PushFail(w)
Settlement(w) == ClaimSuccess(w) \/ CheckOther(w) \/ MarkPaidRead(w) \/ MarkPaidReserve(w)
                 \/ MarkPaidSet(w) \/ IssueRead(w) \/ Issue(w) \/ ClaimFailure(w)
                 \/ ClaimGiveUp(w) \/ MarkFailed(w) \/ ReleaseReservation(w)
Continue(w) == CreateReserve(w) \/ Initiation(w) \/ QueryNoId(w) \/ QueryTooSoon(w) \/ Query(w)
               \/ Settlement(w) \/ CallbackConfirm(w) \/ CallbackApply(w)
Start(w) == \/ \E o \in Orders : CreateCheck(w, o) \/ InitiateStart(w, o) \/ RecoverStart(w, o)
            \/ \E p \in Payments : ReconcileStart(w, p) \/ CallbackStart(w, p)
Surroundings == \/ \E p \in Payments : Answer(p) \/ Tick(p)
                \/ \E o \in Orders : FlagCommission(o)
                \/ StopSales
                \/ Crash

Next == \/ \E w \in Workers : Start(w) \/ Continue(w)
        \/ Surroundings

Spec == Init /\ [][Next]_vars

(***************************************************************************)
(* Fairness.  A handler that has started is run to its end by the event    *)
(* loop; time passes; the 30 s sweep keeps selecting payments while there  *)
(* are PENDING ones, and polls are not refused for being recent for ever,  *)
(* because the sweep's period exceeds queryIntervalMs; the payment monitor *)
(* keeps running.  Nothing is assumed of buyers, Safaricom or callbacks.   *)
(***************************************************************************)
Fairness ==
  /\ \A w \in Workers : WF_vars(Continue(w))
  /\ \A p \in Payments : WF_vars(Tick(p))
  /\ SF_vars(\E w \in Workers : Query(w))
  /\ SF_vars(\E w \in Workers, p \in Payments : ReconcileStart(w, p))
  /\ \A o \in Orders : SF_vars(\E w \in Workers : RecoverStart(w, o))
  /\ \A o \in Orders : WF_vars(FlagCommission(o))

-----------------------------------------------------------------------------
(* Properties. *)

\* Every variable keeps its type; the database columns are those of schema.prisma.
TypeOK ==
  /\ onSale \in BOOLEAN
  /\ quantitySold \in Nat
  /\ orderStatus \in [Orders -> OrderStatus]
  /\ made \in 0..MaxPayments
  /\ orderOf \in [Payments -> Orders \union {NoOrder}]
  /\ paymentStatus \in [Payments -> PaymentStatus]
  /\ checkoutRequestId \in [Payments -> BOOLEAN]
  /\ isVerifying \in [Payments -> BOOLEAN]
  /\ age \in [Payments -> Nat]
  /\ tickets \in [Orders -> Nat]
  /\ commission \subseteq Orders
  /\ alerted \subseteq Orders
  /\ flagged \subseteq Orders
  /\ notices \subseteq Payments
  /\ prompt \in [Payments -> Prompts]
  /\ pc \in [Workers -> Labels]
  /\ ctx \in [Workers -> Context]
  /\ crashes \in Nat

Succeeded(o) == {p \in Payments : orderOf[p] = o /\ paymentStatus[p] = "SUCCESS"}

\* The checkout implements TicketSale: a payment is recorded SUCCESS only after
\* Safaricom took the money, whichever of callback, poll, sweep and retry gets
\* there first and however stale its copy of the row; the record is never undone;
\* and an order with such a record gets one set of tickets, once
\* (markPaymentSuccess, generateForOrder).
Sale == INSTANCE TicketSale WITH
          taken <- {p \in Payments : prompt[p] = "SUCCESS"},
          confirmed <- {p \in Payments : paymentStatus[p] = "SUCCESS"},
          issued <- tickets
ImplementsTicketSale == Sale!Spec

\* An order never has two payments in flight, although every Pay and Try Again
\* click creates one and sweeps settle them behind its back: the order lock and
\* the look-up of performInitiation together see to it, restarts included.
OnePaymentInFlight ==
  \A p, q \in Payments :
    paymentStatus[p] = "PENDING" /\ paymentStatus[q] = "PENDING" /\ orderOf[p] = orderOf[q]
      => p = q

\* An order that was charged twice is always reported to a human, even when the
\* two successes are recorded concurrently and neither saw the other when it
\* began (the otherSuccess look-up of markPaymentSuccess); a restart between the
\* claim and the alert is the one exception.
DoubleChargeAlerted ==
  \A o \in Orders :
    (/\ crashes = 0
     /\ Cardinality(Succeeded(o)) > 1
     /\ \A w \in Workers : ~(pc[w] = "check_other" /\ ctx[w].order = o)) => o \in alerted

\* A prompt the buyer may still answer is not written off before its validity is
\* over: no interleaving of sweep, poll, retry and callback fails or expires a
\* payment Daraja knows early, unless Daraja itself declined it.  The one other way
\* out is a FAILED from a handler whose copy of the row predates the request id,
\* and that one too waits for the shorter limit it is written for.
NeverWrittenOffEarly ==
  [][\A p \in Payments :
       /\ paymentStatus[p] = "PENDING" /\ paymentStatus'[p] \in Failures
       /\ checkoutRequestId[p] /\ prompt[p] \notin Failures
       => \/ age[p] > Validity
          \/ paymentStatus'[p] = "FAILED" /\ age[p] > NoIdLimit]_vars

\* Whatever a callback does or fails to do, a payment reaches a final state
\* (payment-reconciliation.service.ts: "a payment always reaches a final state"): an
\* order that has payments in flight comes to have none, whatever retry follows.
EveryPaymentSettles ==
  \A o \in Orders : PendingPayments(o) # {} ~> PendingPayments(o) = {}

\* A retry is about to write PENDING over the PAID that a late success wrote after
\* reopenForRetry had read the order FAILED.
OverwritesPaid(o) ==
  \E w \in Workers : pc[w] = "reopen_set" /\ ctx[w].order = o /\ orderStatus[o] = "PAID"

\* A recorded success leads to tickets, through a late re-reservation or the monitor's
\* recovery if need be.  Two things stand against it.  Where a restart cut its handler
\* short before the order was marked paid nothing retries it, and the monitor reports
\* the order; and where a retry overwrites the PAID (OverwritesPaid) the success may
\* be left with neither tickets nor report.  Nothing else does that.
SuccessGetsTickets ==
  \A o \in Orders :
    []~OverwritesPaid(o) =>
      (Succeeded(o) # {} ~> tickets[o] > 0 \/ (crashes > 0 /\ o \in flagged))

-----------------------------------------------------------------------------
(* Claims of the repository that the code does not keep.                    *)

\* orders.service.ts:103: "Reserve the tickets immediately so concurrent buyers
\* cannot oversell."
NoOversell == quantitySold <= Capacity

\* orders.service.ts:192 refuses to reopen an order that has been paid for.
PaidOrderNotReopened ==
  [][\A o \in Orders : orderStatus[o] = "PAID" => orderStatus'[o] # "PENDING"]_vars

\* README: "A fresh prompt is only sent once the previous one can no longer be paid."
OnePayablePrompt ==
  \A p, q \in Payments :
    orderOf[p] \in Orders /\ orderOf[p] = orderOf[q] /\ prompt[p] = "open" /\ prompt[q] = "open"
      => p = q
=============================================================================
