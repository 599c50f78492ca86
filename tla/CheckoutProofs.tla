--------------------------- MODULE CheckoutProofs ---------------------------
(***************************************************************************)
(* Proofs about Checkout for any number of orders, workers, payments and   *)
(* restarts and any timing knobs.                                          *)
(***************************************************************************)
EXTENDS StockLedger, SumTheorems, FiniteSetTheorems, TLAPS

(***************************************************************************)
(* The inductive invariant.  TypeOK is not inductive by itself: a status a *)
(* worker is about to write comes from its local outcome, and a row it is  *)
(* about to write from its local payment, so what a worker carries must be *)
(* tied to where it is.                                                    *)
(***************************************************************************)
Pushing == {"push", "push_save", "push_fail"}
Confirmed == {"check_other", "paid_read", "paid_reserve", "paid_late", "paid_set"}
WithPayment == Pushing \union Confirmed \union
               {"query", "succ_claim", "fail_claim", "giveup_claim", "order_fail", "release",
                "cb_confirm", "cb_apply"}

\* What a busy worker holds: an order, and a payment row of that order.
HoldsRow(w) ==
  /\ pc[w] # "idle" => ctx[w].order \in Orders
  /\ pc[w] \in WithPayment => /\ ctx[w].payment \in Payments
                              /\ ctx[w].payment <= made
                              /\ orderOf[ctx[w].payment] = ctx[w].order

\* Order o has a payment that succeeded.
Backed(o) == \E p \in Payments : orderOf[p] = o /\ paymentStatus[p] = "SUCCESS"

\* What it is entitled to say about that payment.
HoldsWord(w) ==
  /\ pc[w] = "query" /\ ctx[w].seenId => checkoutRequestId[ctx[w].payment]
  /\ pc[w] \in {"cb_confirm", "cb_apply", "succ_claim"} => checkoutRequestId[ctx[w].payment]
  /\ pc[w] = "cb_apply" => ctx[w].outcome \in Outcomes
  /\ pc[w] = "fail_claim" => ctx[w].outcome \in Failures
  /\ pc[w] = "cb_apply" /\ ctx[w].outcome = "SUCCESS" => prompt[ctx[w].payment] = "SUCCESS"
  /\ pc[w] = "succ_claim" => prompt[ctx[w].payment] = "SUCCESS"
  /\ pc[w] \in Confirmed => paymentStatus[ctx[w].payment] = "SUCCESS"
  /\ pc[w] = "issue" => Backed(ctx[w].order)

\* A row whose STK push is under way belongs to the worker that pushes it.
OwnsPush(w) ==
  /\ pc[w] \in Pushing => ~checkoutRequestId[ctx[w].payment]
  /\ pc[w] = "push" => prompt[ctx[w].payment] = "none"
  /\ \A v \in Workers : pc[w] \in Pushing /\ pc[v] \in Pushing
                        /\ ctx[w].payment = ctx[v].payment => v = w

\* The rows themselves.
RowsInv ==
  /\ \A p \in Payments : p > made => /\ orderOf[p] = NoOrder
                                     /\ paymentStatus[p] = "NONE"
                                     /\ prompt[p] = "none"
                                     /\ ~checkoutRequestId[p]
  /\ \A p \in Payments : p <= made => orderOf[p] \in Orders
  /\ \A p \in Payments : paymentStatus[p] = "SUCCESS" =>
                           prompt[p] = "SUCCESS" /\ checkoutRequestId[p]

\* A PAID order has a payment that succeeded.
PaidInv == \A o \in Orders : orderStatus[o] = "PAID" => Backed(o)

WorkersInv == \A w \in Workers : HoldsRow(w) /\ HoldsWord(w) /\ OwnsPush(w)

TicketsInv == \A o \in Orders : tickets[o] \in {0, 1}

IInv == TypeOK /\ RowsInv /\ PaidInv /\ WorkersInv /\ TicketsInv

(* At most one payment in flight: the lock of performInitiation, and what an *)
(* initiation that holds it knows.  If a row of its order is PENDING, the    *)
(* initiation has not looked yet, or that row is the one it is dealing with. *)
Claiming == Pushing \union {"query", "succ_claim", "fail_claim", "giveup_claim"}
LockInv == \A v, w \in Workers :
  ctx[v].op = "initiate" /\ ctx[w].op = "initiate" /\ ctx[v].order = ctx[w].order => v = w
Initiating(w) ==
  ctx[w].op = "initiate" =>
    \A p \in PendingPayments(ctx[w].order) :
      \/ pc[w] = "find"
      \/ pc[w] \in Claiming /\ ctx[w].payment = p
Holding == {"find", "reopen_read", "reopen_check", "reopen_take", "reopen_set", "create_payment"}
Locked(w) == pc[w] \in Holding => ctx[w].op = "initiate"
InitiationInv == \A w \in Workers : Initiating(w) /\ Locked(w)
PInv == OnePaymentInFlight /\ LockInv /\ InitiationInv

-----------------------------------------------------------------------------
(* Types of the things the actions are made of. *)

LEMMA IdleType == Idle \in Context
  BY CheckoutAssumption DEF Idle, Context, Ops, PaymentStatus, Outcomes, Failures

LEMMA BeginType ==
  ASSUME NEW o \in Orders, NEW operation \in Ops
  PROVE  /\ Begin(o, operation) \in Context
         /\ Begin(o, operation).order = o
         /\ Begin(o, operation).op = operation
  BY DEF Begin, Idle, Context, Ops, PaymentStatus, Outcomes, Failures

THEOREM InitIInv == Init => IInv
  <1> SUFFICES ASSUME Init PROVE IInv
    OBVIOUS
  <1> USE CheckoutAssumption DEF Init
  <1>1. TypeOK
    BY IdleType DEF TypeOK, OrderStatus, PaymentStatus, Prompts, Labels, Payments
  <1>2. RowsInv
    BY DEF RowsInv, Payments
  <1>3. PaidInv /\ TicketsInv
    BY DEF PaidInv, TicketsInv
  <1>4. WorkersInv
    BY DEF WorkersInv, HoldsRow, HoldsWord, OwnsPush, WithPayment, Confirmed, Pushing
  <1> QED
    BY <1>1, <1>2, <1>3, <1>4 DEF IInv

-----------------------------------------------------------------------------
(* A step of one worker.  The other workers keep what they hold as long as  *)
(* the rows only grow and nobody touches the row another worker is pushing. *)

Moves(w) ==
  /\ pc' = [pc EXCEPT ![w] = pc'[w]] /\ pc'[w] \in Labels
  /\ ctx' = [ctx EXCEPT ![w] = ctx'[w]] /\ ctx'[w] \in Context

RowsGrow ==
  /\ made <= made'
  /\ \A p \in Payments : /\ p <= made => orderOf'[p] = orderOf[p]
                         /\ checkoutRequestId[p] => checkoutRequestId'[p]
                         /\ paymentStatus[p] = "SUCCESS" => paymentStatus'[p] = "SUCCESS"
                         /\ prompt[p] = "SUCCESS" => prompt'[p] = "SUCCESS"

PushKept(w) ==
  pc[w] \in Pushing => /\ ~checkoutRequestId'[ctx[w].payment]
                       /\ pc[w] = "push" => prompt'[ctx[w].payment] = "none"

LEMMA MoveTypes ==
  ASSUME TypeOK, NEW w \in Workers, Moves(w)
  PROVE  pc' \in [Workers -> Labels] /\ ctx' \in [Workers -> Context]
  BY DEF TypeOK, Moves

LEMMA TakeTypes ==
  ASSUME TypeOK, NEW o \in Orders
  PROVE  quantitySold + Qty[o] \in Nat
  BY CheckoutAssumption DEF TypeOK

LEMMA OrderTypes ==
  ASSUME TypeOK, NEW o \in Orders, NEW status \in {"PENDING", "PAID", "FAILED"}
  PROVE  [orderStatus EXCEPT ![o] = status] \in [Orders -> OrderStatus]
  BY DEF TypeOK, OrderStatus

LEMMA StatusTypes ==
  ASSUME TypeOK, NEW p \in Payments, NEW status \in PaymentStatus
  PROVE  [paymentStatus EXCEPT ![p] = status] \in [Payments -> PaymentStatus]
  BY DEF TypeOK

LEMMA GotoMoves ==
  ASSUME TypeOK, NEW w \in Workers, NEW label \in Labels, Goto(w, label)
  PROVE  Moves(w) /\ pc'[w] = label /\ ctx'[w] = ctx[w]
  BY DEF TypeOK, Goto, Moves

LEMMA GotoWithMoves ==
  ASSUME TypeOK, NEW w \in Workers, NEW label \in Labels, NEW c \in Context,
         GotoWith(w, label, c)
  PROVE  Moves(w) /\ pc'[w] = label /\ ctx'[w] = c
  BY DEF TypeOK, GotoWith, Moves

LEMMA BackingLasts ==
  ASSUME TypeOK, RowsInv, RowsGrow, NEW o
  PROVE  Backed(o) => Backed(o)'
  BY DEF TypeOK, RowsInv, RowsGrow, Backed, Payments

LEMMA OthersKeep ==
  ASSUME TypeOK, RowsInv, WorkersInv, made' \in Nat, NEW w \in Workers, Moves(w), RowsGrow,
         \A v \in Workers \ {w} : PushKept(v),
         HoldsRow(w)', HoldsWord(w)', OwnsPush(w)'
  PROVE  WorkersInv'
  <1> SUFFICES ASSUME NEW v \in Workers, v # w
               PROVE  HoldsRow(v)' /\ HoldsWord(v)' /\ OwnsPush(v)'
    BY DEF WorkersInv
  <1>1. /\ pc'[v] = pc[v] /\ ctx'[v] = ctx[v]
        /\ HoldsRow(v) /\ HoldsWord(v) /\ OwnsPush(v) /\ PushKept(v)
        /\ made \in Nat
    BY DEF Moves, WorkersInv, TypeOK
  <1>2. HoldsRow(v)'
    BY <1>1 DEF HoldsRow, RowsGrow, Payments
  <1>3. HoldsWord(v)'
    <2>1. (pc[v] = "issue" => Backed(ctx[v].order))'
      <3>1. Backed(ctx[v].order) => Backed(ctx[v].order)'
        BY <1>1, BackingLasts DEF Backed
      <3> QED
        BY <1>1, <3>1 DEF HoldsWord
    <2>2. pc[v] \in WithPayment => ctx[v].payment \in Payments
      BY <1>1 DEF HoldsRow
    <2> QED
      BY <1>1, <2>1, <2>2 DEF HoldsWord, RowsGrow, WithPayment, Confirmed
  <1>4. OwnsPush(v)'
    <2>1. pc'[v] \in Pushing => ~checkoutRequestId'[ctx'[v].payment]
      BY <1>1 DEF PushKept
    <2>2. pc'[v] = "push" => prompt'[ctx'[v].payment] = "none"
      BY <1>1 DEF PushKept, Pushing
    <2>3. ASSUME NEW u \in Workers, pc'[v] \in Pushing, pc'[u] \in Pushing,
                 ctx'[v].payment = ctx'[u].payment
          PROVE  u = v
      <3>1. CASE u = w
        BY <2>3, <3>1 DEF OwnsPush
      <3>2. CASE u # w
        BY <1>1, <2>3, <3>2 DEF OwnsPush, Moves, TypeOK
      <3> QED
        BY <3>1, <3>2
    <2> QED
      BY <2>1, <2>2, <2>3 DEF OwnsPush
  <1> QED
    BY <1>2, <1>3, <1>4

\* No row and no prompt changes.
LEMMA RowsStand ==
  ASSUME IInv, NEW w \in Workers, Moves(w), UNCHANGED <<rowVars, prompt>>,
         HoldsRow(w)', HoldsWord(w)', OwnsPush(w)'
  PROVE  /\ RowsInv' /\ WorkersInv'
         /\ orderStatus' = orderStatus => PaidInv'
         /\ tickets' = tickets => TicketsInv'
  <1>1. RowsInv' /\ RowsGrow /\ made' \in Nat
    BY DEF IInv, TypeOK, RowsInv, RowsGrow, rowVars, Payments
  <1>2. \A v \in Workers : PushKept(v)
    BY DEF IInv, WorkersInv, OwnsPush, PushKept, rowVars
  <1>3. orderStatus' = orderStatus => PaidInv'
    BY DEF IInv, PaidInv, Backed, rowVars
  <1>4. tickets' = tickets => TicketsInv'
    BY DEF IInv, TicketsInv
  <1> QED
    BY <1>1, <1>2, <1>3, <1>4, OthersKeep DEF IInv

\* The worker moves to a statement that uses no payment row.
LEMMA LightHolds ==
  ASSUME NEW w \in Workers, pc'[w] \notin WithPayment \union {"issue"},
         pc'[w] # "idle" => ctx'[w].order \in Orders
  PROVE  HoldsRow(w)' /\ HoldsWord(w)' /\ OwnsPush(w)'
  BY DEF HoldsRow, HoldsWord, OwnsPush, WithPayment, Confirmed, Pushing

\* The worker moves to a statement that uses one, but not to a push.
LEMMA RowHolds ==
  ASSUME NEW w \in Workers, pc'[w] \notin Pushing
  PROVE  OwnsPush(w)'
  BY DEF OwnsPush, Pushing

LEMMA FinishMoves ==
  ASSUME TypeOK, NEW w \in Workers, Finish(w)
  PROVE  /\ Moves(w) /\ pc'[w] = "idle"
         /\ HoldsRow(w)' /\ HoldsWord(w)' /\ OwnsPush(w)'
  <1>1. Moves(w) /\ pc'[w] = "idle"
    BY IdleType, GotoWithMoves DEF Finish, Labels
  <1> QED
    BY <1>1, LightHolds DEF WithPayment, Confirmed, Pushing

LEMMA ReturnMoves ==
  ASSUME IInv, NEW w \in Workers, pc[w] # "idle", Return(w)
  PROVE  /\ Moves(w) /\ pc'[w] \in {"idle", "reopen_read"}
         /\ HoldsRow(w)' /\ HoldsWord(w)' /\ OwnsPush(w)'
  <1>1. CASE ctx[w].op # "initiate"
    BY <1>1, FinishMoves DEF Return, IInv
  <1>2. CASE ctx[w].op = "initiate"
    <2>1. ctx[w].order \in Orders
      BY DEF IInv, WorkersInv, HoldsRow
    <2>2. /\ Begin(ctx[w].order, "initiate") \in Context
          /\ Begin(ctx[w].order, "initiate").order = ctx[w].order
      BY <2>1, BeginType DEF Ops
    <2>3. Moves(w) /\ pc'[w] = "reopen_read" /\ ctx'[w].order \in Orders
      BY <1>2, <2>1, <2>2, GotoWithMoves DEF Return, IInv, Labels
    <2> QED
      BY <2>3, LightHolds DEF WithPayment, Confirmed, Pushing
  <1> QED
    BY <1>1, <1>2

LEMMA SnapshotType ==
  ASSUME TypeOK, NEW c \in Context, NEW p \in Payments
  PROVE  /\ Snapshot(c, p) \in Context
         /\ Snapshot(c, p).order = c.order /\ Snapshot(c, p).op = c.op
         /\ Snapshot(c, p).payment = p /\ Snapshot(c, p).outcome = c.outcome
         /\ Snapshot(c, p).seenId = checkoutRequestId[p]
  BY DEF TypeOK, Snapshot, Context

LEMMA SettleMoves ==
  ASSUME IInv, NEW w \in Workers, pc[w] \in WithPayment, NEW result \in Outcomes,
         Settle(w, result)
  PROVE  /\ Moves(w)
         /\ pc'[w] = IF result = "SUCCESS" THEN "succ_claim" ELSE "fail_claim"
         /\ ctx'[w].op = ctx[w].op /\ ctx'[w].order = ctx[w].order
         /\ ctx'[w].payment = ctx[w].payment /\ ctx'[w].outcome = result
  <1> DEFINE b == Begin(ctx[w].order, ctx[w].op)
             c == [b EXCEPT !.payment = ctx[w].payment, !.outcome = result]
  <1>1. ctx[w].order \in Orders /\ ctx[w].payment \in Payments /\ ctx[w].op \in Ops
    BY DEF IInv, TypeOK, WorkersInv, HoldsRow, WithPayment, Pushing, Confirmed, Context
  <1>2. b \in Context /\ b.order = ctx[w].order /\ b.op = ctx[w].op
    BY <1>1, BeginType
  <1>3. /\ c \in Context /\ c.order = ctx[w].order /\ c.op = ctx[w].op
        /\ c.payment = ctx[w].payment /\ c.outcome = result
    <2> HIDE DEF b
    <2> QED
      BY <1>1, <1>2 DEF Context
  <1> HIDE DEF b, c
  <1>4. GotoWith(w, IF result = "SUCCESS" THEN "succ_claim" ELSE "fail_claim", c)
    BY DEF Settle, b, c
  <1> QED
    BY <1>3, <1>4, GotoWithMoves DEF IInv, Labels

-----------------------------------------------------------------------------
(* The actions, section by section. *)

LEMMA CreateCheckKeeps ==
  ASSUME IInv, NEW w \in Workers, NEW o \in Orders, CreateCheck(w, o)
  PROVE  IInv'
  <1> USE DEF IInv
  <1>1. Moves(w) /\ pc'[w] = "create_reserve" /\ ctx'[w].order = o
    BY GotoWithMoves, BeginType DEF CreateCheck, Labels, Ops
  <1>2. HoldsRow(w)' /\ HoldsWord(w)' /\ OwnsPush(w)'
    BY <1>1, LightHolds DEF WithPayment, Confirmed, Pushing
  <1>3. TypeOK'
    BY <1>1 DEF CreateCheck, TypeOK, Moves, orderVars, rowVars, outVars
  <1> QED
    BY <1>1, <1>2, <1>3, RowsStand DEF CreateCheck, orderVars

LEMMA CreateReserveKeeps ==
  ASSUME IInv, NEW w \in Workers, CreateReserve(w)
  PROVE  IInv'
  <1> USE DEF IInv
  <1>1. ctx[w].order \in Orders
    BY DEF CreateReserve, WorkersInv, HoldsRow
  <1>2. Moves(w) /\ HoldsRow(w)' /\ HoldsWord(w)' /\ OwnsPush(w)'
    BY FinishMoves DEF CreateReserve
  <1>3. TypeOK'
    BY <1>1, <1>2, MoveTypes, TakeTypes, OrderTypes
    DEF CreateReserve, TypeOK, rowVars, outVars
  <1>4. PaidInv'
    BY <1>1 DEF CreateReserve, PaidInv, Backed, TypeOK, rowVars
  <1> QED
    BY <1>2, <1>3, <1>4, RowsStand DEF CreateReserve

LEMMA CreatePaymentKeeps ==
  ASSUME IInv, NEW w \in Workers, CreatePayment(w)
  PROVE  IInv'
  <1> USE DEF IInv
  <1> DEFINE p == made + 1
             c == [ctx[w] EXCEPT !.payment = p]
  <1>1. p \in Payments /\ p > made /\ made' = p /\ ctx[w].order \in Orders
    BY SMTT(30), CheckoutAssumption
    DEF CreatePayment, TypeOK, Payments, WorkersInv, HoldsRow
  <1>2. c \in Context /\ c.payment = p /\ c.order = ctx[w].order
    <2>1. ctx[w] \in Context
      BY DEF TypeOK
    <2> QED
      BY <1>1, <2>1 DEF Context
  <1> HIDE DEF c
  <1>3. Moves(w) /\ pc'[w] = "push" /\ ctx'[w] = c
    BY <1>2, GotoWithMoves DEF CreatePayment, Labels, c
  <1>4. TypeOK'
    <2>1. orderOf' \in [Payments -> Orders \union {NoOrder}] /\ made' \in 0..MaxPayments
      BY <1>1 DEF CreatePayment, TypeOK, Payments
    <2>2. paymentStatus' \in [Payments -> PaymentStatus]
      BY <1>1, StatusTypes DEF CreatePayment, PaymentStatus
    <2> QED
      BY <1>3, <2>1, <2>2, MoveTypes DEF CreatePayment, TypeOK, orderVars, outVars
  <1>5. RowsInv'
    BY <1>1 DEF CreatePayment, RowsInv, TypeOK, Payments
  <1>6. RowsGrow
    BY <1>1 DEF CreatePayment, RowsGrow, RowsInv, TypeOK, Payments
  <1>7. \A v \in Workers : PushKept(v)
    BY DEF CreatePayment, WorkersInv, OwnsPush, PushKept
  <1>8. HoldsRow(w)' /\ HoldsWord(w)'
    BY <1>1, <1>2, <1>3
    DEF CreatePayment, HoldsRow, HoldsWord, TypeOK, Confirmed, Payments
  <1>9. OwnsPush(w)'
    <2>1. ~checkoutRequestId'[p] /\ prompt'[p] = "none"
      BY <1>1 DEF CreatePayment, RowsInv
    <2>2. \A v \in Workers \ {w} : pc'[v] \in Pushing => ctx'[v].payment # p
      BY <1>1, <1>3 DEF Moves, WorkersInv, HoldsRow, WithPayment, TypeOK, Payments
    <2> QED
      BY <1>2, <1>3, <2>1, <2>2 DEF OwnsPush, Pushing
  <1>10. PaidInv' /\ TicketsInv'
    BY <1>6, BackingLasts DEF CreatePayment, PaidInv, TicketsInv, Backed, orderVars
  <1> QED
    BY <1>3, <1>4, <1>5, <1>6, <1>7, <1>8, <1>9, <1>10, OthersKeep DEF TypeOK

LEMMA PushKeeps ==
  ASSUME IInv, NEW w \in Workers, Push(w) \/ PushSave(w) \/ PushFail(w)
  PROVE  IInv'
  <1> USE DEF IInv
  <1> DEFINE p == ctx[w].payment
  <1>1. /\ pc[w] \in Pushing
        /\ p \in Payments /\ p <= made /\ orderOf[p] = ctx[w].order
        /\ ctx[w].order \in Orders
        /\ ~checkoutRequestId[p] /\ paymentStatus[p] # "SUCCESS"
    BY DEF Push, PushSave, PushFail, Pushing, WorkersInv, HoldsRow, OwnsPush, WithPayment, RowsInv
  <1>2. \A v \in Workers \ {w} : pc[v] \in Pushing => ctx[v].payment # p
    BY <1>1 DEF WorkersInv, OwnsPush
  <1>3. \A v \in Workers : pc[v] \in Pushing => ctx[v].payment \in Payments
    BY DEF WorkersInv, HoldsRow, WithPayment
  <1>4. CASE Push(w)
    <2>1. prompt[p] = "none"
      BY <1>4, <1>1 DEF Push, WorkersInv, OwnsPush
    <2>2. Moves(w) /\ pc'[w] \in {"push_save", "push_fail"} /\ ctx'[w] = ctx[w]
      BY <1>4, GotoMoves DEF Push, Labels
    <2>3. prompt' \in [Payments -> Prompts] /\ \A q \in Payments \ {p} : prompt'[q] = prompt[q]
      BY <1>4, <1>1 DEF Push, TypeOK, Prompts
    <2>4. TypeOK'
      BY <1>4, <2>2, <2>3, MoveTypes DEF Push, TypeOK, orderVars, rowVars, outVars
    <2>5. RowsInv' /\ RowsGrow
      BY <1>4, <1>1, <2>1, <2>3 DEF Push, RowsInv, RowsGrow, TypeOK, Payments, rowVars
    <2>6. \A v \in Workers \ {w} : PushKept(v)
      BY <1>4, <1>2, <1>3, <2>3 DEF Push, PushKept, WorkersInv, OwnsPush, rowVars, Pushing
    <2>7. HoldsRow(w)' /\ HoldsWord(w)' /\ OwnsPush(w)'
      BY <1>4, <1>1, <1>2, <2>2
      DEF Push, HoldsRow, HoldsWord, OwnsPush, Moves, TypeOK, rowVars, Pushing, Confirmed
    <2>8. PaidInv' /\ TicketsInv'
      BY <1>4 DEF Push, PaidInv, TicketsInv, Backed, orderVars, rowVars
    <2> QED
      BY <2>2, <2>4, <2>5, <2>6, <2>7, <2>8, OthersKeep DEF TypeOK
  <1>5. CASE PushSave(w)
    <2>1. Moves(w) /\ HoldsRow(w)' /\ HoldsWord(w)' /\ OwnsPush(w)'
      BY <1>5, FinishMoves DEF PushSave
    <2>2. TypeOK'
      BY <1>5, <2>1, MoveTypes DEF PushSave, TypeOK, orderVars, outVars
    <2>3. RowsInv' /\ RowsGrow
      BY <1>5, <1>1 DEF PushSave, RowsInv, RowsGrow, TypeOK, Payments
    <2>4. \A v \in Workers \ {w} : PushKept(v)
      BY <1>5, <1>2, <1>3 DEF PushSave, PushKept, WorkersInv, OwnsPush, TypeOK
    <2>5. PaidInv' /\ TicketsInv'
      BY <1>5 DEF PushSave, PaidInv, TicketsInv, Backed, orderVars
    <2> QED
      BY <2>1, <2>2, <2>3, <2>4, <2>5, OthersKeep DEF TypeOK
  <1>6. CASE PushFail(w)
    <2>1. Moves(w) /\ HoldsRow(w)' /\ HoldsWord(w)' /\ OwnsPush(w)'
      BY <1>6, FinishMoves DEF PushFail
    <2>2. paymentStatus' \in [Payments -> PaymentStatus]
      BY <1>6, <1>1, StatusTypes DEF PushFail, SetStatus, PaymentStatus, Outcomes, Failures
    <2>3. TypeOK'
      BY <1>6, <2>1, <2>2, MoveTypes DEF PushFail, SetStatus, TypeOK, orderVars, outVars
    <2>4. RowsInv' /\ RowsGrow
      BY <1>6, <1>1 DEF PushFail, SetStatus, RowsInv, RowsGrow, TypeOK, Payments
    <2>5. \A v \in Workers \ {w} : PushKept(v)
      BY <1>6 DEF PushFail, SetStatus, PushKept, WorkersInv, OwnsPush
    <2>6. PaidInv' /\ TicketsInv'
      BY <1>6, <2>4, BackingLasts DEF PushFail, PaidInv, TicketsInv, Backed, orderVars
    <2> QED
      BY <2>1, <2>3, <2>4, <2>5, <2>6, OthersKeep DEF TypeOK
  <1> QED
    BY <1>4, <1>5, <1>6

\* A step that only looks, and decides where its worker goes next.
LEMMA LookKeeps ==
  ASSUME IInv, NEW w \in Workers, Moves(w), HoldsRow(w)', HoldsWord(w)', OwnsPush(w)',
         UNCHANGED <<orderVars, rowVars, age, outVars, prompt, crashes>>,
         isVerifying' \in [Payments -> BOOLEAN]
  PROVE  IInv'
  <1>1. TypeOK'
    BY MoveTypes DEF IInv, TypeOK, orderVars, rowVars, outVars
  <1> QED
    BY <1>1, RowsStand DEF IInv, orderVars

LEMMA OrderStartKeeps ==
  ASSUME IInv, NEW w \in Workers, NEW o \in Orders, InitiateStart(w, o) \/ RecoverStart(w, o)
  PROVE  IInv'
  <1> USE DEF IInv
  <1>1. Moves(w) /\ pc'[w] \in {"find", "issue_read"} /\ ctx'[w].order = o
    BY GotoWithMoves, BeginType DEF InitiateStart, RecoverStart, Labels, Ops
  <1>2. HoldsRow(w)' /\ HoldsWord(w)' /\ OwnsPush(w)'
    BY <1>1, LightHolds DEF WithPayment, Confirmed, Pushing
  <1> QED
    BY <1>1, <1>2, LookKeeps DEF InitiateStart, RecoverStart, TypeOK

LEMMA RowStartKeeps ==
  ASSUME IInv, NEW w \in Workers, NEW p \in Payments, ReconcileStart(w, p) \/ CallbackStart(w, p)
  PROVE  IInv'
  <1> USE DEF IInv
  <1>1. p <= made /\ orderOf[p] \in Orders
    BY DEF ReconcileStart, CallbackStart, RowsInv, TypeOK, Payments
  <1>2. \A operation \in Ops :
          LET c == Snapshot(Begin(orderOf[p], operation), p)
          IN  /\ c \in Context /\ c.order = orderOf[p] /\ c.payment = p
              /\ c.seenId = checkoutRequestId[p]
    BY <1>1, BeginType, SnapshotType
  <1>3. CASE ReconcileStart(w, p)
    <2> DEFINE c == Snapshot(Begin(orderOf[p], "reconcile"), p)
    <2>1. /\ c \in Context /\ c.order = orderOf[p] /\ c.payment = p
          /\ c.seenId = checkoutRequestId[p]
      BY <1>2 DEF Ops
    <2> HIDE DEF c
    <2>2. Moves(w) /\ pc'[w] = "query" /\ ctx'[w] = c
      BY <1>3, <2>1, GotoWithMoves DEF ReconcileStart, Labels, c
    <2>3. HoldsRow(w)' /\ HoldsWord(w)' /\ OwnsPush(w)'
      BY <1>1, <1>3, <2>1, <2>2
      DEF ReconcileStart, HoldsRow, HoldsWord, OwnsPush, rowVars, Confirmed, Pushing
    <2> QED
      BY <1>3, <2>2, <2>3, LookKeeps DEF ReconcileStart, TypeOK
  <1>4. CASE CallbackStart(w, p)
    <2> DEFINE c == Snapshot(Begin(orderOf[p], "callback"), p)
               d == [c EXCEPT !.outcome = prompt[p]]
    <2>1. c \in Context /\ c.order = orderOf[p] /\ c.payment = p
      BY <1>2 DEF Ops
    <2> HIDE DEF c
    <2>2. prompt[p] \in Outcomes => /\ d \in Context /\ d.order = orderOf[p]
                                    /\ d.payment = p /\ d.outcome = prompt[p]
      BY <2>1 DEF Context
    <2> HIDE DEF d
    <2>3. checkoutRequestId[p] /\ UNCHANGED <<rowVars, prompt>>
      BY <1>4 DEF CallbackStart
    <2>4. \/ GotoWith(w, "cb_confirm", c)
          \/ prompt[p] \in Outcomes /\ GotoWith(w, "cb_apply", d)
      BY <1>4 DEF CallbackStart, c, d
    <2>5. /\ Moves(w)
          /\ \/ pc'[w] = "cb_confirm" /\ ctx'[w] = c
             \/ pc'[w] = "cb_apply" /\ ctx'[w] = d /\ prompt[p] \in Outcomes
      BY <2>1, <2>2, <2>4, GotoWithMoves DEF Labels
    <2>6. HoldsRow(w)' /\ HoldsWord(w)' /\ OwnsPush(w)'
      BY <1>1, <2>1, <2>2, <2>3, <2>5
      DEF HoldsRow, HoldsWord, OwnsPush, rowVars, Confirmed, Pushing
    <2> QED
      BY <1>4, <2>5, <2>6, LookKeeps DEF CallbackStart, TypeOK
  <1> QED
    BY <1>3, <1>4

LEMMA FindKeeps ==
  ASSUME IInv, NEW w \in Workers, FindExisting(w)
  PROVE  IInv'
  <1> USE DEF IInv
  <1>1. ctx[w].order \in Orders /\ ctx[w] \in Context
    BY DEF FindExisting, WorkersInv, HoldsRow, TypeOK
  <1>2. CASE Goto(w, "reopen_read")
    <2>1. Moves(w) /\ pc'[w] = "reopen_read" /\ ctx'[w] = ctx[w]
      BY <1>2, GotoMoves DEF Labels
    <2>2. HoldsRow(w)' /\ HoldsWord(w)' /\ OwnsPush(w)'
      BY <1>1, <2>1, LightHolds DEF WithPayment, Confirmed, Pushing
    <2> QED
      BY <2>1, <2>2, LookKeeps DEF FindExisting, TypeOK
  <1>3. ASSUME NEW p \in PendingPayments(ctx[w].order), GotoWith(w, "query", Snapshot(ctx[w], p))
        PROVE  IInv'
    <2> DEFINE c == Snapshot(ctx[w], p)
    <2>1. p \in Payments /\ p <= made /\ orderOf[p] = ctx[w].order
      BY DEF PendingPayments, RowsInv, TypeOK, Payments
    <2>2. /\ c \in Context /\ c.order = ctx[w].order /\ c.payment = p
          /\ c.seenId = checkoutRequestId[p]
      BY <1>1, <2>1, SnapshotType
    <2> HIDE DEF c
    <2>3. Moves(w) /\ pc'[w] = "query" /\ ctx'[w] = c
      BY <1>3, <2>2, GotoWithMoves DEF Labels, c
    <2>4. HoldsRow(w)' /\ HoldsWord(w)' /\ OwnsPush(w)'
      BY <1>1, <2>1, <2>2, <2>3
      DEF FindExisting, HoldsRow, HoldsWord, OwnsPush, rowVars, Confirmed, Pushing
    <2> QED
      BY <2>3, <2>4, LookKeeps DEF FindExisting, TypeOK
  <1> QED
    BY <1>2, <1>3 DEF FindExisting

LEMMA ReopenKeeps ==
  ASSUME IInv, NEW w \in Workers,
         ReopenRead(w) \/ ReopenCheck(w) \/ ReopenTake(w) \/ ReopenSet(w)
  PROVE  IInv'
  <1> USE DEF IInv
  <1>1. ctx[w].order \in Orders
    BY DEF ReopenRead, ReopenCheck, ReopenTake, ReopenSet, WorkersInv, HoldsRow
  <1>2. /\ Moves(w)
        /\ pc'[w] \in {"create_payment", "reopen_check", "reopen_take", "reopen_set", "idle"}
        /\ pc'[w] # "idle" => ctx'[w].order \in Orders
    BY <1>1, GotoMoves, FinishMoves
    DEF ReopenRead, ReopenCheck, ReopenTake, ReopenSet, Labels
  <1>3. HoldsRow(w)' /\ HoldsWord(w)' /\ OwnsPush(w)'
    BY <1>2, LightHolds DEF WithPayment, Confirmed, Pushing
  <1>4. CASE ReopenRead(w) \/ ReopenCheck(w)
    BY <1>2, <1>3, <1>4, LookKeeps DEF ReopenRead, ReopenCheck, TypeOK
  <1>5. CASE ReopenTake(w)
    <2>1. TypeOK'
      BY <1>1, <1>2, <1>5, MoveTypes, TakeTypes DEF ReopenTake, TypeOK, rowVars, outVars
    <2> QED
      BY <1>2, <1>3, <1>5, <2>1, RowsStand DEF ReopenTake
  <1>6. CASE ReopenSet(w)
    <2>1. TypeOK'
      BY <1>1, <1>2, <1>6, MoveTypes, OrderTypes DEF ReopenSet, TypeOK, rowVars, outVars
    <2>2. PaidInv'
      BY <1>1, <1>6 DEF ReopenSet, PaidInv, Backed, TypeOK, rowVars
    <2> QED
      BY <1>2, <1>3, <1>6, <2>1, <2>2, RowsStand DEF ReopenSet
  <1> QED
    BY <1>4, <1>5, <1>6

\* What Daraja reports as an outcome is what became of the prompt.
LEMMA ResultsTrue ==
  ASSUME NEW p \in Payments, NEW result \in QueryResults(p) \intersect Outcomes
  PROVE  prompt[p] = result
  BY DEF QueryResults, Outcomes, Failures

\* A payment that is settled was asked about, or is overdue.
LEMMA SettleHolds ==
  ASSUME IInv, NEW w \in Workers, pc[w] \in {"query", "cb_apply"},
         NEW result \in Outcomes, Settle(w, result), UNCHANGED <<rowVars, prompt>>,
         result = "SUCCESS" => /\ checkoutRequestId[ctx[w].payment]
                               /\ prompt[ctx[w].payment] = "SUCCESS"
  PROVE  Moves(w) /\ HoldsRow(w)' /\ HoldsWord(w)' /\ OwnsPush(w)'
  <1>1. /\ Moves(w)
        /\ pc'[w] = IF result = "SUCCESS" THEN "succ_claim" ELSE "fail_claim"
        /\ ctx'[w].order = ctx[w].order
        /\ ctx'[w].payment = ctx[w].payment /\ ctx'[w].outcome = result
    BY SettleMoves DEF WithPayment
  <1>2. HoldsRow(w)
    BY DEF IInv, WorkersInv
  <1> QED
    BY <1>1, <1>2
    DEF HoldsRow, HoldsWord, OwnsPush, WithPayment, Confirmed, Pushing, Outcomes, Failures, rowVars

LEMMA StillPendingHolds ==
  ASSUME IInv, NEW w \in Workers, pc[w] = "query", NEW verifying, StillPending(w, verifying),
         UNCHANGED <<rowVars, prompt>>
  PROVE  Moves(w) /\ HoldsRow(w)' /\ HoldsWord(w)' /\ OwnsPush(w)'
  <1>1. Settle(w, "EXPIRED") \/ Finish(w)
    BY DEF StillPending
  <1> QED
    BY <1>1, SettleHolds, FinishMoves DEF IInv, Outcomes, Failures

LEMMA QueryKeeps ==
  ASSUME IInv, NEW w \in Workers, QueryNoId(w) \/ QueryTooSoon(w) \/ Query(w)
  PROVE  IInv'
  <1> USE DEF IInv
  <1>1. CASE QueryNoId(w)
    <2>1. CASE Goto(w, "giveup_claim")
      <3>1. Moves(w) /\ pc'[w] = "giveup_claim" /\ ctx'[w] = ctx[w]
        BY <2>1, GotoMoves DEF Labels
      <3>2. HoldsRow(w)' /\ HoldsWord(w)' /\ OwnsPush(w)'
        BY <1>1, <3>1 DEF QueryNoId, WorkersInv, HoldsRow, HoldsWord, OwnsPush,
                          WithPayment, Confirmed, Pushing, rowVars
      <3> QED
        BY <1>1, <3>1, <3>2, LookKeeps DEF QueryNoId, TypeOK
    <2>2. CASE StillPending(w, ctx[w].seenVerifying)
      BY <1>1, <2>2, StillPendingHolds, LookKeeps DEF QueryNoId, TypeOK
    <2> QED
      BY <1>1, <2>1, <2>2 DEF QueryNoId
  <1>2. CASE QueryTooSoon(w)
    BY <1>2, StillPendingHolds, LookKeeps DEF QueryTooSoon, TypeOK
  <1>3. CASE Query(w)
    <2> DEFINE p == ctx[w].payment
    <2>1. /\ pc[w] = "query" /\ p \in Payments /\ checkoutRequestId[p]
          /\ UNCHANGED <<rowVars, prompt>>
          /\ ctx[w].seenVerifying \in BOOLEAN
      BY <1>3 DEF Query, WorkersInv, HoldsRow, HoldsWord, WithPayment, TypeOK, Context
    <2>2. PICK result \in QueryResults(p) :
            LET verifying == result = "PROCESSING" \/ ctx[w].seenVerifying
            IN  /\ isVerifying' = [isVerifying EXCEPT ![p] = verifying]
                /\ \/ Settle(w, "EXPIRED")
                   \/ result \in Outcomes /\ Settle(w, result)
                   \/ StillPending(w, verifying)
      BY <1>3 DEF Query
    <2>3. isVerifying' \in [Payments -> BOOLEAN]
      BY <2>1, <2>2 DEF TypeOK
    <2>4. Moves(w) /\ HoldsRow(w)' /\ HoldsWord(w)' /\ OwnsPush(w)'
      BY <2>1, <2>2, SettleHolds, StillPendingHolds, ResultsTrue DEF Outcomes, Failures
    <2> QED
      BY <1>3, <2>3, <2>4, LookKeeps DEF Query
  <1> QED
    BY <1>1, <1>2, <1>3

LEMMA CallbackKeeps ==
  ASSUME IInv, NEW w \in Workers, CallbackConfirm(w) \/ CallbackApply(w)
  PROVE  IInv'
  <1> USE DEF IInv
  <1> DEFINE p == ctx[w].payment
  <1>1. /\ p \in Payments /\ checkoutRequestId[p] /\ UNCHANGED <<rowVars, prompt>>
        /\ ctx[w] \in Context /\ HoldsRow(w) /\ HoldsWord(w)
    BY DEF CallbackConfirm, CallbackApply, WorkersInv, HoldsRow, HoldsWord, WithPayment, TypeOK
  <1>2. CASE CallbackConfirm(w)
    <2>1. ASSUME NEW result \in QueryResults(p) \intersect Outcomes,
                 GotoWith(w, "cb_apply", [ctx[w] EXCEPT !.outcome = result])
          PROVE  Moves(w) /\ HoldsRow(w)' /\ HoldsWord(w)' /\ OwnsPush(w)'
      <3> DEFINE c == [ctx[w] EXCEPT !.outcome = result]
      <3>1. c \in Context /\ c.order = ctx[w].order /\ c.payment = p /\ c.outcome = result
        BY <1>1 DEF Context
      <3> HIDE DEF c
      <3>2. Moves(w) /\ pc'[w] = "cb_apply" /\ ctx'[w] = c
        BY <2>1, <3>1, GotoWithMoves DEF Labels, c
      <3>3. prompt[p] = result
        BY <1>1, ResultsTrue
      <3> QED
        BY <1>1, <1>2, <3>1, <3>2, <3>3
        DEF CallbackConfirm, HoldsRow, HoldsWord, OwnsPush, WithPayment, Confirmed, Pushing, rowVars
    <2>2. Moves(w) /\ HoldsRow(w)' /\ HoldsWord(w)' /\ OwnsPush(w)'
      BY <1>2, <2>1, FinishMoves DEF CallbackConfirm
    <2>3. isVerifying' \in [Payments -> BOOLEAN]
      BY <1>1, <1>2 DEF CallbackConfirm, TypeOK, Context
    <2> QED
      BY <1>2, <2>2, <2>3, LookKeeps DEF CallbackConfirm
  <1>3. CASE CallbackApply(w)
    <2>1. Settle(w, ctx[w].outcome) \/ Finish(w)
      BY <1>3 DEF CallbackApply
    <2>2. Moves(w) /\ HoldsRow(w)' /\ HoldsWord(w)' /\ OwnsPush(w)'
      BY <1>1, <1>3, <2>1, SettleHolds, FinishMoves DEF CallbackApply, HoldsWord
    <2>3. isVerifying' \in [Payments -> BOOLEAN]
      BY <1>1, <1>3 DEF CallbackApply, TypeOK
    <2> QED
      BY <1>3, <2>2, <2>3, LookKeeps DEF CallbackApply
  <1> QED
    BY <1>2, <1>3

\* One row changes its status, and not away from SUCCESS.
LEMMA StatusKeeps ==
  ASSUME IInv, NEW w \in Workers, NEW p \in Payments, p <= made,
         NEW status \in Outcomes, paymentStatus[p] # "SUCCESS", SetStatus(p, status),
         status = "SUCCESS" => prompt[p] = "SUCCESS" /\ checkoutRequestId[p],
         Moves(w), HoldsRow(w)', HoldsWord(w)', OwnsPush(w)',
         isVerifying' = [isVerifying EXCEPT ![p] = FALSE],
         UNCHANGED <<orderVars, age, outVars, prompt, crashes>>
  PROVE  IInv'
  <1> USE DEF IInv
  <1>1. paymentStatus' \in [Payments -> PaymentStatus]
    BY StatusTypes DEF SetStatus, PaymentStatus
  <1>2. isVerifying' \in [Payments -> BOOLEAN]
    BY DEF TypeOK
  <1>3. TypeOK'
    BY <1>1, <1>2, MoveTypes DEF SetStatus, TypeOK, orderVars, outVars
  <1>4. RowsInv' /\ RowsGrow
    BY DEF SetStatus, RowsInv, RowsGrow, TypeOK, Payments
  <1>5. \A v \in Workers \ {w} : PushKept(v)
    BY DEF SetStatus, PushKept, WorkersInv, OwnsPush
  <1>6. PaidInv' /\ TicketsInv'
    BY <1>4, BackingLasts DEF PaidInv, TicketsInv, Backed, orderVars
  <1> QED
    BY <1>3, <1>4, <1>5, <1>6, OthersKeep DEF TypeOK

LEMMA SuccessKeeps ==
  ASSUME IInv, NEW w \in Workers,
         ClaimSuccess(w) \/ CheckOther(w) \/ MarkPaidRead(w) \/ MarkPaidReserve(w) \/ MarkPaidSet(w)
  PROVE  IInv'
  <1> USE DEF IInv
  <1> DEFINE p == ctx[w].payment
             o == ctx[w].order
  <1>1. /\ o \in Orders /\ p \in Payments /\ p <= made /\ orderOf[p] = o
        /\ pc[w] = "succ_claim" => prompt[p] = "SUCCESS" /\ checkoutRequestId[p]
        /\ pc[w] \in Confirmed => paymentStatus[p] = "SUCCESS"
        /\ pc[w] # "idle"
    BY DEF ClaimSuccess, CheckOther, MarkPaidRead, MarkPaidReserve, MarkPaidSet,
           WorkersInv, HoldsRow, HoldsWord, WithPayment, Confirmed
  <1>2. CASE ClaimSuccess(w)
    <2>1. CASE paymentStatus[p] # "SUCCESS"
      <3>1. Moves(w) /\ pc'[w] = "check_other" /\ ctx'[w] = ctx[w]
        BY <1>2, <2>1, GotoMoves DEF ClaimSuccess, Labels
      <3>2. /\ SetStatus(p, "SUCCESS")
            /\ isVerifying' = [isVerifying EXCEPT ![p] = FALSE]
            /\ UNCHANGED <<orderVars, age, outVars, prompt, crashes>>
        BY <1>2, <2>1 DEF ClaimSuccess
      <3>3. paymentStatus'[p] = "SUCCESS" /\ UNCHANGED <<made, orderOf, checkoutRequestId>>
        BY <1>1, <3>2 DEF SetStatus, TypeOK
      <3>4. HoldsRow(w)' /\ HoldsWord(w)' /\ OwnsPush(w)'
        BY <1>1, <3>1, <3>3 DEF HoldsRow, HoldsWord, OwnsPush, Confirmed, Pushing
      <3>5. pc[w] = "succ_claim"
        BY <1>2 DEF ClaimSuccess
      <3> QED
        BY <1>1, <2>1, <3>1, <3>2, <3>4, <3>5, StatusKeeps DEF Outcomes
    <2>2. CASE paymentStatus[p] = "SUCCESS"
      BY <1>1, <1>2, <2>2, ReturnMoves, LookKeeps DEF ClaimSuccess, TypeOK
    <2> QED
      BY <2>1, <2>2
  <1>3. ASSUME CheckOther(w) \/ MarkPaidRead(w) \/ MarkPaidReserve(w) \/ MarkPaidSet(w)
        PROVE  /\ Moves(w) /\ HoldsRow(w)' /\ HoldsWord(w)' /\ OwnsPush(w)'
               /\ paymentStatus[p] = "SUCCESS"
    <2>1. /\ Moves(w) /\ ctx'[w] = ctx[w]
          /\ pc'[w] \in {"paid_read", "paid_reserve", "paid_late", "paid_set", "issue_read"}
      BY <1>3, GotoMoves DEF CheckOther, MarkPaidRead, MarkPaidReserve, MarkPaidSet, Labels
    <2>2. UNCHANGED <<rowVars, prompt>> /\ pc[w] \in Confirmed
      BY <1>3 DEF CheckOther, MarkPaidRead, MarkPaidReserve, MarkPaidSet, Confirmed
    <2> QED
      BY <1>1, <2>1, <2>2 DEF HoldsRow, HoldsWord, OwnsPush, Confirmed, Pushing, rowVars
  <1>4. CASE CheckOther(w)
    <2>1. TypeOK'
      BY <1>1, <1>3, <1>4, MoveTypes DEF CheckOther, TypeOK, orderVars, rowVars
    <2> QED
      BY <1>3, <1>4, <2>1, RowsStand DEF CheckOther, orderVars
  <1>5. CASE MarkPaidRead(w)
    BY <1>3, <1>5, LookKeeps DEF MarkPaidRead, TypeOK
  <1>6. CASE MarkPaidReserve(w)
    <2>1. TypeOK'
      BY <1>1, <1>3, <1>6, MoveTypes, TakeTypes DEF MarkPaidReserve, TypeOK, rowVars, outVars
    <2> QED
      BY <1>3, <1>6, <2>1, RowsStand DEF MarkPaidReserve
  <1>7. CASE MarkPaidSet(w)
    <2>1. TypeOK'
      BY <1>1, <1>3, <1>7, MoveTypes, OrderTypes DEF MarkPaidSet, TypeOK, rowVars, outVars
    <2>2. PaidInv'
      BY <1>1, <1>3, <1>7 DEF MarkPaidSet, PaidInv, Backed, TypeOK, rowVars
    <2> QED
      BY <1>3, <1>7, <2>1, <2>2, RowsStand DEF MarkPaidSet
  <1> QED
    BY <1>2, <1>4, <1>5, <1>6, <1>7

LEMMA IssueKeeps ==
  ASSUME IInv, NEW w \in Workers, IssueRead(w) \/ Issue(w)
  PROVE  IInv'
  <1> USE DEF IInv
  <1>1. ctx[w].order \in Orders
    BY DEF IssueRead, Issue, WorkersInv, HoldsRow
  <1>2. CASE IssueRead(w)
    <2>1. ASSUME orderStatus[ctx[w].order] = "PAID"
          PROVE  Moves(w) /\ HoldsRow(w)' /\ HoldsWord(w)' /\ OwnsPush(w)'
      <3>1. Moves(w) /\ pc'[w] = "issue" /\ ctx'[w] = ctx[w]
        BY <1>2, <2>1, GotoMoves DEF IssueRead, Labels
      <3>2. Backed(ctx[w].order) /\ UNCHANGED <<rowVars, prompt>>
        BY <1>1, <1>2, <2>1 DEF IssueRead, PaidInv
      <3> QED
        BY <1>1, <3>1, <3>2
        DEF HoldsRow, HoldsWord, OwnsPush, Backed, WithPayment, Confirmed, Pushing, rowVars
    <2>2. Moves(w) /\ HoldsRow(w)' /\ HoldsWord(w)' /\ OwnsPush(w)'
      BY <1>2, <2>1, FinishMoves DEF IssueRead
    <2>3. TypeOK'
      BY <1>1, <1>2, <2>2, MoveTypes DEF IssueRead, TypeOK, rowVars, outVars
    <2> QED
      BY <1>2, <2>2, <2>3, RowsStand DEF IssueRead
  <1>3. CASE Issue(w)
    <2>1. Moves(w) /\ HoldsRow(w)' /\ HoldsWord(w)' /\ OwnsPush(w)'
      BY <1>3, ReturnMoves DEF Issue
    <2>2. TicketsInv' /\ tickets' \in [Orders -> Nat]
      BY <1>1, <1>3 DEF Issue, TicketsInv, TypeOK
    <2>3. TypeOK'
      BY <1>3, <2>1, <2>2, MoveTypes DEF Issue, TypeOK, rowVars, outVars
    <2> QED
      BY <1>3, <2>1, <2>2, <2>3, RowsStand DEF Issue
  <1> QED
    BY <1>2, <1>3

LEMMA FailureKeeps ==
  ASSUME IInv, NEW w \in Workers,
         ClaimFailure(w) \/ ClaimGiveUp(w) \/ MarkFailed(w) \/ ReleaseReservation(w)
  PROVE  IInv'
  <1> USE DEF IInv
  <1> DEFINE p == ctx[w].payment
             o == ctx[w].order
  <1>1. /\ o \in Orders /\ p \in Payments /\ p <= made /\ orderOf[p] = o
        /\ pc[w] = "fail_claim" => ctx[w].outcome \in Failures
        /\ pc[w] # "idle"
    BY DEF ClaimFailure, ClaimGiveUp, MarkFailed, ReleaseReservation,
           WorkersInv, HoldsRow, HoldsWord, WithPayment
  <1>2. CASE ClaimFailure(w)
    <2>1. CASE paymentStatus[p] = "PENDING"
      <3>1. /\ SetStatus(p, ctx[w].outcome) /\ Goto(w, "order_fail")
            /\ isVerifying' = [isVerifying EXCEPT ![p] = FALSE]
            /\ UNCHANGED <<orderVars, age, outVars, prompt, crashes>>
            /\ ctx[w].outcome \in Failures
        BY <1>1, <1>2, <2>1 DEF ClaimFailure, ClaimPending
      <3>2. Moves(w) /\ pc'[w] = "order_fail" /\ ctx'[w] = ctx[w]
        BY <3>1, GotoMoves DEF Labels
      <3>3. HoldsRow(w)' /\ HoldsWord(w)' /\ OwnsPush(w)'
        BY <1>1, <3>1, <3>2 DEF SetStatus, HoldsRow, HoldsWord, OwnsPush, Confirmed, Pushing
      <3> QED
        BY <1>1, <2>1, <3>1, <3>2, <3>3, StatusKeeps DEF Outcomes, Failures
    <2>2. CASE paymentStatus[p] # "PENDING"
      BY <1>1, <1>2, <2>2, ReturnMoves, LookKeeps DEF ClaimFailure, ClaimPending, TypeOK
    <2> QED
      BY <2>1, <2>2
  <1>3. CASE ClaimGiveUp(w)
    <2>1. Return(w)
      BY <1>3 DEF ClaimGiveUp, ClaimPending
    <2>2. Moves(w) /\ HoldsRow(w)' /\ HoldsWord(w)' /\ OwnsPush(w)'
      BY <1>1, <2>1, ReturnMoves
    <2>3. CASE paymentStatus[p] = "PENDING"
      <3>1. /\ SetStatus(p, "FAILED")
            /\ isVerifying' = [isVerifying EXCEPT ![p] = FALSE]
            /\ UNCHANGED <<orderVars, age, outVars, prompt, crashes>>
        BY <1>3, <2>3 DEF ClaimGiveUp, ClaimPending
      <3> QED
        BY <1>1, <2>2, <2>3, <3>1, StatusKeeps DEF Outcomes, Failures
    <2>4. CASE paymentStatus[p] # "PENDING"
      BY <1>3, <2>2, <2>4, LookKeeps DEF ClaimGiveUp, ClaimPending, TypeOK
    <2> QED
      BY <2>3, <2>4
  <1>4. CASE MarkFailed(w)
    <2>1. Moves(w) /\ HoldsRow(w)' /\ HoldsWord(w)' /\ OwnsPush(w)'
      <3>1. CASE Return(w)
        BY <1>1, <3>1, ReturnMoves
      <3>2. CASE Goto(w, "release")
        <4>1. Moves(w) /\ pc'[w] = "release" /\ ctx'[w] = ctx[w]
          BY <3>2, GotoMoves DEF Labels
        <4> QED
          BY <1>1, <1>4, <4>1 DEF MarkFailed, HoldsRow, HoldsWord, OwnsPush, Confirmed, Pushing, rowVars
      <3> QED
        BY <1>4, <3>1, <3>2 DEF MarkFailed
    <2>2. orderStatus' \in [Orders -> OrderStatus] /\ notices' \subseteq Payments
      BY <1>1, <1>4, OrderTypes DEF MarkFailed, EnqueueNotice, TypeOK
    <2>3. TypeOK'
      BY <1>4, <2>1, <2>2, MoveTypes DEF MarkFailed, TypeOK, rowVars
    <2>4. PaidInv'
      BY <1>1, <1>4 DEF MarkFailed, PaidInv, Backed, TypeOK, rowVars
    <2> QED
      BY <1>4, <2>1, <2>3, <2>4, RowsStand DEF MarkFailed
  <1>5. CASE ReleaseReservation(w)
    <2>1. Moves(w) /\ HoldsRow(w)' /\ HoldsWord(w)' /\ OwnsPush(w)'
      BY <1>1, <1>5, ReturnMoves DEF ReleaseReservation
    <2>2. quantitySold' \in Nat
      BY <1>1, <1>5, CheckoutAssumption DEF ReleaseReservation, TypeOK
    <2>3. notices' \subseteq Payments
      BY <1>1, <1>5 DEF ReleaseReservation, EnqueueNotice, TypeOK
    <2>4. TypeOK'
      BY <1>5, <2>1, <2>2, <2>3, MoveTypes DEF ReleaseReservation, TypeOK, rowVars
    <2> QED
      BY <1>5, <2>1, <2>4, RowsStand DEF ReleaseReservation
  <1> QED
    BY <1>2, <1>3, <1>4, <1>5

LEMMA SurroundingsKeep ==
  ASSUME IInv, Surroundings \/ UNCHANGED vars
  PROVE  IInv'
  <1> USE DEF IInv
  <1>1. ASSUME NEW p \in Payments, Answer(p)
        PROVE  IInv'
    <2>1. prompt' \in [Payments -> Prompts] /\ \A q \in Payments \ {p} : prompt'[q] = prompt[q]
      BY <1>1, CheckoutAssumption DEF Answer, TypeOK, Prompts, Outcomes
    <2>2. TypeOK'
      BY <1>1, <2>1 DEF Answer, TypeOK, orderVars, rowVars, outVars, workerVars
    <2>3. RowsInv'
      BY <1>1, <2>1 DEF Answer, RowsInv, TypeOK, rowVars
    <2>4. WorkersInv'
      BY <1>1, <2>1
      DEF Answer, WorkersInv, HoldsRow, HoldsWord, OwnsPush, Backed, WithPayment, Confirmed,
          Pushing, rowVars, workerVars
    <2> QED
      BY <1>1, <2>2, <2>3, <2>4 DEF Answer, PaidInv, TicketsInv, Backed, orderVars, rowVars
  <1>2. ASSUME UNCHANGED <<orderStatus, tickets, rowVars, prompt, workerVars>>, TypeOK'
        PROVE  IInv'
    BY <1>2 DEF RowsInv, PaidInv, WorkersInv, TicketsInv, HoldsRow, HoldsWord, OwnsPush, Backed,
                rowVars, workerVars
  <1>3. CASE StopSales
    BY <1>2, <1>3 DEF StopSales, TypeOK, rowVars, outVars, workerVars
  <1>4. ASSUME NEW p \in Payments, Tick(p)
        PROVE  IInv'
    <2>1. age' \in [Payments -> Nat]
      BY <1>4 DEF Tick, TypeOK
    <2> QED
      BY <1>2, <1>4, <2>1 DEF Tick, TypeOK, orderVars, rowVars, outVars, workerVars
  <1>7. ASSUME NEW o \in Orders, FlagCommission(o)
        PROVE  IInv'
    BY <1>2, <1>7 DEF FlagCommission, TypeOK, orderVars, rowVars, workerVars
  <1>5. CASE Crash
    <2>1. TypeOK'
      BY <1>5, IdleType DEF Crash, TypeOK, Labels, orderVars, rowVars, outVars
    <2>2. WorkersInv'
      BY <1>5 DEF Crash, WorkersInv, HoldsRow, HoldsWord, OwnsPush, WithPayment, Confirmed, Pushing
    <2> QED
      BY <1>5, <2>1, <2>2 DEF Crash, RowsInv, PaidInv, TicketsInv, Backed, orderVars, rowVars
  <1>6. CASE UNCHANGED vars
    BY <1>2, <1>6 DEF vars, TypeOK, orderVars, rowVars, outVars, workerVars
  <1> QED
    BY <1>1, <1>3, <1>4, <1>5, <1>6, <1>7 DEF Surroundings

-----------------------------------------------------------------------------
(* The invariant of the specification, and the type invariant with it.      *)

\* Whatever handlers interleave and whenever the process restarts, every worker
\* stays entitled to what it is about to write (IInv).
THEOREM Inductive == Spec => []IInv
  <1>1. ASSUME IInv, [Next]_vars
        PROVE  IInv'
    <2>1. ASSUME NEW w \in Workers, Start(w)
          PROVE  IInv'
      <3>1. ASSUME NEW o \in Orders, CreateCheck(w, o)
            PROVE  IInv'
        BY <1>1, <3>1, CreateCheckKeeps
      <3>2. ASSUME NEW o \in Orders, InitiateStart(w, o) \/ RecoverStart(w, o)
            PROVE  IInv'
        BY <1>1, <3>2, OrderStartKeeps
      <3>3. ASSUME NEW p \in Payments, ReconcileStart(w, p) \/ CallbackStart(w, p)
            PROVE  IInv'
        BY <1>1, <3>3, RowStartKeeps
      <3> QED
        BY <2>1, <3>1, <3>2, <3>3 DEF Start
    <2>2. ASSUME NEW w \in Workers, Continue(w)
          PROVE  IInv'
      <3>1. CASE CreateReserve(w)
        BY <1>1, <3>1, CreateReserveKeeps
      <3>2. CASE Initiation(w)
        BY <1>1, <3>2, FindKeeps, ReopenKeeps, CreatePaymentKeeps, PushKeeps DEF Initiation
      <3>3. CASE QueryNoId(w) \/ QueryTooSoon(w) \/ Query(w)
        BY <1>1, <3>3, QueryKeeps
      <3>4. CASE Settlement(w)
        BY <1>1, <3>4, SuccessKeeps, IssueKeeps, FailureKeeps DEF Settlement
      <3>5. CASE CallbackConfirm(w) \/ CallbackApply(w)
        BY <1>1, <3>5, CallbackKeeps
      <3> QED
        BY <2>2, <3>1, <3>2, <3>3, <3>4, <3>5 DEF Continue
    <2> QED
      BY <1>1, <2>1, <2>2, SurroundingsKeep DEF Next
  <1> QED
    BY <1>1, InitIInv, PTL DEF Spec

\* Every variable keeps its type (TypeOK): no status, row or local of a handler is
\* ever outside what schema.prisma and the handlers' signatures allow.
THEOREM TypeCorrect == Spec => []TypeOK
  <1>1. IInv => TypeOK
    BY DEF IInv
  <1> QED
    BY <1>1, Inductive, PTL

-----------------------------------------------------------------------------
(* The checkout implements TicketSale. *)

LEMMA SaleInit == Init => Sale!Init
  BY DEF Init, Sale!Init

LEMMA SaleStands ==
  ASSUME UNCHANGED <<orderOf, prompt, paymentStatus, tickets>>
  PROVE  UNCHANGED Sale!saleVars
  BY DEF Sale!saleVars

\* A row that is not SUCCESS and does not become SUCCESS leaves the record alone.
LEMMA RecordStands ==
  ASSUME IInv, NEW p \in Payments, NEW status \in Failures, paymentStatus[p] # "SUCCESS",
         SetStatus(p, status)
  PROVE  {q \in Payments : paymentStatus'[q] = "SUCCESS"}
           = {q \in Payments : paymentStatus[q] = "SUCCESS"}
  BY DEF IInv, TypeOK, SetStatus, Failures

LEMMA SaleStep ==
  ASSUME IInv, [Next]_vars
  PROVE  [Sale!Next]_(Sale!saleVars)
  <1> USE DEF IInv
  <1>1. ASSUME NEW w \in Workers, CreatePayment(w)
        PROVE  Sale!Next
    <2>1. made + 1 \in Payments /\ orderOf[made + 1] = NoOrder /\ ctx[w].order \in Orders
      BY SMTT(30), <1>1, CheckoutAssumption
      DEF CreatePayment, TypeOK, Payments, RowsInv, WorkersInv, HoldsRow
    <2>2. {q \in Payments : paymentStatus'[q] = "SUCCESS"}
            = {q \in Payments : paymentStatus[q] = "SUCCESS"}
      BY <1>1, <2>1 DEF CreatePayment, TypeOK, RowsInv, Payments
    <2>3. Sale!Attempt(made + 1, ctx[w].order)
      BY <1>1, <2>1, <2>2 DEF CreatePayment, Sale!Attempt, orderVars
    <2> QED
      BY <2>1, <2>3 DEF Sale!Next
  <1>2. ASSUME NEW w \in Workers, Push(w) \/ PushFail(w)
        PROVE  UNCHANGED Sale!saleVars
    <2>1. /\ ctx[w].payment \in Payments /\ paymentStatus[ctx[w].payment] # "SUCCESS"
          /\ pc[w] = "push" => prompt[ctx[w].payment] = "none"
      BY <1>2 DEF Push, PushFail, Pushing, WithPayment, WorkersInv, HoldsRow, OwnsPush, RowsInv
    <2>2. CASE Push(w)
      <3>1. {q \in Payments : prompt'[q] = "SUCCESS"} = {q \in Payments : prompt[q] = "SUCCESS"}
        BY <2>1, <2>2 DEF Push, TypeOK
      <3> QED
        BY <2>2, <3>1 DEF Push, Sale!saleVars, orderVars, rowVars
    <2>3. CASE PushFail(w)
      BY <2>1, <2>3, RecordStands DEF PushFail, SetStatus, Sale!saleVars, orderVars, Failures
    <2> QED
      BY <1>2, <2>2, <2>3
  <1>3. ASSUME NEW w \in Workers, ClaimSuccess(w)
        PROVE  [Sale!Next]_(Sale!saleVars)
    <2>1. PICK p \in Payments : p = ctx[w].payment /\ prompt[p] = "SUCCESS"
      BY <1>3 DEF ClaimSuccess, WorkersInv, HoldsRow, HoldsWord, WithPayment
    <2>2. CASE paymentStatus[p] = "SUCCESS"
      BY <1>3, <2>1, <2>2, SaleStands DEF ClaimSuccess, orderVars, rowVars
    <2>3. CASE paymentStatus[p] # "SUCCESS"
      <3>1. {q \in Payments : paymentStatus'[q] = "SUCCESS"}
              = {q \in Payments : paymentStatus[q] = "SUCCESS"} \union {p}
        BY <1>3, <2>1, <2>3 DEF ClaimSuccess, SetStatus, TypeOK
      <3>2. Sale!Confirm(p)
        BY <1>3, <2>1, <2>3, <3>1 DEF ClaimSuccess, SetStatus, Sale!Confirm, orderVars
      <3> QED
        BY <3>2 DEF Sale!Next
    <2> QED
      BY <2>2, <2>3
  <1>4. ASSUME NEW w \in Workers, Issue(w)
        PROVE  [Sale!Next]_(Sale!saleVars)
    <2> DEFINE o == ctx[w].order
    <2>1. o \in Orders /\ Backed(o) /\ tickets[o] \in {0, 1}
      BY <1>4 DEF Issue, WorkersInv, HoldsRow, HoldsWord, TicketsInv
    <2>2. CASE tickets[o] = 0
      <3>1. Sale!Issue(o)
        BY <1>4, <2>1, <2>2 DEF Issue, Sale!Issue, Backed, rowVars
      <3> QED
        BY <2>1, <3>1 DEF Sale!Next
    <2>3. CASE tickets[o] = 1
      BY <1>4, <2>3, SaleStands DEF Issue, rowVars
    <2> QED
      BY <2>1, <2>2, <2>3
  <1>5. ASSUME NEW w \in Workers, ClaimFailure(w) \/ ClaimGiveUp(w)
        PROVE  UNCHANGED Sale!saleVars
    <2>1. ctx[w].payment \in Payments /\ (pc[w] = "fail_claim" => ctx[w].outcome \in Failures)
      BY <1>5 DEF ClaimFailure, ClaimGiveUp, WorkersInv, HoldsRow, HoldsWord, WithPayment
    <2>2. CASE paymentStatus[ctx[w].payment] = "PENDING"
      BY <1>5, <2>1, <2>2, RecordStands
      DEF ClaimFailure, ClaimGiveUp, ClaimPending, SetStatus, Sale!saleVars, orderVars, Failures
    <2>3. CASE paymentStatus[ctx[w].payment] # "PENDING"
      BY <1>5, <2>3, SaleStands DEF ClaimFailure, ClaimGiveUp, ClaimPending, orderVars, rowVars
    <2> QED
      BY <2>2, <2>3
  <1>6. ASSUME NEW p \in Payments, Answer(p)
        PROVE  [Sale!Next]_(Sale!saleVars)
    <2>1. PICK result \in Declines \union {"SUCCESS"} : prompt' = [prompt EXCEPT ![p] = result]
      BY <1>6 DEF Answer
    <2>2. CASE result = "SUCCESS"
      <3>1. {q \in Payments : prompt'[q] = "SUCCESS"}
              = {q \in Payments : prompt[q] = "SUCCESS"} \union {p}
        BY <2>1, <2>2 DEF TypeOK
      <3>2. Sale!Take(p)
        BY <1>6, <3>1 DEF Answer, Sale!Take, orderVars, rowVars
      <3> QED
        BY <3>2 DEF Sale!Next
    <2>3. CASE result # "SUCCESS"
      <3>1. {q \in Payments : prompt'[q] = "SUCCESS"} = {q \in Payments : prompt[q] = "SUCCESS"}
        BY <1>6, <2>1, <2>3 DEF Answer, TypeOK
      <3> QED
        BY <1>6, <3>1 DEF Answer, Sale!saleVars, orderVars, rowVars
    <2> QED
      BY <2>2, <2>3
  <1>7. ASSUME NEW w \in Workers, Start(w) \/ Continue(w)
        PROVE  [Sale!Next]_(Sale!saleVars)
    <2>1. \/ CreatePayment(w) \/ Push(w) \/ PushFail(w) \/ ClaimSuccess(w) \/ Issue(w)
          \/ ClaimFailure(w) \/ ClaimGiveUp(w)
          \/ UNCHANGED <<orderOf, prompt, paymentStatus, tickets>>
      <3>1. CASE Start(w)
        BY <3>1 DEF Start, CreateCheck, InitiateStart, RecoverStart, ReconcileStart, CallbackStart,
                    orderVars, rowVars
      <3>2. CASE Initiation(w)
        BY <3>2 DEF Initiation, FindExisting, ReopenRead, ReopenCheck, ReopenTake, ReopenSet,
                    PushSave, orderVars, rowVars
      <3>3. CASE Settlement(w)
        BY <3>3 DEF Settlement, CheckOther, MarkPaidRead, MarkPaidReserve, MarkPaidSet, IssueRead,
                    MarkFailed, ReleaseReservation, orderVars, rowVars
      <3>4. CASE \/ CreateReserve(w) \/ QueryNoId(w) \/ QueryTooSoon(w) \/ Query(w)
                 \/ CallbackConfirm(w) \/ CallbackApply(w)
        BY <3>4 DEF CreateReserve, QueryNoId, QueryTooSoon, Query, CallbackConfirm, CallbackApply,
                    orderVars, rowVars
      <3> QED
        BY <1>7, <3>1, <3>2, <3>3, <3>4 DEF Continue
    <2> QED
      BY <1>1, <1>2, <1>3, <1>4, <1>5, <2>1, SaleStands
  <1>8. CASE Surroundings \/ UNCHANGED vars
    BY <1>6, <1>8, SaleStands
    DEF Surroundings, FlagCommission, StopSales, Tick, Crash, vars, orderVars, rowVars
  <1> QED
    BY <1>7, <1>8 DEF Next

\* Whatever the handlers do, a payment is recorded SUCCESS only for money Safaricom
\* took, and tickets are issued once per order on the strength of such a record
\* (ImplementsTicketSale).
THEOREM Refinement == Spec => ImplementsTicketSale
  BY SaleInit, SaleStep, Inductive, PTL DEF Spec, ImplementsTicketSale, Sale!Spec

-----------------------------------------------------------------------------
(* One payment in flight per order. *)

\* Outside CreatePayment no row becomes PENDING.
PendingShrinks ==
  \A p \in Payments : paymentStatus'[p] = "PENDING" =>
                       paymentStatus[p] = "PENDING" /\ orderOf'[p] = orderOf[p]

\* Worker w alone moves, and takes no lock it did not hold.
Alone(w) == \A v \in Workers \ {w} : pc'[v] = pc[v] /\ ctx'[v] = ctx[v]
Faithful(w) == ctx'[w].op = "initiate" => ctx[w].op = "initiate" /\ ctx'[w].order = ctx[w].order

LEMMA StatusShrinks ==
  ASSUME TypeOK, NEW p \in Payments, NEW status \in Outcomes, SetStatus(p, status)
  PROVE  PendingShrinks /\ paymentStatus'[p] # "PENDING"
  BY DEF TypeOK, SetStatus, PendingShrinks, Outcomes, Failures

LEMMA StandShrinks ==
  ASSUME UNCHANGED rowVars
  PROVE  PendingShrinks
  BY DEF PendingShrinks, rowVars

LEMMA GotoAlone ==
  ASSUME TypeOK, NEW w \in Workers, NEW label, Goto(w, label)
  PROVE  Alone(w) /\ Faithful(w) /\ pc'[w] = label /\ ctx'[w] = ctx[w]
  BY DEF TypeOK, Goto, Alone, Faithful

LEMMA GotoWithAlone ==
  ASSUME TypeOK, NEW w \in Workers, NEW label, NEW c, GotoWith(w, label, c)
  PROVE  Alone(w) /\ pc'[w] = label /\ ctx'[w] = c
  BY DEF TypeOK, GotoWith, Alone

LEMMA FinishAlone ==
  ASSUME TypeOK, NEW w \in Workers, Finish(w)
  PROVE  Alone(w) /\ ctx'[w].op = "none" /\ Locked(w)' /\ pc'[w] = "idle"
  BY GotoWithAlone DEF Finish, Idle, Locked, Holding

LEMMA ReturnAlone ==
  ASSUME IInv, NEW w \in Workers, pc[w] # "idle", Return(w)
  PROVE  Alone(w) /\ Faithful(w) /\ Locked(w)'
  <1>1. CASE ctx[w].op # "initiate"
    BY <1>1, FinishAlone DEF Return, Faithful, IInv
  <1>2. CASE ctx[w].op = "initiate"
    <2>1. /\ Begin(ctx[w].order, "initiate").order = ctx[w].order
          /\ Begin(ctx[w].order, "initiate").op = "initiate"
      BY BeginType DEF IInv, WorkersInv, HoldsRow, Ops
    <2> QED
      BY <1>2, <2>1, GotoWithAlone DEF Return, Faithful, Locked, IInv
  <1> QED
    BY <1>1, <1>2

LEMMA SettleAlone ==
  ASSUME IInv, NEW w \in Workers, pc[w] \in WithPayment, NEW result \in Outcomes,
         Settle(w, result)
  PROVE  /\ Alone(w) /\ Faithful(w)
         /\ pc'[w] \in {"succ_claim", "fail_claim"} /\ ctx'[w].payment = ctx[w].payment
  <1>1. Alone(w)
    BY GotoWithAlone DEF Settle, IInv
  <1> QED
    BY <1>1, SettleMoves DEF Faithful

LEMMA StillPendingAlone ==
  ASSUME IInv, NEW w \in Workers, pc[w] = "query", NEW verifying, StillPending(w, verifying)
  PROVE  /\ Alone(w) /\ Faithful(w) /\ Locked(w)'
         /\ ctx'[w].op = "initiate" =>
              pc'[w] \in {"succ_claim", "fail_claim"} /\ ctx'[w].payment = ctx[w].payment
  <1>1. Settle(w, "EXPIRED") \/ Finish(w)
    BY DEF StillPending
  <1> QED
    BY <1>1, SettleAlone, FinishAlone
    DEF Faithful, Locked, Holding, WithPayment, Outcomes, Failures, IInv

\* What a statement of worker w does to the lock and to what w knows.
Carries(w) == Alone(w) /\ Faithful(w) /\ PendingShrinks
              /\ (Locked(w) => Locked(w)')
              /\ (ctx'[w].op = "initiate" =>
                   \A p \in Payments :
                     /\ paymentStatus'[p] = "PENDING" /\ orderOf[p] = ctx[w].order
                     /\ pc[w] = "find" \/ (pc[w] \in Claiming /\ ctx[w].payment = p)
                     => pc'[w] \in Claiming /\ ctx'[w].payment = p)

LEMMA FindCarries ==
  ASSUME IInv, OnePaymentInFlight, NEW w \in Workers, FindExisting(w)
  PROVE  Carries(w)
  <1> USE DEF IInv
  <1>1. PendingShrinks /\ UNCHANGED <<orderOf, paymentStatus>> /\ pc[w] = "find"
    BY StandShrinks DEF FindExisting, rowVars
  <1>2. CASE PendingPayments(ctx[w].order) = {} /\ Goto(w, "reopen_read")
    BY <1>1, <1>2, GotoAlone DEF Carries, PendingPayments, Locked, Holding
  <1>3. ASSUME NEW q \in PendingPayments(ctx[w].order), GotoWith(w, "query", Snapshot(ctx[w], q))
        PROVE  Carries(w)
    <2>1. /\ Snapshot(ctx[w], q).payment = q /\ Snapshot(ctx[w], q).op = ctx[w].op
          /\ Snapshot(ctx[w], q).order = ctx[w].order
      BY SnapshotType DEF PendingPayments, TypeOK
    <2>2. Alone(w) /\ pc'[w] = "query" /\ ctx'[w] = Snapshot(ctx[w], q)
      BY <1>3, GotoWithAlone
    <2> QED
      BY <1>1, <2>1, <2>2
      DEF Carries, Faithful, PendingPayments, OnePaymentInFlight, Claiming, Locked, Holding
  <1> QED
    BY <1>2, <1>3 DEF FindExisting

LEMMA QueryCarries ==
  ASSUME IInv, NEW w \in Workers, QueryNoId(w) \/ QueryTooSoon(w) \/ Query(w)
  PROVE  Carries(w)
  <1> USE DEF IInv
  <1>1. pc[w] = "query" /\ PendingShrinks
    BY StandShrinks DEF QueryNoId, QueryTooSoon, Query
  <1>2. \/ Goto(w, "giveup_claim")
        \/ \E verifying : StillPending(w, verifying)
        \/ \E result \in Outcomes : Settle(w, result)
    BY DEF QueryNoId, QueryTooSoon, Query, Outcomes, Failures
  <1>3. /\ Alone(w) /\ Faithful(w) /\ Locked(w)'
        /\ ctx'[w].op = "initiate" => /\ pc'[w] \in {"giveup_claim", "succ_claim", "fail_claim"}
                                      /\ ctx'[w].payment = ctx[w].payment
    BY <1>1, <1>2, GotoAlone, StillPendingAlone, SettleAlone DEF WithPayment, Locked, Holding
  <1> QED
    BY <1>1, <1>3 DEF Carries, Claiming

LEMMA PushCarries ==
  ASSUME IInv, NEW w \in Workers, Push(w) \/ PushSave(w) \/ PushFail(w)
  PROVE  Carries(w)
  <1> USE DEF IInv
  <1>1. CASE Push(w)
    <2>1. /\ Alone(w) /\ Faithful(w) /\ ctx'[w] = ctx[w]
          /\ pc'[w] \in {"push_save", "push_fail"} /\ pc[w] = "push"
      BY <1>1, GotoAlone DEF Push
    <2> QED
      BY <1>1, <2>1, StandShrinks DEF Push, Carries, Claiming, Pushing, Locked, Holding
  <1>2. CASE PushSave(w)
    BY <1>2, FinishAlone DEF PushSave, Carries, Faithful, PendingShrinks
  <1>3. CASE PushFail(w)
    <2>1. ctx[w].payment \in Payments
      BY <1>3 DEF PushFail, WorkersInv, HoldsRow, WithPayment, Pushing
    <2> QED
      BY <1>3, <2>1, FinishAlone, StatusShrinks DEF PushFail, Carries, Faithful, Outcomes, Failures
  <1> QED
    BY <1>1, <1>2, <1>3

LEMMA ClaimCarries ==
  ASSUME IInv, NEW w \in Workers, ClaimSuccess(w) \/ ClaimFailure(w) \/ ClaimGiveUp(w)
  PROVE  Carries(w)
  <1> USE DEF IInv
  <1>1. /\ ctx[w].payment \in Payments
        /\ pc[w] \in {"succ_claim", "fail_claim", "giveup_claim"}
        /\ pc[w] = "fail_claim" => ctx[w].outcome \in Failures
    BY DEF ClaimSuccess, ClaimFailure, ClaimGiveUp, WorkersInv, HoldsRow, HoldsWord, WithPayment
  <1>2. Alone(w) /\ Faithful(w) /\ Locked(w)'
    BY <1>1, GotoAlone, ReturnAlone
    DEF ClaimSuccess, ClaimFailure, ClaimGiveUp, ClaimPending, Locked, Holding
  <1>3. PendingShrinks /\ paymentStatus'[ctx[w].payment] # "PENDING"
    <2>1. CASE \E status \in Outcomes : SetStatus(ctx[w].payment, status)
      BY <1>1, <2>1, StatusShrinks
    <2>2. CASE UNCHANGED rowVars /\ paymentStatus[ctx[w].payment] # "PENDING"
      BY <2>2, StandShrinks DEF rowVars
    <2> QED
      BY <1>1, <2>1, <2>2
      DEF ClaimSuccess, ClaimFailure, ClaimGiveUp, ClaimPending, Outcomes, Failures
  <1> QED
    BY <1>1, <1>2, <1>3 DEF Carries

LEMMA OtherCarries ==
  ASSUME IInv, NEW w \in Workers,
         \/ ReopenRead(w) \/ ReopenCheck(w) \/ ReopenTake(w) \/ ReopenSet(w) \/ CreateReserve(w)
         \/ CheckOther(w) \/ MarkPaidRead(w) \/ MarkPaidReserve(w) \/ MarkPaidSet(w)
         \/ IssueRead(w) \/ Issue(w) \/ MarkFailed(w) \/ ReleaseReservation(w)
         \/ CallbackConfirm(w) \/ CallbackApply(w)
  PROVE  Carries(w)
  <1> USE DEF IInv
  <1>1. /\ pc[w] \notin Claiming \union {"find", "idle"}
        /\ UNCHANGED rowVars
    BY DEF ReopenRead, ReopenCheck, ReopenTake, ReopenSet, CreateReserve, CheckOther, MarkPaidRead,
           MarkPaidReserve, MarkPaidSet, IssueRead, Issue, MarkFailed, ReleaseReservation,
           CallbackConfirm, CallbackApply, Claiming, Pushing
  <1>2. \/ \E label \in Labels : Goto(w, label) /\ (label \in Holding => pc[w] \in Holding)
        \/ Finish(w) \/ Return(w)
        \/ CallbackConfirm(w) \/ CallbackApply(w)
    BY DEF ReopenRead, ReopenCheck, ReopenTake, ReopenSet, CreateReserve, CheckOther, MarkPaidRead,
           MarkPaidReserve, MarkPaidSet, IssueRead, Issue, MarkFailed, ReleaseReservation, Labels, Holding
  <1>3. CASE CallbackConfirm(w)
    <2>1. ASSUME NEW result, GotoWith(w, "cb_apply", [ctx[w] EXCEPT !.outcome = result])
          PROVE  Alone(w) /\ Faithful(w) /\ Locked(w)'
      <3> DEFINE c == [ctx[w] EXCEPT !.outcome = result]
      <3>1. c.op = ctx[w].op /\ c.order = ctx[w].order
        <4>1. ctx[w] \in Context
          BY DEF TypeOK
        <4> QED
          BY <4>1 DEF Context
      <3> HIDE DEF c
      <3>2. GotoWith(w, "cb_apply", c)
        BY <2>1 DEF c
      <3> QED
        BY <3>1, <3>2, GotoWithAlone DEF Faithful, Locked, Holding
    <2>2. Alone(w) /\ Faithful(w) /\ Locked(w)'
      BY <1>3, <2>1, FinishAlone DEF CallbackConfirm, Faithful
    <2> QED
      BY <1>1, <2>2, StandShrinks DEF Carries
  <1>4. CASE CallbackApply(w)
    <2>1. pc[w] \in WithPayment /\ ctx[w].outcome \in Outcomes
      BY <1>4 DEF CallbackApply, WorkersInv, HoldsWord, WithPayment
    <2>2. Alone(w) /\ Faithful(w) /\ Locked(w)'
      BY <1>4, <2>1, SettleAlone, FinishAlone DEF CallbackApply, Faithful, Locked, Holding
    <2> QED
      BY <1>1, <2>2, StandShrinks DEF Carries
  <1>5. CASE \/ \E label \in Labels : Goto(w, label) /\ (label \in Holding => pc[w] \in Holding)
             \/ Finish(w) \/ Return(w)
    <2>1. Alone(w) /\ Faithful(w) /\ (Locked(w) => Locked(w)')
      BY <1>1, <1>5, GotoAlone, FinishAlone, ReturnAlone DEF Faithful, Locked
    <2> QED
      BY <1>1, <2>1, StandShrinks DEF Carries
  <1> QED
    BY <1>2, <1>3, <1>4, <1>5

\* A continuation that carries its knowledge preserves the invariant.
LEMMA CarriesKeeps ==
  ASSUME IInv, IInv', PInv, NEW w \in Workers, Carries(w)
  PROVE  PInv'
  <1>1. OnePaymentInFlight'
    BY DEF PInv, OnePaymentInFlight, Carries, PendingShrinks
  <1>2. LockInv'
    BY DEF PInv, LockInv, Carries, Alone, Faithful
  <1>3. ASSUME NEW v \in Workers
        PROVE  Initiating(v)' /\ Locked(v)'
    <2>1. /\ Initiating(v) /\ Initiating(w) /\ Locked(v) /\ Locked(w)
          /\ PendingShrinks
      BY DEF PInv, InitiationInv, Carries
    <2>2. CASE v = w
      BY <2>1, <2>2
      DEF Carries, Locked, Faithful, Initiating, PendingPayments, PendingShrinks
    <2>3. CASE v # w
      BY <2>1, <2>3 DEF Carries, Alone, Initiating, Locked, PendingPayments, PendingShrinks
    <2> QED
      BY <2>2, <2>3
  <1> QED
    BY <1>1, <1>2, <1>3 DEF PInv, InitiationInv

LEMMA StartHolds ==
  ASSUME IInv, PInv, NEW w \in Workers, Start(w)
  PROVE  PInv'
  <1> USE DEF IInv
  <1>1. UNCHANGED rowVars /\ pc[w] = "idle"
    BY DEF Start, CreateCheck, InitiateStart, RecoverStart, ReconcileStart, CallbackStart
  <1>2. OnePaymentInFlight'
    BY <1>1 DEF PInv, OnePaymentInFlight, rowVars
  <1>3. CASE \E o \in Orders : InitiateStart(w, o)
    <2>1. PICK o \in Orders : InitiateStart(w, o)
      BY <1>3
    <2>2. Begin(o, "initiate").order = o /\ Begin(o, "initiate").op = "initiate"
      BY BeginType DEF Ops
    <2>3. Alone(w) /\ pc'[w] = "find" /\ ctx'[w].order = o /\ ctx'[w].op = "initiate"
      BY <2>1, <2>2, GotoWithAlone DEF InitiateStart
    <2>4. LockInv'
      BY <2>1, <2>3 DEF InitiateStart, InFlight, PInv, LockInv, Alone
    <2>5. InitiationInv'
      BY <1>1, <2>3 DEF PInv, InitiationInv, Initiating, Locked, PendingPayments, Alone, rowVars
    <2> QED
      BY <1>2, <2>4, <2>5 DEF PInv
  <1>4. CASE ~\E o \in Orders : InitiateStart(w, o)
    <2>1. Alone(w) /\ ctx'[w].op # "initiate" /\ pc'[w] \notin Holding
      <3>1. ASSUME NEW o \in Orders, CreateCheck(w, o) \/ RecoverStart(w, o)
            PROVE  Alone(w) /\ ctx'[w].op # "initiate" /\ pc'[w] \notin Holding
        BY <3>1, BeginType, GotoWithAlone DEF CreateCheck, RecoverStart, Ops, Holding
      <3>2. ASSUME NEW p \in Payments, ReconcileStart(w, p) \/ CallbackStart(w, p)
            PROVE  Alone(w) /\ ctx'[w].op # "initiate" /\ pc'[w] \notin Holding
        <4>1. orderOf[p] \in Orders
          BY <3>2 DEF ReconcileStart, CallbackStart, RowsInv, TypeOK, Payments
        <4>2. ASSUME NEW operation \in Ops
              PROVE  LET c == Snapshot(Begin(orderOf[p], operation), p)
                     IN  c \in Context /\ c.op = operation
          BY <4>1, BeginType, SnapshotType
        <4>3. CASE ReconcileStart(w, p)
          BY <4>2, <4>3, GotoWithAlone DEF ReconcileStart, Ops, Holding
        <4>4. CASE CallbackStart(w, p)
          <5> DEFINE c == Snapshot(Begin(orderOf[p], "callback"), p)
                     d == [c EXCEPT !.outcome = prompt[p]]
          <5>1. c \in Context /\ c.op = "callback"
            BY <4>2 DEF Ops
          <5> HIDE DEF c
          <5>2. d.op = "callback"
            BY <5>1 DEF Context
          <5> HIDE DEF d
          <5>3. GotoWith(w, "cb_confirm", c) \/ GotoWith(w, "cb_apply", d)
            BY <4>4 DEF CallbackStart, c, d
          <5> QED
            BY <5>1, <5>2, <5>3, GotoWithAlone DEF Holding
        <4> QED
          BY <3>2, <4>3, <4>4
      <3> QED
        BY <1>4, <3>1, <3>2 DEF Start
    <2>2. LockInv'
      BY <2>1 DEF PInv, LockInv, Alone
    <2>3. InitiationInv'
      BY <1>1, <2>1 DEF PInv, InitiationInv, Initiating, Locked, PendingPayments, Alone, rowVars
    <2> QED
      BY <1>2, <2>2, <2>3 DEF PInv
  <1> QED
    BY <1>3, <1>4

LEMMA CreatePaymentHolds ==
  ASSUME IInv, PInv, NEW w \in Workers, CreatePayment(w)
  PROVE  PInv'
  <1> USE DEF IInv
  <1> DEFINE p == made + 1
             c == [ctx[w] EXCEPT !.payment = p]
  <1>1. p \in Payments /\ orderOf[p] = NoOrder /\ paymentStatus[p] = "NONE"
    BY CheckoutAssumption, SMTT(20) DEF CreatePayment, TypeOK, Payments, RowsInv
  <1>2. /\ ctx[w].op = "initiate" /\ ctx[w].order \in Orders
        /\ PendingPayments(ctx[w].order) = {}
    BY DEF CreatePayment, PInv, InitiationInv, Initiating, Locked, Holding, Claiming, Pushing, WorkersInv, HoldsRow
  <1>3. c.op = ctx[w].op /\ c.order = ctx[w].order /\ c.payment = p
    <2>1. ctx[w] \in Context
      BY DEF TypeOK
    <2> QED
      BY <2>1 DEF Context
  <1> HIDE DEF c
  <1>4. Alone(w) /\ pc'[w] = "push" /\ ctx'[w] = c
    BY GotoWithAlone DEF CreatePayment, c
  <1>5. \A q \in Payments :
          /\ q = p => orderOf'[q] = ctx[w].order
          /\ q # p => orderOf'[q] = orderOf[q] /\ paymentStatus'[q] = paymentStatus[q]
    BY <1>1 DEF CreatePayment, TypeOK
  <1>6. OnePaymentInFlight'
    BY <1>2, <1>5 DEF PInv, OnePaymentInFlight, PendingPayments
  <1>7. LockInv'
    BY <1>2, <1>3, <1>4 DEF PInv, LockInv, Alone
  <1>8. ASSUME NEW v \in Workers
        PROVE  Initiating(v)' /\ Locked(v)'
    <2>1. CASE v = w
      BY <1>2, <1>3, <1>4, <1>5, <2>1
      DEF Initiating, Locked, Holding, PendingPayments, Claiming, Pushing
    <2>2. CASE v # w
      <3>1. ctx[v].op = "initiate" => ctx[v].order # ctx[w].order
        BY <1>2, <2>2 DEF PInv, LockInv
      <3> QED
        BY <1>4, <1>5, <2>2, <3>1
        DEF PInv, InitiationInv, Initiating, Locked, PendingPayments, Alone
    <2> QED
      BY <2>1, <2>2
  <1> QED
    BY <1>6, <1>7, <1>8 DEF PInv, InitiationInv

LEMMA SurroundingsHold ==
  ASSUME PInv, Surroundings \/ UNCHANGED vars
  PROVE  PInv'
  <1>1. UNCHANGED rowVars
    BY DEF Surroundings, Answer, FlagCommission, StopSales, Tick, Crash, vars
  <1>2. OnePaymentInFlight'
    BY <1>1 DEF PInv, OnePaymentInFlight, rowVars
  <1>3. CASE Crash
    BY <1>2, <1>3
    DEF Crash, Idle, PInv, LockInv, InitiationInv, Initiating, Locked, Holding
  <1>4. CASE UNCHANGED workerVars
    BY <1>1, <1>2, <1>4
    DEF PInv, LockInv, InitiationInv, Initiating, Locked, PendingPayments, rowVars, workerVars
  <1> QED
    BY <1>3, <1>4 DEF Surroundings, Answer, FlagCommission, StopSales, Tick, vars

\* Every statement but the creation of a row carries what its worker knows.
LEMMA ContinueCarries ==
  ASSUME IInv, PInv, NEW w \in Workers, Continue(w)
  PROVE  CreatePayment(w) \/ Carries(w)
  <1>1. \/ CreatePayment(w) \/ FindExisting(w) \/ Push(w) \/ PushSave(w) \/ PushFail(w)
        \/ QueryNoId(w) \/ QueryTooSoon(w) \/ Query(w)
        \/ ClaimSuccess(w) \/ ClaimFailure(w) \/ ClaimGiveUp(w)
        \/ Carries(w)
    BY OtherCarries DEF Continue, Initiation, Settlement
  <1> QED
    BY <1>1, FindCarries, QueryCarries, PushCarries, ClaimCarries DEF PInv

LEMMA Locks == Spec => []PInv
  <1>1. Init => PInv
    BY DEF Init, Idle, PInv, OnePaymentInFlight, LockInv, InitiationInv, Initiating, Locked, Holding
  <1>2. ASSUME IInv, IInv', PInv, [Next]_vars
        PROVE  PInv'
    BY <1>2, ContinueCarries, CarriesKeeps, CreatePaymentHolds, StartHolds, SurroundingsHold
    DEF Next
  <1> QED
    BY <1>1, <1>2, Inductive, PTL DEF Spec

\* An order never has two PENDING payments (OnePaymentInFlight): the lock of this
\* process and the look-up under it are enough, however the sweep, the callbacks and
\* the buyer's polls settle rows meanwhile and whenever the process restarts.
THEOREM OneInFlight == Spec => []OnePaymentInFlight
  <1>1. PInv => OnePaymentInFlight
    BY DEF PInv
  <1> QED
    BY <1>1, Locks, PTL

-----------------------------------------------------------------------------
(* Who moves in a step, for the two properties that follow: one worker, or  *)
(* the surroundings.                                                        *)

LEMMA StartAlone ==
  ASSUME TypeOK, NEW w \in Workers, Start(w)
  PROVE  /\ Alone(w) /\ pc[w] = "idle"
         /\ UNCHANGED <<rowVars, age, alerted, prompt, crashes>>
  BY GotoWithAlone
  DEF Start, CreateCheck, InitiateStart, RecoverStart, ReconcileStart, CallbackStart, outVars

LEMMA ContinueAlone ==
  ASSUME IInv, PInv, NEW w \in Workers, Continue(w)
  PROVE  Alone(w)
  <1>1. CASE CreatePayment(w)
    BY <1>1, GotoWithAlone DEF CreatePayment, IInv
  <1> QED
    BY <1>1, ContinueCarries DEF Carries

-----------------------------------------------------------------------------
(* Every double charge is reported.  The property speaks of an order; the   *)
(* invariant of two rows: whichever of two successes was recorded later,    *)
(* its handler has yet to look, or has seen the other and raised the alert. *)

AlertInv ==
  crashes = 0 =>
    \A p, q \in Payments :
      /\ p # q /\ orderOf[p] = orderOf[q]
      /\ paymentStatus[p] = "SUCCESS" /\ paymentStatus[q] = "SUCCESS"
      => \/ orderOf[p] \in alerted
         \/ \E w \in Workers : pc[w] = "check_other" /\ ctx[w].payment \in {p, q}

\* No payment is recorded as successful, and no handler has looked for another.
NothingNew ==
  /\ \A p \in Payments : paymentStatus'[p] = "SUCCESS" =>
                           paymentStatus[p] = "SUCCESS" /\ orderOf'[p] = orderOf[p]
  /\ \A v \in Workers : pc[v] = "check_other" => pc'[v] = pc[v] /\ ctx'[v] = ctx[v]
  /\ UNCHANGED <<alerted, crashes>>

LEMMA NothingNewAlerts ==
  ASSUME AlertInv, NothingNew
  PROVE  AlertInv'
  <1> SUFFICES ASSUME crashes' = 0, NEW p \in Payments, NEW q \in Payments,
                      p # q, orderOf'[p] = orderOf'[q],
                      paymentStatus'[p] = "SUCCESS", paymentStatus'[q] = "SUCCESS",
                      orderOf'[p] \notin alerted'
               PROVE  \E w \in Workers : pc'[w] = "check_other" /\ ctx'[w].payment \in {p, q}
    BY DEF AlertInv
  <1>1. PICK w \in Workers : pc[w] = "check_other" /\ ctx[w].payment \in {p, q}
    BY DEF NothingNew, AlertInv
  <1> QED
    BY <1>1 DEF NothingNew

\* Only ClaimSuccess records a success.
LEMMA NoneSucceeds ==
  ASSUME IInv, NEW w \in Workers, Continue(w), ~ClaimSuccess(w)
  PROVE  \A p \in Payments : paymentStatus'[p] = "SUCCESS" =>
                               paymentStatus[p] = "SUCCESS" /\ orderOf'[p] = orderOf[p]
  <1> USE DEF IInv
  <1>1. CASE UNCHANGED rowVars
    BY <1>1 DEF rowVars
  <1>2. CASE CreatePayment(w)
    BY <1>2, CheckoutAssumption DEF CreatePayment, TypeOK, RowsInv, Payments
  <1>3. ASSUME NEW status \in Failures, SetStatus(ctx[w].payment, status)
        PROVE  \A p \in Payments : paymentStatus'[p] = "SUCCESS" =>
                                     paymentStatus[p] = "SUCCESS" /\ orderOf'[p] = orderOf[p]
    BY <1>3 DEF SetStatus, TypeOK, Failures
  <1>4. CASE PushSave(w)
    BY <1>4 DEF PushSave
  <1>5. CASE PushFail(w)
    BY <1>3, <1>5 DEF PushFail, Failures
  <1>6. CASE ClaimFailure(w) \/ ClaimGiveUp(w)
    <2>1. pc[w] = "fail_claim" => ctx[w].outcome \in Failures
      BY SMTT(30) DEF WorkersInv, HoldsWord
    <2> QED
      BY <1>1, <1>3, <1>6, <2>1 DEF ClaimFailure, ClaimGiveUp, ClaimPending, Failures
  <1>7. \/ UNCHANGED rowVars \/ CreatePayment(w) \/ PushSave(w) \/ PushFail(w)
        \/ ClaimFailure(w) \/ ClaimGiveUp(w)
    BY DEF Continue, Initiation, Settlement, CreateReserve, FindExisting, ReopenRead, ReopenCheck,
           ReopenTake, ReopenSet, Push, QueryNoId, QueryTooSoon, Query, CheckOther, MarkPaidRead,
           MarkPaidReserve, MarkPaidSet, IssueRead, Issue, MarkFailed, ReleaseReservation,
           CallbackConfirm, CallbackApply
  <1> QED
    BY <1>1, <1>2, <1>4, <1>5, <1>6, <1>7

LEMMA ClaimAlerts ==
  ASSUME IInv, AlertInv, NEW w \in Workers, ClaimSuccess(w)
  PROVE  AlertInv'
  <1> USE DEF IInv
  <1> DEFINE mine == ctx[w].payment
  <1>1. pc[w] = "succ_claim" /\ UNCHANGED <<alerted, crashes>>
    BY DEF ClaimSuccess, outVars
  <1>2. CASE paymentStatus[mine] = "SUCCESS"
    <2>1. Alone(w) /\ UNCHANGED rowVars
      BY <1>1, <1>2, ReturnAlone DEF ClaimSuccess
    <2> QED
      BY <1>1, <2>1, NothingNewAlerts DEF NothingNew, Alone, rowVars
  <1>3. CASE paymentStatus[mine] # "SUCCESS"
    <2>1. /\ Alone(w) /\ pc'[w] = "check_other" /\ ctx'[w] = ctx[w]
          /\ SetStatus(mine, "SUCCESS")
      BY <1>3, GotoAlone DEF ClaimSuccess
    <2>2. UNCHANGED orderOf /\ \A p \in Payments \ {mine} : paymentStatus'[p] = paymentStatus[p]
      BY <2>1 DEF SetStatus, TypeOK
    <2> SUFFICES ASSUME crashes' = 0, NEW p \in Payments, NEW q \in Payments,
                        p # q, orderOf'[p] = orderOf'[q],
                        paymentStatus'[p] = "SUCCESS", paymentStatus'[q] = "SUCCESS",
                        orderOf'[p] \notin alerted'
                 PROVE  \E v \in Workers : pc'[v] = "check_other" /\ ctx'[v].payment \in {p, q}
      BY DEF AlertInv
    <2>3. CASE mine \in {p, q}
      BY <2>1, <2>3
    <2>4. CASE mine \notin {p, q}
      <3>1. PICK v \in Workers : pc[v] = "check_other" /\ ctx[v].payment \in {p, q}
        BY <1>1, <2>2, <2>4 DEF AlertInv
      <3>2. v # w
        BY <1>1, <3>1
      <3> QED
        BY <2>1, <3>1, <3>2 DEF Alone
    <2> QED
      BY <2>3, <2>4
  <1> QED
    BY <1>2, <1>3

LEMMA CheckAlerts ==
  ASSUME IInv, AlertInv, NEW w \in Workers, CheckOther(w)
  PROVE  AlertInv'
  <1> USE DEF IInv
  <1> DEFINE mine == ctx[w].payment
             o == ctx[w].order
  <1>1. /\ pc[w] = "check_other" /\ orderOf[mine] = o /\ mine \in Payments
        /\ UNCHANGED <<rowVars, crashes>> /\ alerted \subseteq alerted'
        /\ OtherSuccess(o, mine) => o \in alerted'
    BY DEF CheckOther, WorkersInv, HoldsRow, WithPayment, Confirmed
  <1>2. Alone(w)
    BY GotoAlone DEF CheckOther
  <1> SUFFICES ASSUME crashes' = 0, NEW p \in Payments, NEW q \in Payments,
                      p # q, orderOf'[p] = orderOf'[q],
                      paymentStatus'[p] = "SUCCESS", paymentStatus'[q] = "SUCCESS",
                      orderOf'[p] \notin alerted'
               PROVE  \E v \in Workers : pc'[v] = "check_other" /\ ctx'[v].payment \in {p, q}
    BY DEF AlertInv
  <1>3. mine \notin {p, q}
    BY <1>1 DEF OtherSuccess, rowVars
  <1>4. PICK v \in Workers : pc[v] = "check_other" /\ ctx[v].payment \in {p, q}
    BY <1>1 DEF AlertInv, rowVars
  <1>5. v # w
    BY <1>3, <1>4
  <1> QED
    BY <1>2, <1>4, <1>5 DEF Alone

LEMMA AlertNext ==
  ASSUME IInv, PInv, AlertInv, [Next]_vars
  PROVE  AlertInv'
  <1>1. ASSUME NEW w \in Workers, Start(w)
        PROVE  AlertInv'
    BY <1>1, StartAlone, NothingNewAlerts DEF NothingNew, Alone, rowVars, IInv
  <1>2. ASSUME NEW w \in Workers, Continue(w)
        PROVE  AlertInv'
    <2>1. CASE ClaimSuccess(w)
      BY <2>1, ClaimAlerts
    <2>2. CASE CheckOther(w)
      BY <2>2, CheckAlerts
    <2>3. CASE ~ClaimSuccess(w) /\ ~CheckOther(w)
      <3>1. pc[w] # "check_other" /\ UNCHANGED <<alerted, crashes>>
        BY <1>2, <2>3
        DEF Continue, Initiation, Settlement, CreateReserve, FindExisting, ReopenRead, ReopenCheck,
            ReopenTake, ReopenSet, CreatePayment, Push, PushSave, PushFail, QueryNoId, QueryTooSoon,
            Query, MarkPaidRead, MarkPaidReserve, MarkPaidSet, IssueRead, Issue, ClaimFailure,
            ClaimGiveUp, MarkFailed, ReleaseReservation, CallbackConfirm, CallbackApply, outVars
      <3> QED
        BY <1>2, <2>3, <3>1, NoneSucceeds, ContinueAlone, NothingNewAlerts, SMTT(30) DEF NothingNew, Alone
    <2> QED
      BY <2>1, <2>2, <2>3
  <1>3. CASE Crash
    BY <1>3, CheckoutAssumption DEF Crash, AlertInv, IInv, TypeOK
  <1>4. CASE UNCHANGED <<rowVars, alerted, workerVars, crashes>>
    BY <1>4, NothingNewAlerts DEF NothingNew, rowVars, workerVars
  <1> QED
    BY <1>1, <1>2, <1>3, <1>4
    DEF Next, Surroundings, Answer, Tick, FlagCommission, StopSales, vars, outVars

\* An order charged twice is reported to a human (DoubleChargeAlerted): when no
\* handler is about to look for the other success, the alert has been raised,
\* whichever of the two was recorded first and by whom, unless a restart cut in.
THEOREM TwiceChargedTold == Spec => []DoubleChargeAlerted
  <1>1. Init => AlertInv
    BY DEF Init, AlertInv
  <1>2. ASSUME IInv, AlertInv
        PROVE  DoubleChargeAlerted
    <2> SUFFICES ASSUME NEW o \in Orders, crashes = 0, Cardinality(Succeeded(o)) > 1,
                        \A w \in Workers : ~(pc[w] = "check_other" /\ ctx[w].order = o)
                 PROVE  o \in alerted
      BY DEF DoubleChargeAlerted
    <2>1. PICK p, q \in Succeeded(o) : p # q
      <3> SUFFICES ASSUME \A p, q \in Succeeded(o) : p = q
                   PROVE  FALSE
        OBVIOUS
      <3>1. CASE Succeeded(o) = {}
        BY <3>1, FS_EmptySet
      <3>2. ASSUME NEW p \in Succeeded(o)
            PROVE  Cardinality(Succeeded(o)) = 1
        <4>1. Succeeded(o) = {p}
          OBVIOUS
        <4> QED
          BY <4>1, FS_Singleton
      <3> QED
        BY <3>1, <3>2
    <2>2. \A w \in Workers : pc[w] = "check_other" => ctx[w].payment \notin {p, q}
      BY <1>2 DEF IInv, WorkersInv, HoldsRow, WithPayment, Confirmed, Succeeded
    <2> QED
      BY <1>2, <2>1, <2>2 DEF AlertInv, Succeeded
  <1> QED
    BY <1>1, <1>2, AlertNext, Inductive, Locks, PTL DEF Spec

-----------------------------------------------------------------------------
(* No payment is written off early.  The handler that writes it off decided *)
(* some statements earlier; what it saw then must still be true: a prompt   *)
(* that was answered stays answered, and time does not run backwards.       *)

Grounded(w) ==
  /\ pc[w] = "cb_apply" => prompt[ctx[w].payment] = ctx[w].outcome
  /\ pc[w] = "fail_claim" => \/ prompt[ctx[w].payment] \in Failures
                             \/ age[ctx[w].payment] > Validity
  /\ pc[w] = "giveup_claim" => age[ctx[w].payment] > NoIdLimit
GroundsInv == \A w \in Workers : Grounded(w)

\* What makes a ground stay one.
GroundsLast == \A p \in Payments : /\ age'[p] \in Nat /\ age[p] <= age'[p]
                                   /\ prompt[p] \in Outcomes => prompt'[p] = prompt[p]

LEMMA GroundsStay ==
  ASSUME IInv, [Next]_vars
  PROVE  GroundsLast
  <1>1. CASE UNCHANGED <<age, prompt>>
    BY <1>1 DEF IInv, GroundsLast, TypeOK
  <1>2. ASSUME NEW p \in Payments, Tick(p)
        PROVE  GroundsLast
    BY <1>2 DEF Tick, IInv, GroundsLast, TypeOK
  <1>3. ASSUME NEW p \in Payments, Answer(p)
        PROVE  GroundsLast
    BY <1>3 DEF Answer, IInv, GroundsLast, TypeOK, Outcomes, Failures
  <1>4. ASSUME NEW w \in Workers, Push(w)
        PROVE  GroundsLast
    <2>1. prompt[ctx[w].payment] = "none"
      BY <1>4, SMTT(30) DEF Push, IInv, WorkersInv, OwnsPush
    <2> QED
      BY <1>4, <2>1 DEF Push, IInv, GroundsLast, TypeOK, Outcomes, Failures
  <1>5. ASSUME NEW w \in Workers, Continue(w), ~Push(w)
        PROVE  UNCHANGED <<age, prompt>>
    BY <1>5
    DEF Continue, Initiation, Settlement, CreateReserve, FindExisting, ReopenRead, ReopenCheck,
        ReopenTake, ReopenSet, CreatePayment, PushSave, PushFail, QueryNoId, QueryTooSoon,
        Query, ClaimSuccess, CheckOther, MarkPaidRead, MarkPaidReserve, MarkPaidSet, IssueRead,
        Issue, ClaimFailure, ClaimGiveUp, MarkFailed, ReleaseReservation, CallbackConfirm,
        CallbackApply
  <1>6. ASSUME NEW w \in Workers, Start(w)
        PROVE  UNCHANGED <<age, prompt>>
    BY <1>6, StartAlone DEF IInv
  <1>7. CASE Surroundings \/ UNCHANGED vars
    BY <1>1, <1>2, <1>3, <1>7 DEF Surroundings, FlagCommission, StopSales, Crash, vars
  <1> QED
    BY <1>1, <1>4, <1>5, <1>6, <1>7 DEF Next

\* Where a statement leaves its worker, if anywhere that matters here.
LEMMA SettleGrounds ==
  ASSUME IInv, NEW w \in Workers, pc[w] \in WithPayment, NEW result \in Outcomes,
         Settle(w, result), UNCHANGED <<age, prompt>>,
         \/ result \in {prompt[ctx[w].payment], "SUCCESS"}
         \/ age[ctx[w].payment] > Validity
  PROVE  Grounded(w)'
  BY SettleMoves DEF Grounded, Outcomes

LEMMA StillPendingGrounds ==
  ASSUME IInv, NEW w \in Workers, pc[w] = "query", NEW verifying, StillPending(w, verifying),
         UNCHANGED <<age, prompt>>
  PROVE  Grounded(w)'
  <1>1. CASE Settle(w, "EXPIRED") /\ age[ctx[w].payment] > Validity
    BY <1>1, SettleGrounds DEF WithPayment, Outcomes, Failures
  <1>2. CASE Finish(w)
    BY <1>2, FinishAlone DEF Grounded, IInv
  <1> QED
    BY <1>1, <1>2 DEF StillPending

LEMMA QueryGrounds ==
  ASSUME IInv, Validity <= Deadline, Validity <= HardExpiry,
         NEW w \in Workers, QueryNoId(w) \/ QueryTooSoon(w) \/ Query(w)
  PROVE  Grounded(w)'
  <1> DEFINE p == ctx[w].payment
  <1>1. /\ pc[w] = "query" /\ p \in Payments /\ age[p] \in Nat
        /\ UNCHANGED <<age, prompt>>
    BY DEF QueryNoId, QueryTooSoon, Query, IInv, TypeOK, WorkersInv, HoldsRow, WithPayment
  <1>2. CASE Goto(w, "giveup_claim") /\ age[p] > NoIdLimit
    BY <1>1, <1>2, GotoAlone DEF Grounded, IInv
  <1>3. ASSUME NEW verifying, StillPending(w, verifying)
        PROVE  Grounded(w)'
    BY <1>1, <1>3, StillPendingGrounds
  <1>4. ASSUME NEW result \in QueryResults(p) \intersect Outcomes, Settle(w, result)
        PROVE  Grounded(w)'
    BY <1>1, <1>4, ResultsTrue, SettleGrounds DEF WithPayment
  <1>5. CASE Settle(w, "EXPIRED") /\ (age[p] > HardExpiry \/ age[p] > Deadline)
    <2>1. age[p] > Validity
      BY <1>1, <1>5, CheckoutAssumption
    <2> QED
      BY <1>1, <1>5, <2>1, SettleGrounds DEF WithPayment, Outcomes, Failures
  <1>6. CASE Query(w)
    BY <1>3, <1>4, <1>5, <1>6 DEF Query
  <1> QED
    BY <1>2, <1>3, <1>6 DEF QueryNoId, QueryTooSoon

LEMMA CallbackGrounds ==
  ASSUME IInv, NEW w \in Workers, Grounded(w), CallbackConfirm(w) \/ CallbackApply(w)
  PROVE  Grounded(w)'
  <1> DEFINE p == ctx[w].payment
  <1>1. p \in Payments /\ ctx[w] \in Context /\ UNCHANGED <<age, prompt>>
    BY DEF CallbackConfirm, CallbackApply, IInv, TypeOK, WorkersInv, HoldsRow, WithPayment
  <1>2. CASE CallbackConfirm(w)
    <2>1. ASSUME NEW result \in QueryResults(p) \intersect Outcomes,
                 GotoWith(w, "cb_apply", [ctx[w] EXCEPT !.outcome = result])
          PROVE  Grounded(w)'
      <3> DEFINE c == [ctx[w] EXCEPT !.outcome = result]
      <3>1. c.payment = p /\ c.outcome = result
        BY <1>1 DEF Context
      <3> HIDE DEF c
      <3>2. pc'[w] = "cb_apply" /\ ctx'[w] = c
        BY <2>1, GotoWithAlone DEF c, IInv
      <3> QED
        BY <1>1, <3>1, <3>2, ResultsTrue DEF Grounded
    <2> QED
      BY <1>2, <2>1, FinishAlone DEF CallbackConfirm, Grounded, IInv
  <1>3. CASE CallbackApply(w)
    <2>1. pc[w] = "cb_apply" /\ ctx[w].outcome \in Outcomes /\ prompt[p] = ctx[w].outcome
      BY <1>3 DEF CallbackApply, Grounded, IInv, WorkersInv, HoldsWord
    <2>2. CASE Settle(w, ctx[w].outcome)
      BY <1>1, <2>1, <2>2, SettleGrounds DEF WithPayment
    <2>3. CASE Finish(w)
      BY <2>3, FinishAlone DEF Grounded, IInv
    <2> QED
      BY <1>3, <2>2, <2>3 DEF CallbackApply
  <1> QED
    BY <1>2, <1>3

LEMMA StartGrounds ==
  ASSUME IInv, NEW w \in Workers, Start(w)
  PROVE  Grounded(w)'
  <1>1. CASE \E p \in Payments : CallbackStart(w, p)
    <2>1. PICK p \in Payments : CallbackStart(w, p)
      BY <1>1
    <2> DEFINE c == Snapshot(Begin(orderOf[p], "callback"), p)
               d == [c EXCEPT !.outcome = prompt[p]]
    <2>2. orderOf[p] \in Orders
      BY <2>1 DEF CallbackStart, IInv, RowsInv, TypeOK, Payments
    <2>3. c \in Context /\ c.payment = p
      BY <2>2, BeginType, SnapshotType DEF Ops, IInv
    <2> HIDE DEF c
    <2>4. d.payment = p /\ d.outcome = prompt[p]
      BY <2>3 DEF Context
    <2> HIDE DEF d
    <2>5. GotoWith(w, "cb_confirm", c) \/ GotoWith(w, "cb_apply", d)
      BY <2>1 DEF CallbackStart, c, d
    <2>6. UNCHANGED prompt
      BY <2>1 DEF CallbackStart
    <2> QED
      BY <2>4, <2>5, <2>6, GotoWithAlone DEF Grounded, IInv
  <1>2. CASE ~\E p \in Payments : CallbackStart(w, p)
    <2>1. ASSUME NEW o \in Orders, CreateCheck(w, o) \/ InitiateStart(w, o) \/ RecoverStart(w, o)
          PROVE  pc'[w] \in {"create_reserve", "find", "issue_read"}
      BY <2>1, GotoWithAlone DEF CreateCheck, InitiateStart, RecoverStart, IInv
    <2>2. ASSUME NEW p \in Payments, ReconcileStart(w, p)
          PROVE  pc'[w] = "query"
      BY <2>2, GotoWithAlone DEF ReconcileStart, IInv
    <2>3. pc'[w] \notin {"cb_apply", "fail_claim", "giveup_claim"}
      BY <1>2, <2>1, <2>2 DEF Start
    <2> QED
      BY <2>3 DEF Grounded
  <1> QED
    BY <1>1, <1>2

LEMMA ContinueGrounds ==
  ASSUME IInv, GroundsInv, Validity <= Deadline, Validity <= HardExpiry,
         NEW w \in Workers, Continue(w)
  PROVE  Grounded(w)'
  <1>1. CASE QueryNoId(w) \/ QueryTooSoon(w) \/ Query(w)
    BY <1>1, QueryGrounds
  <1>2. CASE CallbackConfirm(w) \/ CallbackApply(w)
    BY <1>2, CallbackGrounds DEF GroundsInv
  <1>3. CASE CreateReserve(w) \/ Initiation(w) \/ Settlement(w)
    <2>1. \/ pc'[w] \notin {"cb_apply", "fail_claim", "giveup_claim"}
          \/ Finish(w) \/ Return(w)
      BY <1>3, GotoAlone, GotoWithAlone
      DEF Initiation, Settlement, CreateReserve, FindExisting, ReopenRead, ReopenCheck,
          ReopenTake, ReopenSet, CreatePayment, Push, PushSave, PushFail, ClaimSuccess, CheckOther,
          MarkPaidRead, MarkPaidReserve, MarkPaidSet, IssueRead, Issue, ClaimFailure, ClaimGiveUp,
          ClaimPending, MarkFailed, ReleaseReservation, Labels, IInv
    <2>2. pc'[w] \notin {"cb_apply", "fail_claim", "giveup_claim"}
      BY <2>1, FinishAlone, GotoWithAlone DEF Return, IInv
    <2> QED
      BY <2>2 DEF Grounded
  <1> QED
    BY <1>1, <1>2, <1>3 DEF Continue

LEMMA GroundsNext ==
  ASSUME IInv, PInv, GroundsInv, Validity <= Deadline, Validity <= HardExpiry, [Next]_vars
  PROVE  GroundsInv'
  <1>1. GroundsLast
    BY GroundsStay
  <1>2. ASSUME NEW v \in Workers, pc'[v] = pc[v], ctx'[v] = ctx[v]
        PROVE  Grounded(v)'
    <2>1. pc[v] \in {"cb_apply", "fail_claim", "giveup_claim"} => ctx[v].payment \in Payments
      BY DEF IInv, WorkersInv, HoldsRow, WithPayment
    <2>2. pc[v] = "cb_apply" => ctx[v].outcome \in Outcomes
      BY DEF IInv, WorkersInv, HoldsWord
    <2>3. Grounded(v)
      BY DEF GroundsInv
    <2> QED
      BY <1>1, <1>2, <2>1, <2>2, <2>3, CheckoutAssumption
      DEF Grounded, GroundsLast, Outcomes, IInv, TypeOK
  <1>3. ASSUME NEW w \in Workers, Start(w) \/ Continue(w)
        PROVE  GroundsInv'
    <2>1. Alone(w) /\ Grounded(w)'
      BY <1>3, StartAlone, StartGrounds, ContinueAlone, ContinueGrounds DEF IInv
    <2> QED
      BY <1>2, <2>1 DEF Alone, GroundsInv
  <1>4. CASE Crash
    BY <1>4 DEF Crash, GroundsInv, Grounded
  <1>5. CASE UNCHANGED workerVars
    BY <1>2, <1>5 DEF GroundsInv, workerVars
  <1> QED
    BY <1>3, <1>4, <1>5
    DEF Next, Surroundings, Answer, Tick, FlagCommission, StopSales, vars

\* Of the handlers that fail or expire a payment, each does so for cause.
LEMMA WrittenOffForCause ==
  ASSUME IInv, GroundsInv, [Next]_vars, NEW p \in Payments,
         paymentStatus[p] = "PENDING", paymentStatus'[p] \in Failures,
         checkoutRequestId[p], prompt[p] \notin Failures
  PROVE  age[p] > Validity \/ (paymentStatus'[p] = "FAILED" /\ age[p] > NoIdLimit)
  <1>1. PICK w \in Workers : PushFail(w) \/ ClaimFailure(w) \/ ClaimGiveUp(w) \/ ClaimSuccess(w)
                             \/ CreatePayment(w)
    <2>1. paymentStatus' # paymentStatus
      BY DEF Failures
    <2>2. ~(Surroundings \/ UNCHANGED vars)
      BY <2>1 DEF Surroundings, Answer, Tick, FlagCommission, StopSales, Crash, vars, rowVars
    <2>3. PICK w \in Workers : Continue(w)
      BY <2>1, <2>2, StartAlone DEF Next, IInv, rowVars
    <2>4. PushFail(w) \/ ClaimFailure(w) \/ ClaimGiveUp(w) \/ ClaimSuccess(w) \/ CreatePayment(w)
      BY <2>1, <2>3
      DEF Continue, Initiation, Settlement, CreateReserve, FindExisting, ReopenRead, ReopenCheck,
          ReopenTake, ReopenSet, Push, PushSave, QueryNoId, QueryTooSoon, Query, CheckOther,
          MarkPaidRead, MarkPaidReserve, MarkPaidSet, IssueRead, Issue, MarkFailed,
          ReleaseReservation, CallbackConfirm, CallbackApply, rowVars
    <2> QED
      BY <2>4
  <1>2. /\ Grounded(w) /\ HoldsRow(w) /\ HoldsWord(w) /\ OwnsPush(w)
        /\ paymentStatus \in [Payments -> PaymentStatus]
    BY DEF IInv, TypeOK, WorkersInv, GroundsInv
  <1>3. CASE PushFail(w)
    BY <1>2, <1>3 DEF PushFail, SetStatus, OwnsPush, Pushing, Failures
  <1>4. CASE ClaimFailure(w)
    <2>1. ctx[w].payment = p
      BY <1>2, <1>4 DEF ClaimFailure, ClaimPending, SetStatus, rowVars, Failures
    <2> QED
      BY <1>2, <1>4, <2>1 DEF ClaimFailure, Grounded
  <1>5. CASE ClaimGiveUp(w)
    <2>1. ctx[w].payment = p /\ paymentStatus'[p] = "FAILED"
      BY <1>2, <1>5 DEF ClaimGiveUp, ClaimPending, SetStatus, rowVars, Failures
    <2> QED
      BY <1>2, <1>5, <2>1 DEF ClaimGiveUp, Grounded
  <1>6. CASE ClaimSuccess(w)
    BY <1>2, <1>6 DEF ClaimSuccess, SetStatus, rowVars, Failures
  <1>7. CASE CreatePayment(w)
    BY <1>2, <1>7 DEF CreatePayment, Failures
  <1> QED
    BY <1>1, <1>3, <1>4, <1>5, <1>6, <1>7

\* A prompt the buyer may still answer is not written off early
\* (NeverWrittenOffEarly).  deadlineOf adds 30 s to the validity, and the hard expiry is
\* fifteen minutes to its ninety seconds unless someone configures it otherwise; with a
\* hard expiry below the validity an outage alone would write a payable prompt off.
THEOREM NotWrittenOffEarly ==
  ASSUME Validity <= Deadline, Validity <= HardExpiry
  PROVE  Spec => NeverWrittenOffEarly
  <1>1. Init => GroundsInv
    BY DEF Init, GroundsInv, Grounded
  <1>2. ASSUME IInv, GroundsInv, [Next]_vars
        PROVE  [\A p \in Payments :
                  /\ paymentStatus[p] = "PENDING" /\ paymentStatus'[p] \in Failures
                  /\ checkoutRequestId[p] /\ prompt[p] \notin Failures
                  => \/ age[p] > Validity
                     \/ paymentStatus'[p] = "FAILED" /\ age[p] > NoIdLimit]_vars
    BY <1>2, WrittenOffForCause
  <1> QED
    BY <1>1, <1>2, GroundsNext, Inductive, Locks, PTL DEF Spec, NeverWrittenOffEarly

-----------------------------------------------------------------------------
(* The stock counter.  At every moment it is what the orders hold and what  *)
(* handlers have in hand, up to the two mishaps of the ledger.  The sums    *)
(* are over all orders and all workers, so that one statement changes one   *)
(* term of each.                                                            *)

\* What worker w knows of its order: it exists, unless w is about to create it.
KnowsOrder(w) ==
  LET o == ctx[w].order IN
  /\ pc[w] = "create_reserve" <=> ctx[w].op = "create"
  /\ pc[w] = "create_reserve" => orderStatus[o] = "NONE"
  /\ pc[w] \notin {"idle", "create_reserve"} => orderStatus[o] # "NONE"

RowsOrdered == \A p \in Payments : p <= made => orderStatus[orderOf[p]] # "NONE"
OneTurn == \A v, w \in Workers :
  pc[v] = "create_reserve" /\ pc[w] = "create_reserve" /\ ctx[v].order = ctx[w].order => v = w
OrdersKnown == RowsOrdered /\ OneTurn /\ \A w \in Workers : KnowsOrder(w)
LedgerInv == OrdersKnown /\ StockAccounted

\* A statement of worker w that creates no order.
LEMMA KnownStays ==
  ASSUME IInv, OrdersKnown, NEW w \in Workers, Alone(w), RowsOrdered',
         \A o \in Orders : orderStatus[o] # "NONE" => orderStatus'[o] # "NONE",
         \A v \in Workers \ {w} : pc[v] = "create_reserve" => orderStatus'[ctx[v].order] = "NONE",
         pc'[w] # "create_reserve", ctx'[w].op # "create",
         pc'[w] # "idle" => orderStatus'[ctx'[w].order] # "NONE"
  PROVE  OrdersKnown'
  <1>1. \A v \in Workers \ {w} : pc'[v] = pc[v] /\ ctx'[v] = ctx[v]
    BY DEF Alone
  <1>2. KnowsOrder(w)'
    BY DEF KnowsOrder
  <1>3. ASSUME NEW v \in Workers, v # w PROVE KnowsOrder(v)'
    <2>1. KnowsOrder(v) /\ pc'[v] = pc[v] /\ ctx'[v] = ctx[v]
      BY <1>1, <1>3 DEF OrdersKnown
    <2>2. pc[v] # "idle" => ctx[v].order \in Orders
      BY DEF IInv, WorkersInv, HoldsRow
    <2> QED
      BY <1>3, <2>1, <2>2 DEF KnowsOrder
  <1>4. OneTurn'
    BY <1>1 DEF OneTurn, OrdersKnown
  <1> QED
    BY <1>2, <1>3, <1>4 DEF OrdersKnown

\* What one order's value does to a sum over all orders.
LEMMA OrderSum ==
  ASSUME IsFiniteSet(Orders), NEW o \in Orders, NEW F, NEW G,
         \A q \in Orders : F[q] \in Int /\ G[q] \in Int, \A q \in Orders : q # o => F[q] = G[q]
  PROVE  SumOver(G, Orders) = SumOver(F, Orders) - F[o] + G[o]
  <1>1. SumOver(F, Orders) = F[o] + SumOver(F, Orders \ {o})
    BY SumTakesAny
  <1>2. SumOver(G, Orders) = G[o] + SumOver(G, Orders \ {o})
    BY SumTakesAny
  <1>3. /\ SumOver(F, Orders \ {o}) = SumOver(G, Orders \ {o})
        /\ SumOver(F, Orders \ {o}) \in Int
    BY FS_Subset, SumAgrees, SumTakesAny
  <1> QED
    BY <1>1, <1>2, <1>3

\* The ledger's totals are the sums of SumTheorems.
LEMMA TallyIs == ASSUME NEW F, NEW S PROVE Tally(F, S) = SumOver(F, S)
  BY DEF Tally, SumOver

\* What a statement of worker w on its order o does to what the counter should show.
Worth(o, status, statuses) == IF status \in statuses THEN Qty[o] ELSE 0
LEMMA DueMoves ==
  ASSUME IInv, IsFiniteSet(Orders), IsFiniteSet(Workers), NEW w \in Workers, Alone(w),
         NEW o \in Orders, NEW status, orderStatus' = [orderStatus EXCEPT ![o] = status],
         pc[w] \in InHand => ctx[w].order = o, pc'[w] \in InHand => ctx'[w].order = o,
         NEW statuses
  PROVE  /\ Due(statuses) \in Int
         /\ Due(statuses)' = Due(statuses)
                             - Worth(o, orderStatus[o], statuses) + Worth(o, status, statuses)
                             - Worth(o, pc[w], InHand) + Worth(o, pc'[w], InHand)
  <1>0. PICK F, G, K, L : /\ F = Owed(statuses) /\ G = Owed(statuses)'
                          /\ K = Load /\ L = Load'
    OBVIOUS
  <1>1. \A q \in Orders : Qty[q] \in Int
    BY CheckoutAssumption
  <1>2. orderStatus'[o] = status /\ \A q \in Orders \ {o} : orderStatus'[q] = orderStatus[q]
    BY DEF IInv, TypeOK
  <1>3. /\ \A q \in Orders : F[q] \in Int /\ G[q] \in Int
        /\ \A q \in Orders : q # o => F[q] = G[q]
        /\ F[o] = Worth(o, orderStatus[o], statuses) /\ G[o] = Worth(o, status, statuses)
    BY <1>0, <1>1, <1>2 DEF Owed, Worth
  <1>4. \A v \in Workers : pc[v] \in InHand => ctx[v].order \in Orders
    BY DEF IInv, WorkersInv, HoldsRow, InHand
  <1>5. \A v \in Workers \ {w} : pc'[v] = pc[v] /\ ctx'[v] = ctx[v]
    BY DEF Alone
  <1>6. /\ \A v \in Workers : K[v] \in Int /\ L[v] \in Int
        /\ \A v \in Workers : v # w => K[v] = L[v]
        /\ K[w] = Worth(o, pc[w], InHand) /\ L[w] = Worth(o, pc'[w], InHand)
    BY <1>0, <1>1, <1>4, <1>5 DEF Load, Worth
  <1>7. /\ Due(statuses) = SumOver(F, Orders) + SumOver(K, Workers)
        /\ Due(statuses)' = SumOver(G, Orders) + SumOver(L, Workers)
    BY <1>0, TallyIs DEF Due
  <1>8. SumOver(G, Orders) = SumOver(F, Orders) - F[o] + G[o] /\ SumOver(F, Orders) \in Int
    <2>1. /\ \A q \in Orders : F[q] \in Int /\ G[q] \in Int
          /\ \A q \in Orders : q # o => F[q] = G[q]
      BY <1>3
    <2>2. SumOver(F, Orders) \in Int
      BY <2>1, SumTakesAny
    <2>3. SumOver(G, Orders) = SumOver(F, Orders) - F[o] + G[o]
      BY <2>1, OrderSum
    <2> QED
      BY <2>2, <2>3
  <1>9. SumOver(L, Workers) = SumOver(K, Workers) - K[w] + L[w] /\ SumOver(K, Workers) \in Int
    <2>1. /\ \A v \in Workers : K[v] \in Int /\ L[v] \in Int
          /\ \A v \in Workers : v # w => K[v] = L[v]
      BY <1>6
    <2>2. SumOver(K, Workers) \in Int
      BY <2>1, SumTakesAny
    <2>3. SumOver(L, Workers) = SumOver(K, Workers) - K[w] + L[w]
      BY <2>1, SumChanges
    <2> QED
      BY <2>2, <2>3
  <1>10. F[o] \in Int /\ G[o] \in Int /\ K[w] \in Int /\ L[w] \in Int
    BY <1>3, <1>6
  <1> QED
    BY <1>3, <1>6, <1>7, <1>8, <1>9, <1>10

\* What the counter should show covers what any one worker has in hand.
LEMMA DueCovers ==
  ASSUME IInv, IsFiniteSet(Orders), IsFiniteSet(Workers), NEW w \in Workers, NEW statuses
  PROVE  /\ pc[w] \in InHand => Due(statuses) >= Qty[ctx[w].order]
         /\ SumOver(Load, Workers) \in Nat /\ SumOver(Owed(statuses), Orders) \in Nat
         /\ Due(statuses) = SumOver(Owed(statuses), Orders) + SumOver(Load, Workers)
  <1> DEFINE F == Owed(statuses)
             K == Load
  <1>1. \A q \in Orders : F[q] \in Int /\ F[q] \in Nat
    BY CheckoutAssumption DEF Owed
  <1>2. \A v \in Workers : K[v] \in Int /\ K[v] \in Nat
    BY CheckoutAssumption DEF Load, IInv, WorkersInv, HoldsRow, InHand
  <1>3. K[w] = IF pc[w] \in InHand THEN Qty[ctx[w].order] ELSE 0
    BY DEF Load
  <1>4. Due(statuses) = SumOver(F, Orders) + SumOver(K, Workers)
    BY TallyIs DEF Due
  <1> HIDE DEF F, K
  <1>5. SumOver(F, Orders) \in Nat
    BY <1>1, SumMonotone
  <1>6. SumOver(K, {w}) <= SumOver(K, Workers) /\ SumOver(K, Workers) \in Nat
    <2>1. {w} \in SUBSET Workers /\ \A v \in {w} : K[v] <= K[v]
      BY <1>2
    <2> QED
      BY <1>2, <2>1, SumMonotone
  <1>7. SumOver(K, {w}) = K[w]
    BY <1>2, SumOfOne
  <1> QED
    BY <1>2, <1>3, <1>4, <1>5, <1>6, <1>7 DEF F, K

\* A statement of worker w that neither changes a status nor takes or gives stock.
Plain(w) ==
  /\ Alone(w) /\ pc[w] \notin InHand /\ pc'[w] \notin InHand \union {"create_reserve"}
  /\ ctx'[w].op # "create"
  /\ pc'[w] # "idle" => /\ pc[w] \notin {"idle", "create_reserve"}
                        /\ ctx'[w].order = ctx[w].order

LEMMA GotoPlain ==
  ASSUME IInv, OrdersKnown, NEW w \in Workers,
         pc[w] \notin InHand \union {"idle", "create_reserve"},
         NEW label \in Labels \ (InHand \union {"create_reserve"}), Goto(w, label)
  PROVE  Plain(w)
  <1>1. Alone(w) /\ pc'[w] = label /\ ctx'[w] = ctx[w]
    BY GotoAlone DEF IInv
  <1>2. ctx[w].op # "create"
    BY DEF OrdersKnown, KnowsOrder
  <1> QED
    BY <1>1, <1>2 DEF Plain

LEMMA FinishStock ==
  ASSUME IInv, NEW w \in Workers, Finish(w)
  PROVE  Alone(w) /\ pc'[w] = "idle" /\ ctx'[w].op # "create"
  BY FinishAlone DEF IInv

\* What a handler does when it is done with a payment.
LEMMA ReturnStock ==
  ASSUME IInv, OrdersKnown, NEW w \in Workers, pc[w] \notin {"idle", "create_reserve"}, Return(w)
  PROVE  /\ Alone(w) /\ pc'[w] \in {"idle", "reopen_read"} /\ ctx'[w].op # "create"
         /\ pc'[w] # "idle" => ctx'[w].order = ctx[w].order
  <1>1. CASE ctx[w].op # "initiate"
    BY <1>1, FinishStock DEF Return
  <1>2. CASE ctx[w].op = "initiate"
    <2>1. /\ Begin(ctx[w].order, "initiate").order = ctx[w].order
          /\ Begin(ctx[w].order, "initiate").op = "initiate"
      BY BeginType DEF IInv, WorkersInv, HoldsRow, Ops
    <2> QED
      BY <1>2, <2>1, GotoWithAlone DEF Return, IInv
  <1> QED
    BY <1>1, <1>2

LEMMA ReturnPlain ==
  ASSUME IInv, OrdersKnown, NEW w \in Workers,
         pc[w] \notin InHand \union {"idle", "create_reserve"}, Return(w)
  PROVE  Plain(w)
  BY ReturnStock DEF Plain, InHand

LEMMA SettlePlain ==
  ASSUME IInv, OrdersKnown, NEW w \in Workers, pc[w] \in {"query", "cb_apply"},
         NEW result \in Outcomes, Settle(w, result)
  PROVE  Plain(w)
  <1>1. pc[w] \in WithPayment /\ ctx[w].op # "create"
    BY DEF WithPayment, OrdersKnown, KnowsOrder
  <1>2. /\ Alone(w) /\ pc'[w] \in {"succ_claim", "fail_claim"}
        /\ ctx'[w].op = ctx[w].op /\ ctx'[w].order = ctx[w].order
    BY <1>1, SettleAlone, SettleMoves
  <1> QED
    BY <1>1, <1>2 DEF Plain, InHand

LEMMA QueryPlain ==
  ASSUME IInv, OrdersKnown, NEW w \in Workers, QueryNoId(w) \/ QueryTooSoon(w) \/ Query(w)
  PROVE  Plain(w)
  <1>1. pc[w] = "query"
    BY DEF QueryNoId, QueryTooSoon, Query
  <1>2. ASSUME NEW verifying, StillPending(w, verifying) PROVE Plain(w)
    <2>1. Settle(w, "EXPIRED") \/ Finish(w)
      BY <1>2 DEF StillPending
    <2> QED
      BY <1>1, <2>1, SettlePlain, FinishStock DEF Plain, Outcomes, Failures, InHand
  <1>3. CASE QueryNoId(w)
    BY <1>1, <1>2, <1>3, GotoPlain DEF QueryNoId, Labels, InHand
  <1>4. CASE QueryTooSoon(w)
    BY <1>2, <1>4 DEF QueryTooSoon
  <1>5. CASE Query(w)
    <2>1. \/ \E result \in Outcomes : Settle(w, result)
          \/ \E verifying : StillPending(w, verifying)
      BY <1>5 DEF Query, Outcomes, Failures
    <2> QED
      BY <1>1, <1>2, <2>1, SettlePlain
  <1> QED
    BY <1>3, <1>4, <1>5

LEMMA CallbackPlain ==
  ASSUME IInv, OrdersKnown, NEW w \in Workers, CallbackConfirm(w) \/ CallbackApply(w)
  PROVE  Plain(w)
  <1>1. CASE CallbackConfirm(w)
    <2>1. pc[w] = "cb_confirm" /\ ctx[w] \in Context /\ ctx[w].op # "create"
      BY <1>1 DEF CallbackConfirm, IInv, TypeOK, OrdersKnown, KnowsOrder
    <2>2. ASSUME NEW result \in Outcomes,
                 GotoWith(w, "cb_apply", [ctx[w] EXCEPT !.outcome = result])
          PROVE  Plain(w)
      <3>1. PICK c : c = [ctx[w] EXCEPT !.outcome = result]
        OBVIOUS
      <3>2. c.op = ctx[w].op /\ c.order = ctx[w].order
        BY <2>1, <3>1 DEF Context
      <3>3. Alone(w) /\ pc'[w] = "cb_apply" /\ ctx'[w] = c
        BY <2>2, <3>1, GotoWithAlone DEF IInv
      <3> QED
        BY <2>1, <3>2, <3>3 DEF Plain, InHand
    <2>3. Finish(w) => Plain(w)
      BY <2>1, FinishStock DEF Plain, InHand
    <2> QED
      BY <1>1, <2>2, <2>3 DEF CallbackConfirm
  <1>2. CASE CallbackApply(w)
    <2>1. pc[w] = "cb_apply" /\ ctx[w].outcome \in Outcomes
      BY <1>2 DEF CallbackApply, IInv, WorkersInv, HoldsWord
    <2>2. Finish(w) => Plain(w)
      BY <2>1, FinishStock DEF Plain, InHand
    <2> QED
      BY <1>2, <2>1, <2>2, SettlePlain DEF CallbackApply
  <1> QED
    BY <1>1, <1>2

LEMMA InitiationPlain ==
  ASSUME IInv, OrdersKnown, NEW w \in Workers,
         FindExisting(w) \/ CreatePayment(w) \/ Push(w) \/ PushSave(w) \/ PushFail(w)
  PROVE  Plain(w)
  <1>1. /\ pc[w] \in {"find", "create_payment", "push", "push_save", "push_fail"}
        /\ pc[w] \notin InHand \union {"idle", "create_reserve"}
        /\ ctx[w] \in Context /\ ctx[w].op # "create"
    BY DEF FindExisting, CreatePayment, Push, PushSave, PushFail, IInv, TypeOK, InHand,
           OrdersKnown, KnowsOrder
  <1>2. CASE FindExisting(w)
    <2>1. Goto(w, "reopen_read") => Plain(w)
      BY <1>1, GotoPlain DEF Labels, InHand
    <2>2. ASSUME NEW q \in PendingPayments(ctx[w].order),
                 GotoWith(w, "query", Snapshot(ctx[w], q))
          PROVE  Plain(w)
      <3>1. /\ Snapshot(ctx[w], q).op = ctx[w].op
            /\ Snapshot(ctx[w], q).order = ctx[w].order
        BY <1>1, SnapshotType DEF PendingPayments, IInv
      <3>2. Alone(w) /\ pc'[w] = "query" /\ ctx'[w] = Snapshot(ctx[w], q)
        BY <2>2, GotoWithAlone DEF IInv
      <3> QED
        BY <1>1, <3>1, <3>2 DEF Plain, InHand
    <2> QED
      BY <1>2, <2>1, <2>2 DEF FindExisting
  <1>3. CASE CreatePayment(w)
    <2>1. PICK c : c = [ctx[w] EXCEPT !.payment = made + 1]
      OBVIOUS
    <2>2. c.op = ctx[w].op /\ c.order = ctx[w].order
      BY <1>1, <2>1 DEF Context
    <2>3. Alone(w) /\ pc'[w] = "push" /\ ctx'[w] = c
      BY <1>3, <2>1, GotoWithAlone DEF CreatePayment, IInv
    <2> QED
      BY <1>1, <2>2, <2>3 DEF Plain, InHand
  <1>4. CASE Push(w) \/ PushSave(w) \/ PushFail(w)
    <2>1. Goto(w, "push_save") \/ Goto(w, "push_fail") \/ Finish(w)
      BY <1>4 DEF Push, PushSave, PushFail
    <2> QED
      BY <1>1, <2>1, GotoPlain, FinishStock DEF Plain, Labels, InHand
  <1> QED
    BY <1>2, <1>3, <1>4

LEMMA SettlementPlain ==
  ASSUME IInv, OrdersKnown, NEW w \in Workers,
         ClaimSuccess(w) \/ CheckOther(w) \/ IssueRead(w) \/ Issue(w)
         \/ ClaimFailure(w) \/ ClaimGiveUp(w)
  PROVE  Plain(w)
  <1>1. pc[w] \notin InHand \union {"idle", "create_reserve"}
    BY DEF ClaimSuccess, CheckOther, IssueRead, Issue, ClaimFailure, ClaimGiveUp, InHand
  <1>2. \/ Return(w) \/ Finish(w)
        \/ \E label \in {"check_other", "paid_read", "issue", "order_fail"} : Goto(w, label)
    BY DEF ClaimSuccess, CheckOther, IssueRead, Issue, ClaimFailure, ClaimGiveUp, ClaimPending
  <1>3. Finish(w) => Plain(w)
    BY <1>1, FinishStock DEF Plain, InHand
  <1> QED
    BY <1>1, <1>2, <1>3, ReturnPlain, GotoPlain DEF Labels, InHand

LEMMA ReadingPlain ==
  ASSUME IInv, OrdersKnown, NEW w \in Workers,
         MarkPaidRead(w) \/ ReopenRead(w) \/ ReopenCheck(w)
  PROVE  Plain(w)
  <1>1. pc[w] \notin InHand \union {"idle", "create_reserve"}
    BY DEF MarkPaidRead, ReopenRead, ReopenCheck, InHand
  <1>2. \/ Finish(w)
        \/ \E label \in {"issue_read", "paid_set", "paid_reserve", "create_payment",
                         "reopen_check", "reopen_take"} : Goto(w, label)
    BY DEF MarkPaidRead, ReopenRead, ReopenCheck
  <1> QED
    BY <1>1, <1>2, GotoPlain, FinishStock DEF Plain, Labels, InHand

\* Nothing the counter shows or should show has changed.
LEMMA DueStays ==
  ASSUME StockAccounted, UNCHANGED <<orderStatus, quantitySold>>,
         Load' = Load, mishaps \subseteq mishaps'
  PROVE  StockAccounted'
  <1>1. ASSUME NEW statuses PROVE Due(statuses)' = Due(statuses)
    <2>1. Owed(statuses)' = Owed(statuses)
      BY DEF Owed
    <2> QED
      BY <2>1 DEF Due
  <1> QED
    BY <1>1 DEF StockAccounted

LEMMA LoadStays ==
  ASSUME NEW w \in Workers, Alone(w), pc[w] \notin InHand, pc'[w] \notin InHand
  PROVE  Load' = Load
  BY DEF Alone, Load

LEMMA PlainStock ==
  ASSUME IInv, LedgerInv, NEW w \in Workers, Plain(w), UNCHANGED <<orderStatus, quantitySold>>,
         RowsOrdered', mishaps \subseteq mishaps'
  PROVE  LedgerInv'
  <1>1. /\ OrdersKnown /\ StockAccounted
        /\ Alone(w) /\ pc[w] \notin InHand /\ pc'[w] \notin InHand
    BY DEF Plain, LedgerInv
  <1>2. /\ pc'[w] # "create_reserve" /\ ctx'[w].op # "create"
        /\ pc'[w] # "idle" => orderStatus'[ctx'[w].order] # "NONE"
        /\ \A v \in Workers : pc[v] = "create_reserve" => orderStatus'[ctx[v].order] = "NONE"
    BY <1>1 DEF Plain, OrdersKnown, KnowsOrder
  <1>3. OrdersKnown'
    BY <1>1, <1>2, KnownStays
  <1>4. StockAccounted'
    BY <1>1, LoadStays, DueStays
  <1> QED
    BY <1>3, <1>4 DEF LedgerInv

\* Worker w changes the status of its order o, takes its stock or gives it back.
LEMMA ActingKnown ==
  ASSUME IInv, OrdersKnown, NEW w \in Workers, Alone(w), UNCHANGED <<made, orderOf>>,
         NEW o \in Orders, ctx[w].order = o, pc[w] # "idle",
         NEW status \in {"PENDING", "PAID", "FAILED"},
         orderStatus' = [orderStatus EXCEPT ![o] = status],
         ctx'[w].op # "create", pc'[w] # "create_reserve",
         pc'[w] = "idle" \/ ctx'[w].order = o
  PROVE  OrdersKnown'
  <1>1. orderStatus'[o] = status /\ \A q \in Orders \ {o} : orderStatus'[q] = orderStatus[q]
    BY DEF IInv, TypeOK
  <1>2. RowsOrdered'
    BY <1>1 DEF RowsOrdered, OrdersKnown, IInv, RowsInv
  <1>3. ASSUME NEW v \in Workers \ {w}, pc[v] = "create_reserve"
        PROVE  orderStatus'[ctx[v].order] = "NONE"
    <2>1. ctx[v].order \in Orders /\ orderStatus[ctx[v].order] = "NONE"
      BY <1>3 DEF IInv, WorkersInv, HoldsRow, OrdersKnown, KnowsOrder
    <2>2. ctx[v].order # o
      BY <1>3, <2>1 DEF OrdersKnown, OneTurn, KnowsOrder
    <2> QED
      BY <1>1, <2>1, <2>2
  <1> QED
    BY <1>1, <1>2, <1>3, KnownStays

LEMMA CreateReserveStock ==
  ASSUME IInv, LedgerInv, IsFiniteSet(Orders), IsFiniteSet(Workers), NEW w \in Workers,
         CreateReserve(w), mishaps \subseteq mishaps'
  PROVE  LedgerInv'
  <1>0. PICK o \in Orders : o = ctx[w].order
    BY DEF CreateReserve, IInv, WorkersInv, HoldsRow
  <1>1. /\ pc[w] = "create_reserve" /\ orderStatus[o] = "NONE" /\ OrdersKnown /\ StockAccounted
        /\ quantitySold' = quantitySold + Qty[o] /\ quantitySold \in Nat /\ Qty[o] \in Nat
        /\ orderStatus' = [orderStatus EXCEPT ![o] = "PENDING"]
        /\ UNCHANGED <<made, orderOf>>
    BY <1>0, CheckoutAssumption
    DEF CreateReserve, LedgerInv, OrdersKnown, KnowsOrder, rowVars, IInv, TypeOK
  <1>2. Alone(w) /\ pc'[w] = "idle" /\ ctx'[w].op # "create"
    BY FinishStock DEF CreateReserve
  <1>3. OrdersKnown'
    BY <1>0, <1>1, <1>2, ActingKnown
  <1>4. ASSUME NEW statuses, "PENDING" \in statuses, "NONE" \notin statuses
        PROVE  Due(statuses) \in Int /\ Due(statuses)' = Due(statuses) + Qty[o]
    <2>1. /\ Due(statuses) \in Int
          /\ Due(statuses)' = Due(statuses)
                              - Worth(o, orderStatus[o], statuses) + Worth(o, "PENDING", statuses)
                              - Worth(o, pc[w], InHand) + Worth(o, pc'[w], InHand)
      BY <1>0, <1>1, <1>2, DueMoves, ZenonT(80) DEF InHand
    <2> QED
      BY <1>1, <1>2, <1>4, <2>1 DEF Worth, InHand
  <1>5. StockAccounted'
    BY <1>1, <1>4 DEF StockAccounted
  <1> QED
    BY <1>3, <1>5 DEF LedgerInv

LEMMA TakeStock ==
  ASSUME IInv, LedgerInv, IsFiniteSet(Orders), IsFiniteSet(Workers), NEW w \in Workers,
         MarkPaidReserve(w) \/ ReopenTake(w), mishaps \subseteq mishaps'
  PROVE  LedgerInv'
  <1>0. PICK o \in Orders : o = ctx[w].order
    BY DEF MarkPaidReserve, ReopenTake, IInv, WorkersInv, HoldsRow
  <1>1. /\ pc[w] \in {"paid_reserve", "reopen_take"} /\ OrdersKnown /\ StockAccounted
        /\ quantitySold' = quantitySold + Qty[o] /\ quantitySold \in Nat /\ Qty[o] \in Nat
        /\ UNCHANGED <<orderStatus, made, orderOf>> /\ ctx[w].op # "create"
        /\ orderStatus[o] \in {"PENDING", "PAID", "FAILED"}
    BY <1>0, CheckoutAssumption
    DEF MarkPaidReserve, ReopenTake, LedgerInv, OrdersKnown, KnowsOrder, rowVars, IInv, TypeOK,
        OrderStatus
  <1>2. orderStatus' = [orderStatus EXCEPT ![o] = orderStatus[o]]
    BY <1>1 DEF IInv, TypeOK
  <1>3. Alone(w) /\ ctx'[w] = ctx[w] /\ pc'[w] \in {"paid_late", "reopen_set"}
    BY GotoAlone DEF MarkPaidReserve, ReopenTake, IInv
  <1>4. OrdersKnown'
    BY <1>0, <1>1, <1>2, <1>3, ActingKnown
  <1>5. ASSUME NEW statuses PROVE Due(statuses) \in Int /\ Due(statuses)' = Due(statuses) + Qty[o]
    <2>1. /\ Due(statuses) \in Int
          /\ Due(statuses)' = Due(statuses)
                              - Worth(o, orderStatus[o], statuses)
                              + Worth(o, orderStatus[o], statuses)
                              - Worth(o, pc[w], InHand) + Worth(o, pc'[w], InHand)
      BY <1>0, <1>2, <1>3, DueMoves, ZenonT(80)
    <2>2. Worth(o, pc[w], InHand) = 0 /\ Worth(o, pc'[w], InHand) = Qty[o]
      BY <1>1, <1>3 DEF Worth, InHand
    <2>3. Worth(o, orderStatus[o], statuses) \in Int
      BY <1>1 DEF Worth
    <2> QED
      BY <1>1, <2>1, <2>2, <2>3
  <1>6. StockAccounted'
    BY <1>1, <1>5 DEF StockAccounted
  <1> QED
    BY <1>4, <1>6 DEF LedgerInv

\* MarkPaidSet and ReopenSet with stock in hand.
LEMMA WriteStock ==
  ASSUME IInv, LedgerInv, IsFiniteSet(Orders), IsFiniteSet(Workers), NEW w \in Workers,
         \/ MarkPaidSet(w) /\ pc[w] = "paid_late"
         \/ ReopenSet(w),
         mishaps \subseteq mishaps', Doubles(w) => "surplus" \in mishaps'
  PROVE  LedgerInv'
  <1>0. PICK o \in Orders : o = ctx[w].order
    BY DEF MarkPaidSet, ReopenSet, IInv, WorkersInv, HoldsRow
  <1>1. PICK status \in {"PENDING", "PAID"} : orderStatus' = [orderStatus EXCEPT ![o] = status]
    BY <1>0 DEF MarkPaidSet, ReopenSet
  <1>2. /\ pc[w] \in {"paid_late", "reopen_set"} /\ OrdersKnown /\ StockAccounted
        /\ quantitySold' = quantitySold /\ quantitySold \in Nat /\ Qty[o] \in Nat
        /\ UNCHANGED <<made, orderOf>> /\ ctx[w].op # "create"
        /\ orderStatus[o] \in {"PENDING", "PAID", "FAILED"}
    BY <1>0, CheckoutAssumption
    DEF MarkPaidSet, ReopenSet, LedgerInv, OrdersKnown, KnowsOrder, rowVars, IInv, TypeOK,
        OrderStatus
  <1>3. Alone(w) /\ ctx'[w] = ctx[w] /\ pc'[w] \in {"issue_read", "create_payment"}
    BY GotoAlone DEF MarkPaidSet, ReopenSet, IInv
  <1>4. OrdersKnown'
    BY <1>0, <1>1, <1>2, <1>3, ActingKnown
  <1>5. ASSUME NEW statuses
        PROVE  /\ Due(statuses) \in Int
               /\ Due(statuses)' = Due(statuses) - Worth(o, orderStatus[o], statuses)
                                   + Worth(o, status, statuses) - Qty[o]
    <2>1. Worth(o, pc[w], InHand) = Qty[o] /\ Worth(o, pc'[w], InHand) = 0
      BY <1>2, <1>3 DEF Worth, InHand
    <2>2. /\ Worth(o, orderStatus[o], statuses) \in Int /\ Worth(o, status, statuses) \in Int
      BY <1>2 DEF Worth
    <2>3. /\ Due(statuses) \in Int
          /\ Due(statuses)' = Due(statuses)
                              - Worth(o, orderStatus[o], statuses) + Worth(o, status, statuses)
                              - Worth(o, pc[w], InHand) + Worth(o, pc'[w], InHand)
      BY <1>0, <1>1, <1>3, DueMoves, ZenonT(80)
    <2> QED
      BY <1>2, <2>1, <2>2, <2>3
  <1>6. Due({"PENDING"}) \in Int /\ Due({"PENDING"})' <= Due({"PENDING"}) /\ Due({"PENDING"})' \in Int
    BY <1>2, <1>5 DEF Worth
  <1>7. CASE orderStatus[o] = "FAILED"
    <2>1. /\ Due({"PENDING", "PAID"}) \in Int
          /\ Due({"PENDING", "PAID"})' = Due({"PENDING", "PAID"})
      BY <1>2, <1>5, <1>7 DEF Worth
    <2> QED
      BY <1>2, <1>4, <1>6, <2>1 DEF StockAccounted, LedgerInv
  <1>8. CASE orderStatus[o] # "FAILED"
    <2>1. /\ Due({"PENDING", "PAID"}) \in Int
          /\ Due({"PENDING", "PAID"})' = Due({"PENDING", "PAID"}) - Qty[o]
      BY <1>2, <1>5, <1>8 DEF Worth
    <2>2. "surplus" \in mishaps'
      BY <1>0, <1>2, <1>3, <1>8 DEF Doubles
    <2> QED
      BY <1>2, <1>4, <1>6, <2>1, <2>2 DEF StockAccounted, LedgerInv
  <1> QED
    BY <1>7, <1>8

\* MarkPaidSet on the strength of what the order was read to hold.
LEMMA TrustStock ==
  ASSUME IInv, LedgerInv, IsFiniteSet(Orders), IsFiniteSet(Workers), NEW w \in Workers,
         MarkPaidSet(w), pc[w] = "paid_set",
         mishaps \subseteq mishaps', Strips(w) => "stripped" \in mishaps'
  PROVE  LedgerInv'
  <1>0. PICK o \in Orders : o = ctx[w].order
    BY DEF IInv, WorkersInv, HoldsRow
  <1>1. /\ OrdersKnown /\ StockAccounted /\ orderStatus' = [orderStatus EXCEPT ![o] = "PAID"]
        /\ quantitySold' = quantitySold /\ quantitySold \in Nat /\ Qty[o] \in Nat
        /\ UNCHANGED <<made, orderOf>> /\ ctx[w].op # "create"
        /\ orderStatus[o] \in {"PENDING", "PAID", "FAILED"}
    <2>1. /\ orderStatus' = [orderStatus EXCEPT ![o] = "PAID"] /\ quantitySold' = quantitySold
          /\ UNCHANGED <<made, orderOf>>
      BY <1>0 DEF MarkPaidSet, rowVars
    <2>2. OrdersKnown /\ StockAccounted /\ KnowsOrder(w)
      BY DEF LedgerInv, OrdersKnown
    <2>3. quantitySold \in Nat /\ Qty[o] \in Nat /\ orderStatus[o] \in OrderStatus
      BY CheckoutAssumption DEF IInv, TypeOK
    <2>4. ctx[w].op # "create" /\ orderStatus[o] # "NONE"
      BY <1>0, <2>2 DEF KnowsOrder
    <2> QED
      BY <2>1, <2>2, <2>3, <2>4 DEF OrderStatus
  <1>2. Alone(w) /\ ctx'[w] = ctx[w] /\ pc'[w] = "issue_read"
    BY GotoAlone DEF MarkPaidSet, IInv
  <1>3. OrdersKnown'
    BY <1>0, <1>1, <1>2, ActingKnown
  <1>4. ASSUME NEW statuses
        PROVE  /\ Due(statuses) \in Int
               /\ Due(statuses)' = Due(statuses) - Worth(o, orderStatus[o], statuses)
                                   + Worth(o, "PAID", statuses)
    <2>1. Worth(o, pc[w], InHand) = 0 /\ Worth(o, pc'[w], InHand) = 0
      BY <1>2 DEF Worth, InHand
    <2>2. /\ Worth(o, orderStatus[o], statuses) \in Int /\ Worth(o, "PAID", statuses) \in Int
      BY <1>1 DEF Worth
    <2>3. /\ Due(statuses) \in Int
          /\ Due(statuses)' = Due(statuses)
                              - Worth(o, orderStatus[o], statuses) + Worth(o, "PAID", statuses)
                              - Worth(o, pc[w], InHand) + Worth(o, pc'[w], InHand)
      BY <1>0, <1>1, <1>2, DueMoves, ZenonT(80)
    <2> QED
      BY <2>1, <2>2, <2>3
  <1>5. Due({"PENDING"}) \in Int /\ Due({"PENDING"})' <= Due({"PENDING"}) /\ Due({"PENDING"})' \in Int
    BY <1>1, <1>4 DEF Worth
  <1>6. CASE orderStatus[o] # "FAILED"
    <2>1. /\ Due({"PENDING", "PAID"}) \in Int
          /\ Due({"PENDING", "PAID"})' = Due({"PENDING", "PAID"})
      BY <1>1, <1>4, <1>6 DEF Worth
    <2> QED
      BY <1>1, <1>3, <1>5, <2>1 DEF StockAccounted, LedgerInv
  <1>7. CASE orderStatus[o] = "FAILED"
    <2>1. /\ Due({"PENDING", "PAID"}) \in Int
          /\ Due({"PENDING", "PAID"})' = Due({"PENDING", "PAID"}) + Qty[o]
      BY <1>1, <1>4, <1>7 DEF Worth
    <2>2. "stripped" \in mishaps'
      BY <1>0, <1>2, <1>7 DEF Strips
    <2> QED
      BY <1>1, <1>3, <1>5, <2>1, <2>2 DEF StockAccounted, LedgerInv
  <1> QED
    BY <1>6, <1>7

LEMMA MarkFailedStock ==
  ASSUME IInv, LedgerInv, IsFiniteSet(Orders), IsFiniteSet(Workers), NEW w \in Workers,
         MarkFailed(w), mishaps \subseteq mishaps'
  PROVE  LedgerInv'
  <1>0. PICK o \in Orders : o = ctx[w].order
    BY DEF MarkFailed, IInv, WorkersInv, HoldsRow
  <1>1. /\ pc[w] = "order_fail" /\ OrdersKnown /\ StockAccounted
        /\ quantitySold' = quantitySold /\ quantitySold \in Nat /\ Qty[o] \in Nat
        /\ UNCHANGED <<made, orderOf>> /\ ctx[w].op # "create"
    BY <1>0, CheckoutAssumption
    DEF MarkFailed, LedgerInv, OrdersKnown, KnowsOrder, rowVars, IInv, TypeOK
  <1>2. CASE orderStatus[o] # "PENDING"
    <2>1. UNCHANGED <<orderStatus, quantitySold>> /\ Return(w)
      BY <1>0, <1>2 DEF MarkFailed
    <2>2. Plain(w)
      BY <1>1, <2>1, ReturnPlain DEF InHand
    <2>3. RowsOrdered'
      BY <1>1, <2>1 DEF RowsOrdered, OrdersKnown
    <2> QED
      BY <2>1, <2>2, <2>3, PlainStock
  <1>3. CASE orderStatus[o] = "PENDING"
    <2>1. orderStatus' = [orderStatus EXCEPT ![o] = "FAILED"] /\ Goto(w, "release")
      BY <1>0, <1>3 DEF MarkFailed
    <2>2. Alone(w) /\ ctx'[w] = ctx[w] /\ pc'[w] = "release"
      BY <2>1, GotoAlone DEF IInv
    <2>3. OrdersKnown'
      BY <1>0, <1>1, <2>1, <2>2, ActingKnown
    <2>4. ASSUME NEW statuses, "PENDING" \in statuses, "FAILED" \notin statuses
          PROVE  Due(statuses) \in Int /\ Due(statuses)' = Due(statuses)
      <3>1. /\ Due(statuses) \in Int
            /\ Due(statuses)' = Due(statuses)
                                - Worth(o, orderStatus[o], statuses) + Worth(o, "FAILED", statuses)
                                - Worth(o, pc[w], InHand) + Worth(o, pc'[w], InHand)
        BY <1>0, <2>1, <2>2, DueMoves, ZenonT(80)
      <3> QED
        BY <1>1, <1>3, <2>2, <2>4, <3>1 DEF Worth, InHand
    <2> QED
      BY <1>1, <2>3, <2>4 DEF StockAccounted, LedgerInv
  <1> QED
    BY <1>2, <1>3

LEMMA ReleaseStock ==
  ASSUME IInv, LedgerInv, IsFiniteSet(Orders), IsFiniteSet(Workers), NEW w \in Workers,
         ReleaseReservation(w), mishaps \subseteq mishaps'
  PROVE  LedgerInv'
  <1>0. PICK o \in Orders : o = ctx[w].order
    BY DEF ReleaseReservation, IInv, WorkersInv, HoldsRow
  <1>1. /\ pc[w] = "release" /\ OrdersKnown /\ StockAccounted /\ Return(w)
        /\ quantitySold' = IF quantitySold - Qty[o] < 0 THEN 0 ELSE quantitySold - Qty[o]
        /\ quantitySold \in Nat /\ Qty[o] \in Nat
        /\ UNCHANGED <<orderStatus, made, orderOf>> /\ ctx[w].op # "create"
        /\ orderStatus[o] \in {"PENDING", "PAID", "FAILED"}
    BY <1>0, CheckoutAssumption
    DEF ReleaseReservation, LedgerInv, OrdersKnown, KnowsOrder, rowVars, IInv, TypeOK, OrderStatus
  <1>2. orderStatus' = [orderStatus EXCEPT ![o] = orderStatus[o]]
    BY <1>1 DEF IInv, TypeOK
  <1>3. /\ Alone(w) /\ pc'[w] \in {"idle", "reopen_read"} /\ ctx'[w].op # "create"
        /\ pc'[w] # "idle" => ctx'[w].order = ctx[w].order
    BY <1>1, ReturnStock
  <1>4. OrdersKnown'
    BY <1>0, <1>1, <1>2, <1>3, ActingKnown
  <1>5. ASSUME NEW statuses PROVE Due(statuses) \in Int /\ Due(statuses)' = Due(statuses) - Qty[o]
    <2>1. /\ Due(statuses) \in Int
          /\ Due(statuses)' = Due(statuses)
                              - Worth(o, orderStatus[o], statuses)
                              + Worth(o, orderStatus[o], statuses)
                              - Worth(o, pc[w], InHand) + Worth(o, pc'[w], InHand)
      <3>1. pc[w] \in InHand => ctx[w].order = o
        BY <1>0
      <3>2. pc'[w] \in InHand => ctx'[w].order = o
        BY <1>3 DEF InHand
      <3> QED
        BY <1>2, <1>3, <3>1, <3>2, DueMoves
    <2>2. Worth(o, pc[w], InHand) = Qty[o] /\ Worth(o, pc'[w], InHand) = 0
      BY <1>1, <1>3 DEF Worth, InHand
    <2>3. Worth(o, orderStatus[o], statuses) \in Int
      BY <1>1 DEF Worth
    <2> QED
      BY <1>1, <2>1, <2>2, <2>3
  <1>6. Due({"PENDING"}) >= Qty[o]
    BY <1>0, <1>1, DueCovers DEF InHand
  <1>7. quantitySold' = quantitySold - Qty[o]
    BY <1>1, <1>5, <1>6 DEF StockAccounted
  <1>8. StockAccounted'
    BY <1>1, <1>5, <1>7 DEF StockAccounted
  <1> QED
    BY <1>4, <1>8 DEF LedgerInv

LEMMA StartStock ==
  ASSUME IInv, LedgerInv, NEW w \in Workers, Start(w), mishaps \subseteq mishaps'
  PROVE  LedgerInv'
  <1>1. /\ Alone(w) /\ pc[w] = "idle" /\ UNCHANGED <<made, orderOf, orderStatus, quantitySold>>
        /\ OrdersKnown /\ StockAccounted /\ pc[w] \notin InHand
    BY StartAlone
    DEF Start, CreateCheck, InitiateStart, RecoverStart, ReconcileStart, CallbackStart, IInv,
        orderVars, rowVars, LedgerInv, InHand
  <1>2. RowsOrdered'
    BY <1>1 DEF RowsOrdered, OrdersKnown
  <1>3. ASSUME pc'[w] \notin InHand PROVE StockAccounted'
    BY <1>1, <1>3, LoadStays, DueStays
  <1>4. ASSUME NEW o \in Orders, CreateCheck(w, o) PROVE LedgerInv'
    <2>1. /\ pc'[w] = "create_reserve" /\ ctx'[w].op = "create" /\ ctx'[w].order = o
          /\ orderStatus[o] = "NONE"
      BY <1>4, GotoWithAlone, BeginType DEF CreateCheck, Ops, IInv
    <2>2. \A v \in Workers \ {w} : /\ pc'[v] = pc[v] /\ ctx'[v] = ctx[v]
                                   /\ pc[v] = "create_reserve" => ctx[v].order # o
      BY <1>1, <1>4 DEF CreateCheck, InFlight, OrdersKnown, KnowsOrder, Alone
    <2>3. OrdersKnown'
      <3>1. \A v \in Workers : KnowsOrder(v)'
        BY <1>1, <2>1, <2>2 DEF OrdersKnown, KnowsOrder
      <3>2. OneTurn'
        BY <1>1, <2>1, <2>2 DEF OrdersKnown, OneTurn
      <3> QED
        BY <1>2, <3>1, <3>2 DEF OrdersKnown
    <2> QED
      BY <1>3, <2>1, <2>3 DEF LedgerInv, InHand
  <1>5. ASSUME pc'[w] \notin InHand \union {"create_reserve"}, ctx'[w].op # "create",
               orderStatus[ctx'[w].order] # "NONE"
        PROVE  LedgerInv'
    <2>1. \A v \in Workers : pc[v] = "create_reserve" => orderStatus'[ctx[v].order] = "NONE"
      BY <1>1 DEF OrdersKnown, KnowsOrder
    <2>2. OrdersKnown'
      BY <1>1, <1>2, <1>5, <2>1, KnownStays
    <2> QED
      BY <1>3, <1>5, <2>2 DEF LedgerInv
  <1>6. ASSUME NEW o \in Orders, InitiateStart(w, o) \/ RecoverStart(w, o) PROVE LedgerInv'
    <2>1. /\ pc'[w] \in {"find", "issue_read"} /\ ctx'[w].op # "create" /\ ctx'[w].order = o
          /\ orderStatus[o] # "NONE"
      BY <1>6, GotoWithAlone, BeginType DEF InitiateStart, RecoverStart, Ops, IInv
    <2> QED
      BY <1>5, <2>1 DEF InHand
  <1>7. ASSUME NEW p \in Payments, ReconcileStart(w, p) \/ CallbackStart(w, p) PROVE LedgerInv'
    <2>1. p <= made
      BY <1>7 DEF ReconcileStart, CallbackStart, IInv, RowsInv, TypeOK, Payments
    <2>2. orderOf[p] \in Orders /\ orderStatus[orderOf[p]] # "NONE"
      BY <1>1, <2>1 DEF OrdersKnown, RowsOrdered, IInv, RowsInv
    <2>3. /\ pc'[w] \in {"query", "cb_confirm", "cb_apply"} /\ ctx'[w].op # "create"
          /\ ctx'[w].order = orderOf[p]
      <3>1. CASE ReconcileStart(w, p)
        <4>1. PICK c : c = Snapshot(Begin(orderOf[p], "reconcile"), p)
          OBVIOUS
        <4>2. c.op = "reconcile" /\ c.order = orderOf[p]
          BY <2>2, <4>1, BeginType, SnapshotType DEF Ops, IInv
        <4> QED
          BY <3>1, <4>1, <4>2, GotoWithAlone DEF ReconcileStart, IInv
      <3>2. CASE CallbackStart(w, p)
        <4>1. PICK c : c = Snapshot(Begin(orderOf[p], "callback"), p)
          OBVIOUS
        <4>2. c \in Context /\ c.op = "callback" /\ c.order = orderOf[p]
          BY <2>2, <4>1, BeginType, SnapshotType DEF Ops, IInv
        <4>3. PICK d : d = [c EXCEPT !.outcome = prompt[p]]
          OBVIOUS
        <4>4. d.op = "callback" /\ d.order = orderOf[p]
          BY <4>2, <4>3 DEF Context
        <4>5. GotoWith(w, "cb_confirm", c) \/ GotoWith(w, "cb_apply", d)
          BY <3>2, <4>1, <4>3 DEF CallbackStart
        <4> QED
          BY <4>2, <4>4, <4>5, GotoWithAlone DEF IInv
      <3> QED
        BY <1>7, <3>1, <3>2
    <2> QED
      BY <1>5, <2>2, <2>3 DEF InHand
  <1> QED
    BY <1>4, <1>6, <1>7 DEF Start

LEMMA ContinueStock ==
  ASSUME IInv, LedgerInv, IsFiniteSet(Orders), IsFiniteSet(Workers), NEW w \in Workers,
         Continue(w), mishaps \subseteq mishaps',
         Strips(w) => "stripped" \in mishaps', Doubles(w) => "surplus" \in mishaps'
  PROVE  LedgerInv'
  <1> DEFINE Acting == CreateReserve(w) \/ ReopenTake(w) \/ ReopenSet(w) \/ MarkPaidReserve(w)
                       \/ MarkPaidSet(w) \/ MarkFailed(w) \/ ReleaseReservation(w)
  <1>1. CASE Acting
    <2>1. MarkPaidSet(w) => pc[w] \in {"paid_set", "paid_late"}
      BY DEF MarkPaidSet
    <2> QED
      BY <1>1, <2>1, CreateReserveStock, TakeStock, WriteStock, TrustStock, MarkFailedStock,
         ReleaseStock
  <1>2. CASE ~Acting
    <2>0. OrdersKnown
      BY DEF LedgerInv
    <2>1. Plain(w)
      BY <1>2, <2>0, QueryPlain, CallbackPlain, InitiationPlain, SettlementPlain, ReadingPlain
      DEF Continue, Initiation, Settlement
    <2>2. UNCHANGED <<orderStatus, quantitySold>>
      BY <1>2
      DEF Continue, Initiation, Settlement, FindExisting, CreatePayment, Push, PushSave, PushFail,
          ReopenRead, ReopenCheck, MarkPaidRead, QueryNoId, QueryTooSoon, Query, ClaimSuccess,
          CheckOther, IssueRead, Issue, ClaimFailure, ClaimGiveUp, CallbackConfirm, CallbackApply,
          orderVars
    <2>3. CASE CreatePayment(w)
      <3>1. orderStatus[ctx[w].order] # "NONE"
        BY <2>0, <2>3 DEF CreatePayment, OrdersKnown, KnowsOrder
      <3>2. /\ made' = made + 1 /\ made + 1 \in Payments
            /\ orderOf' = [orderOf EXCEPT ![made + 1] = ctx[w].order]
        BY <2>3, CheckoutAssumption, SMTT(30) DEF CreatePayment, IInv, TypeOK, Payments
      <3>3. RowsOrdered'
        BY <2>0, <2>2, <3>1, <3>2 DEF RowsOrdered, OrdersKnown, IInv, TypeOK, Payments
      <3> QED
        BY <2>1, <2>2, <3>3, PlainStock
    <2>4. CASE ~CreatePayment(w)
      <3>1. UNCHANGED <<made, orderOf>>
        BY <1>2, <2>4
        DEF Continue, Initiation, Settlement, FindExisting, Push, PushSave, PushFail, ReopenRead,
            ReopenCheck, MarkPaidRead, QueryNoId, QueryTooSoon, Query, ClaimSuccess, CheckOther,
            IssueRead, Issue, ClaimFailure, ClaimGiveUp, ClaimPending, CallbackConfirm,
            CallbackApply, SetStatus, rowVars
      <3>2. RowsOrdered'
        BY <2>0, <2>2, <3>1 DEF RowsOrdered, OrdersKnown
      <3> QED
        BY <2>1, <2>2, <3>2, PlainStock
    <2> QED
      BY <2>3, <2>4
  <1> QED
    BY <1>1, <1>2

\* A restart: what was in hand is nobody's any more.
LEMMA CrashStock ==
  ASSUME IInv, LedgerInv, IsFiniteSet(Orders), IsFiniteSet(Workers), Crash,
         mishaps \subseteq mishaps', Strands => "surplus" \in mishaps'
  PROVE  LedgerInv'
  <1>1. /\ UNCHANGED <<orderStatus, quantitySold, made, orderOf>> /\ crashes' > crashes
        /\ pc' = [v \in Workers |-> "idle"] /\ ctx' = [v \in Workers |-> Idle]
        /\ quantitySold \in Nat
    BY DEF Crash, orderVars, rowVars, IInv, TypeOK
  <1>2. OrdersKnown'
    BY <1>1 DEF LedgerInv, OrdersKnown, RowsOrdered, OneTurn, KnowsOrder, Idle
  <1>3. PICK v \in Workers : TRUE
    BY DEF Crash
  <1>4. CASE \E w \in Workers : pc[w] \in InHand
    <2>1. "surplus" \in mishaps'
      BY <1>1, <1>4 DEF Strands
    <2>2. \A w \in Workers : (Load')[w] = 0
      BY <1>1 DEF Load, InHand
    <2>3. SumOver(Load', Workers) = 0
      <3> DEFINE L == Load'
      <3>1. \A w \in Workers : L[w] = 0
        BY <2>2
      <3> HIDE DEF L
      <3>2. SumOver(L, Workers) = 0
        BY <3>1, SumOfZeros
      <3> QED
        BY <3>2 DEF L
    <2>4. ASSUME NEW statuses PROVE Due(statuses)' <= Due(statuses) /\ Due(statuses) \in Int
                                    /\ Due(statuses)' \in Int
      <3>1. Owed(statuses)' = Owed(statuses)
        BY <1>1 DEF Owed
      <3>2. Due(statuses)' = SumOver(Owed(statuses)', Orders) + SumOver(Load', Workers)
        BY TallyIs DEF Due
      <3>3. /\ SumOver(Load, Workers) \in Nat /\ SumOver(Owed(statuses), Orders) \in Nat
            /\ Due(statuses) = SumOver(Owed(statuses), Orders) + SumOver(Load, Workers)
        BY <1>3, DueCovers
      <3> QED
        BY <2>3, <3>1, <3>2, <3>3
    <2>5. StockAccounted'
      BY <1>1, <2>1, <2>4 DEF StockAccounted, LedgerInv
    <2> QED
      BY <1>2, <2>5 DEF LedgerInv
  <1>5. CASE \A w \in Workers : pc[w] \notin InHand
    <2>1. Load' = Load
      BY <1>1, <1>5 DEF Load, InHand
    <2> QED
      BY <1>1, <1>2, <2>1, DueStays DEF LedgerInv
  <1> QED
    BY <1>4, <1>5

LEMMA StockNext ==
  ASSUME IInv, LedgerInv, IsFiniteSet(Orders), IsFiniteSet(Workers), [LedgerNext]_ledger
  PROVE  LedgerInv'
  <1>1. mishaps \subseteq mishaps'
    BY DEF LedgerNext, ledger
  <1>2. ASSUME NEW w \in Workers, Start(w) \/ Continue(w), LedgerNext PROVE LedgerInv'
    <2>1. /\ Strips(w) => "stripped" \in mishaps'
          /\ Doubles(w) => "surplus" \in mishaps'
      BY <1>2 DEF LedgerNext
    <2> QED
      BY <1>1, <1>2, <2>1, StartStock, ContinueStock
  <1>3. CASE Crash /\ LedgerNext
    <2>1. Strands => "surplus" \in mishaps'
      BY <1>3 DEF LedgerNext
    <2> QED
      BY <1>1, <1>3, <2>1, CrashStock
  <1>4. CASE UNCHANGED <<orderStatus, quantitySold, made, orderOf, pc, ctx>>
    <2>1. Load' = Load
      BY <1>4 DEF Load
    <2>2. OrdersKnown'
      BY <1>4 DEF LedgerInv, OrdersKnown, RowsOrdered, OneTurn, KnowsOrder
    <2> QED
      BY <1>1, <1>4, <2>1, <2>2, DueStays DEF LedgerInv
  <1> QED
    BY <1>2, <1>3, <1>4
    DEF LedgerNext, ledger, Next, Surroundings, Answer, Tick, FlagCommission, StopSales, vars,
        orderVars, rowVars, workerVars

LEMMA StockInit ==
  ASSUME LedgerInit, IsFiniteSet(Orders), IsFiniteSet(Workers)
  PROVE  LedgerInv
  <1>1. ASSUME NEW statuses, "NONE" \notin statuses PROVE Due(statuses) = 0
    <2> DEFINE F == Owed(statuses)
               K == Load
    <2>1. (\A o \in Orders : F[o] = 0) /\ \A w \in Workers : K[w] = 0
      BY <1>1 DEF LedgerInit, Init, Owed, Load, InHand
    <2>2. Due(statuses) = SumOver(F, Orders) + SumOver(K, Workers)
      BY TallyIs DEF Due
    <2> HIDE DEF F, K
    <2>3. SumOver(F, Orders) = 0 /\ SumOver(K, Workers) = 0
      BY <2>1, SumOfZeros
    <2> QED
      BY <2>2, <2>3
  <1>2. StockAccounted
    BY <1>1 DEF StockAccounted, LedgerInit, Init
  <1>3. OrdersKnown
    BY DEF LedgerInit, Init, OrdersKnown, RowsOrdered, OneTurn, KnowsOrder, Idle, Payments
  <1> QED
    BY <1>2, <1>3 DEF LedgerInv

\* In every interleaving of any number of handlers, restarts included, the stock counter
\* covers every PENDING order, covers the PAID ones but for a failure claimed between
\* markPaid's read and its write, and counts nothing else but what a write over a changed
\* status or a restart left in it (StockAccounted).
THEOREM StockAgrees ==
  ASSUME IsFiniteSet(Orders), IsFiniteSet(Workers)
  PROVE  LedgerSpec => []StockAccounted
  <1>1. LedgerSpec => Spec
    <2>1. LedgerInit => Init
      BY DEF LedgerInit
    <2>2. [LedgerNext]_ledger => [Next]_vars
      BY DEF LedgerNext, ledger
    <2> QED
      BY <2>1, <2>2, PTL DEF LedgerSpec, Spec
  <1>2. LedgerInv => StockAccounted
    BY DEF LedgerInv
  <1> QED
    BY <1>1, <1>2, StockInit, StockNext, Inductive, PTL DEF LedgerSpec
=============================================================================
