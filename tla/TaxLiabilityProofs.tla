------------------------- MODULE TaxLiabilityProofs -------------------------
(***************************************************************************)
(* Proofs about TaxLiability for any number of requests, users and PRNs:   *)
(* types, at most one call of a payment adapter, and two persons to a      *)
(* payment.                                                                *)
(***************************************************************************)
EXTENDS TaxLiability, TLAPS

\* What a request knows where it stands.
Sane(label, c) ==
  /\ label \in Labels
  /\ c \in Context
  /\ label \in {"transition", "update"} => c.todo # <<>>
  /\ label \notin {"transition", "update"} => c.then = "idle"
  /\ label \in {"attach", "verify"} => c.prn \in Prns

HandlersSane == /\ pc \in [Handlers -> Labels]
                /\ ctx \in [Handlers -> Context]
                /\ \A h \in Handlers : Sane(pc[h], ctx[h])

TInv == TypeOK /\ HandlersSane

\* The request that created the remittance and has not asked the adapter yet.
Paying(h) == \/ pc[h] = "remit"
             \/ pc[h] \in {"transition", "update"} /\ ctx[h].then = "remit"

PayInv ==
  /\ RemitOnce
  /\ remits > 0 => remittance.status # "NONE"
  /\ \A h \in Handlers : Paying(h) => remits = 0 /\ remittance.status # "NONE"
  /\ \A g, h \in Handlers : Paying(g) /\ Paying(h) => g = h

\* Whoever is about to record or confirm works on an existing remittance, and whoever is
\* about to confirm did not initiate it and has a recording to confirm; that the
\* initiator never changes follows.
Recorded == remittance.recordedBy \in Users

ConfirmInv ==
  /\ TwoPersonPayment
  /\ MakerChecker /\ remittance.status = "SUBMITTED" => Recorded
  /\ \A h \in Handlers :
       /\ pc[h] \in {"record", "confirm"} => remittance.status # "NONE" /\ ctx[h].user \in Users
       /\ pc[h] = "confirm" => ctx[h].user # remittance.initiatedBy /\ (MakerChecker => Recorded)

IInv == TInv /\ PayInv /\ ConfirmInv

-----------------------------------------------------------------------------
(* Types. *)

LEMMA IdleSane == Idle \in Context /\ Idle.then = "idle" /\ Unread \in Liability
BY DEF Idle, Context, Unread, Liability, LiabilityStatus, MaybeUser

LEMMA TodoTypes ==
  /\ \A s \in LiabilityStatus : <<s>> \in Seq(LiabilityStatus) /\ <<s>> # <<>>
  /\ \A s, t \in LiabilityStatus : <<s, t>> \in Seq(LiabilityStatus) /\ <<s, t>> # <<>>
  /\ <<>> \in Seq(LiabilityStatus)
OBVIOUS

LEMMA TailTodo ==
  ASSUME NEW todo \in Seq(LiabilityStatus), todo # <<>>, Len(todo) # 1
  PROVE Tail(todo) \in Seq(LiabilityStatus) /\ Tail(todo) # <<>>
<1>1. Len(todo) \in Nat /\ Len(todo) # 0
  OBVIOUS
<1>2. Len(todo) - 1 # 0
  BY <1>1
<1>3. Tail(todo) \in Seq(LiabilityStatus) /\ Len(Tail(todo)) = Len(todo) - 1
  OBVIOUS
<1> QED
  BY <1>2, <1>3

LEMMA EnterSane ==
  ASSUME HandlersSane, NEW h \in Handlers, NEW label, NEW c, Enter(h, label, c), Sane(label, c)
  PROVE HandlersSane'
<1>1. /\ pc' = [pc EXCEPT ![h] = label]
      /\ ctx' = [ctx EXCEPT ![h] = c]
  BY DEF Enter
<1>2. pc' \in [Handlers -> Labels] /\ ctx' \in [Handlers -> Context]
  BY <1>1 DEF HandlersSane, Sane
<1>3. ASSUME NEW g \in Handlers PROVE Sane(pc'[g], ctx'[g])
  BY <1>1 DEF HandlersSane
<1> QED
  BY <1>2, <1>3 DEF HandlersSane

LEMMA FinishSane == ASSUME HandlersSane, NEW h \in Handlers, Finish(h) PROVE HandlersSane'
BY EnterSane, IdleSane DEF Finish, Sane, Labels

\* Beginning a request: a context that differs from Idle in its user, its PRN, what it
\* has seen and what it has to do.
LEMMA BeginSane ==
  ASSUME HandlersSane, NEW h \in Handlers, NEW label \in Labels, NEW c, Begin(h, label, c),
         c \in Context, c.then = "idle",
         label \in {"transition", "update"} => c.todo # <<>>,
         label \in {"attach", "verify"} => c.prn \in Prns
  PROVE HandlersSane'
BY EnterSane DEF Begin, Sane

LEMMA ContinueSane ==
  ASSUME HandlersSane, NEW h \in Handlers, NEW todo \in Seq(LiabilityStatus), Continue(h, todo)
  PROVE HandlersSane'
<1>1. CASE todo = <<>>
  BY <1>1, FinishSane DEF Continue
<1>2. CASE todo # <<>>
  <2> DEFINE c == [ctx[h] EXCEPT !.todo = todo]
  <2>1. c \in Context /\ c.todo = todo
    BY DEF HandlersSane, Context
  <2>2. Sane("transition", c)
    BY <1>2, <2>1 DEF Sane, Labels
  <2> QED
    BY <1>2, <2>2, EnterSane DEF Continue
<1> QED
  BY <1>1, <1>2

LEMMA InitTInv == Init => TInv
BY IdleSane DEF Init, TInv, TypeOK, HandlersSane, Sane, Labels, Unread, Liability, Remittance,
  LiabilityStatus, RemittanceStatus, MaybeUser

LEMMA StepTInv == TInv /\ [Next]_vars => TInv'
<1> SUFFICES ASSUME TInv, [Next]_vars PROVE TInv'
  OBVIOUS
<1> USE DEF TInv
<1>0. ASSUME HandlersSane', UNCHANGED Rows, history' \subseteq {"lost update", "flagged stale", "interrupted"}
      PROVE TInv'
  BY <1>0 DEF TypeOK, Rows, HandlersSane
<1>1. CASE UNCHANGED vars
  BY <1>1 DEF vars, TypeOK, HandlersSane
<1>2. CASE Create
  BY <1>2 DEF Create, TypeOK, HandlersSane, Liability, LiabilityStatus
<1>3. ASSUME NEW h \in Handlers, TransitionRead(h) PROVE TInv'
  <2> DEFINE seen == IF ctx[h].seen = Unread THEN liability ELSE ctx[h].seen
             c == [ctx[h] EXCEPT !.seen = seen]
  <2>1. Sane(pc[h], ctx[h]) /\ pc[h] = "transition" /\ UNCHANGED <<Rows, history>>
    BY <1>3 DEF TransitionRead, HandlersSane
  <2>2. Sane("update", c)
    BY <2>1 DEF Sane, Context, Labels, TypeOK
  <2>3. HandlersSane'
    BY <1>3, <2>2, EnterSane, FinishSane DEF TransitionRead
  <2> QED
    BY <1>0, <2>1, <2>3 DEF TypeOK
<1>4. ASSUME NEW h \in Handlers, TransitionWrite(h) PROVE TInv'
  <2> DEFINE c == ctx[h]
  <2>1. /\ Sane("update", c)
        /\ liability' = Updated(Head(c.todo), c.user)
        /\ UNCHANGED <<prn, remittance, remits>>
    BY <1>4 DEF TransitionWrite, HandlersSane
  <2>2. /\ c.todo \in Seq(LiabilityStatus)
        /\ c.todo # <<>>
        /\ c.user \in MaybeUser
        /\ c \in Context
        /\ c.then \in {"idle", "remit"}
    BY <2>1 DEF Sane, Context
  <2>3. liability' \in Liability
    <3>1. Head(c.todo) \in LiabilityStatus
      BY <2>2
    <3> QED
      BY <2>1, <2>2, <3>1 DEF Updated, Liability, TypeOK
  <2>4. history' \subseteq {"lost update", "flagged stale", "interrupted"}
    BY <1>4 DEF TransitionWrite, Note, TypeOK
  <2>5. CASE Len(c.todo) = 1 /\ c.then = "idle"
    BY <1>4, <2>1, <2>3, <2>4, <2>5, FinishSane DEF TransitionWrite, TypeOK, HandlersSane
  <2>6. CASE Len(c.todo) = 1 /\ c.then # "idle"
    <3> DEFINE d == [c EXCEPT !.todo = <<>>, !.then = "idle"]
    <3>1. Enter(h, "remit", d)
      BY <1>4, <2>2, <2>6 DEF TransitionWrite
    <3>2. d \in Context /\ d.then = "idle"
      BY <2>2, TodoTypes DEF Context
    <3>3. Sane("remit", d)
      BY <3>2 DEF Sane, Labels
    <3>4. HandlersSane'
      BY <3>1, <3>3, EnterSane
    <3> QED
      BY <2>1, <2>3, <2>4, <3>4 DEF TypeOK, HandlersSane
  <2>7. CASE Len(c.todo) # 1
    <3> DEFINE d == [c EXCEPT !.todo = Tail(@), !.seen = liability']
    <3>1. Enter(h, "transition", d)
      BY <1>4, <2>7 DEF TransitionWrite
    <3>2. Tail(c.todo) \in Seq(LiabilityStatus) /\ Tail(c.todo) # <<>>
      BY <2>2, <2>7, TailTodo
    <3>3. d \in Context /\ d.todo = Tail(c.todo)
      BY <2>2, <2>3, <3>2 DEF Context
    <3>4. Sane("transition", d)
      BY <3>2, <3>3 DEF Sane, Labels
    <3>5. HandlersSane'
      BY <3>1, <3>4, EnterSane
    <3> QED
      BY <2>1, <2>3, <2>4, <3>5 DEF TypeOK, HandlersSane
  <2> QED
    BY <2>5, <2>6, <2>7
<1>5. ASSUME NEW h \in Handlers, NEW u \in Users, Reconcile(h, u) \/ Reject(h, u) \/ Approve(h, u)
      PROVE TInv'
  <2>1. ASSUME NEW todo \in Seq(LiabilityStatus), todo # <<>>, NEW c \in Context,
               c.todo = todo, c.then = "idle", Begin(h, "transition", c)
        PROVE HandlersSane'
    BY <2>1, BeginSane DEF Labels
  <2>2. UNCHANGED <<Rows, history>> /\ u \in MaybeUser /\ liability \in Liability
    BY <1>5 DEF Reconcile, Reject, Approve, MaybeUser, TypeOK
  <2>3. /\ "RECONCILED" \in LiabilityStatus /\ "REJECTED" \in LiabilityStatus
        /\ "APPROVED" \in LiabilityStatus /\ "PRN_REQUIRED" \in LiabilityStatus
    BY DEF LiabilityStatus
  <2>4. HandlersSane'
    <3>1. CASE Reconcile(h, u)
      <4> DEFINE todo == <<"RECONCILED">>
                 c == [Idle EXCEPT !.user = u, !.todo = todo]
      <4>1. todo \in Seq(LiabilityStatus) /\ todo # <<>> /\ Begin(h, "transition", c)
        BY <2>3, <3>1, TodoTypes DEF Reconcile
      <4> HIDE DEF todo
      <4>2. c \in Context /\ c.then = "idle" /\ c.todo = todo
        BY <2>2, <4>1, IdleSane DEF Idle, Context
      <4> QED
        BY <2>1, <4>1, <4>2
    <3>2. CASE Reject(h, u)
      <4> DEFINE todo == <<"REJECTED">>
                 c == [Idle EXCEPT !.user = u, !.todo = todo]
      <4>1. todo \in Seq(LiabilityStatus) /\ todo # <<>> /\ Begin(h, "transition", c)
        BY <2>3, <3>2, TodoTypes DEF Reject
      <4> HIDE DEF todo
      <4>2. c \in Context /\ c.then = "idle" /\ c.todo = todo
        BY <2>2, <4>1, IdleSane DEF Idle, Context
      <4> QED
        BY <2>1, <4>1, <4>2
    <3>3. CASE Approve(h, u)
      <4> DEFINE todo == <<"APPROVED", "PRN_REQUIRED">>
                 c == [Idle EXCEPT !.user = u, !.seen = liability, !.todo = todo]
      <4>1. todo \in Seq(LiabilityStatus) /\ todo # <<>> /\ Begin(h, "transition", c)
        BY <2>3, <3>3, TodoTypes DEF Approve
      <4> HIDE DEF todo
      <4>2. c \in Context /\ c.then = "idle" /\ c.todo = todo
        BY <2>2, <4>1, IdleSane DEF Idle, Context
      <4> QED
        BY <2>1, <4>1, <4>2
    <3> QED
      BY <1>5, <3>1, <3>2, <3>3
  <2> QED
    BY <1>0, <2>2, <2>4 DEF TypeOK
<1>6. ASSUME NEW h \in Handlers, FlagStale(h) PROVE TInv'
  <2> DEFINE todo == <<"REQUIRES_REVIEW">>
             c == [Idle EXCEPT !.todo = todo]
  <2>1. todo \in Seq(LiabilityStatus) /\ todo # <<>>
    BY TodoTypes DEF LiabilityStatus
  <2>2. c \in Context /\ c.todo # <<>> /\ c.then = "idle"
    <3> HIDE DEF todo
    <3> QED
      BY <2>1, IdleSane DEF Idle, Context
  <2>3. HandlersSane'
    BY <1>6, <2>2, BeginSane DEF FlagStale, Labels
  <2> QED
    BY <1>0, <1>6, <2>3 DEF FlagStale, Note, TypeOK
<1>7. ASSUME NEW h \in Handlers, NEW u \in Users, NEW p \in Prns,
             AttachStart(h, u, p) \/ VerifyStart(h, u, p)
      PROVE TInv'
  <2>1. ASSUME NEW c \in Context, c.then = "idle", c.prn = p,
               Begin(h, "attach", c) \/ Begin(h, "verify", c)
        PROVE HandlersSane'
    BY <2>1, BeginSane DEF Labels
  <2>2. u \in MaybeUser /\ liability \in Liability
    BY DEF MaybeUser, TypeOK
  <2> DEFINE c == [Idle EXCEPT !.user = u, !.prn = p]
             d == [Idle EXCEPT !.user = u, !.prn = p, !.seen = liability]
  <2>3. c \in Context /\ c.then = "idle" /\ c.prn = p /\ d \in Context /\ d.then = "idle" /\ d.prn = p
    BY <2>2, IdleSane DEF Idle, Context, MaybeUser
  <2>4. Begin(h, "attach", d) \/ Begin(h, "verify", c)
    BY <1>7 DEF AttachStart, VerifyStart
  <2>5. HandlersSane'
    BY <2>1, <2>3, <2>4
  <2> QED
    BY <1>0, <1>7, <2>5 DEF AttachStart, VerifyStart, TypeOK
<1>8. ASSUME NEW h \in Handlers, Attach(h) PROVE TInv'
  <2>1. HandlersSane'
    BY <1>8, ContinueSane, FinishSane, TodoTypes DEF Attach, LiabilityStatus
  <2> QED
    BY <1>8, <2>1 DEF Attach, TypeOK, HandlersSane
<1>9. ASSUME NEW h \in Handlers, Verify(h) PROVE TInv'
  <2>1. HandlersSane'
    BY <1>9, ContinueSane, TodoTypes DEF Verify, LiabilityStatus
  <2> QED
    BY <1>9, <2>1 DEF Verify, TypeOK, HandlersSane
<1>10. ASSUME NEW h \in Handlers, NEW u \in Users,
              InitiateStart(h, u) \/ RecordStart(h, u) \/ ConfirmStart(h, u)
       PROVE TInv'
  <2>1. ASSUME NEW c \in Context, c.then = "idle",
               Begin(h, "find", c) \/ Begin(h, "record", c) \/ Begin(h, "confirm", c)
        PROVE HandlersSane'
    BY <2>1, BeginSane DEF Labels
  <2>2. u \in MaybeUser /\ liability \in Liability
    BY DEF MaybeUser, TypeOK
  <2> DEFINE c == [Idle EXCEPT !.user = u]
             d == [Idle EXCEPT !.user = u, !.seen = liability]
  <2>3. c \in Context /\ c.then = "idle" /\ d \in Context /\ d.then = "idle"
    BY <2>2, IdleSane DEF Idle, Context, MaybeUser
  <2>4. Begin(h, "find", d) \/ Begin(h, "record", c) \/ Begin(h, "confirm", c)
    BY <1>10 DEF InitiateStart, RecordStart, ConfirmStart
  <2>5. HandlersSane'
    BY <2>1, <2>3, <2>4
  <2> QED
    BY <1>0, <1>10, <2>5 DEF InitiateStart, RecordStart, ConfirmStart, TypeOK
<1>11. ASSUME NEW h \in Handlers, FindRemittance(h) PROVE TInv'
  <2>1. Sane("insert", ctx[h])
    BY <1>11 DEF FindRemittance, HandlersSane, Sane, Labels
  <2>2. HandlersSane'
    BY <1>11, <2>1, EnterSane, FinishSane DEF FindRemittance
  <2> QED
    BY <1>0, <1>11, <2>2 DEF FindRemittance, TypeOK
<1>12. ASSUME NEW h \in Handlers, Insert(h) PROVE TInv'
  <2> DEFINE c == [ctx[h] EXCEPT !.todo = <<"PAYMENT_PROCESSING">>, !.then = "remit"]
  <2>1. c \in Context /\ c.todo # <<>> /\ ctx[h].user \in MaybeUser
    <3>1. <<"PAYMENT_PROCESSING">> \in Seq(LiabilityStatus) /\ <<"PAYMENT_PROCESSING">> # <<>>
      BY TodoTypes DEF LiabilityStatus
    <3> QED
      BY <3>1 DEF HandlersSane, Context
  <2>2. Sane("transition", c)
    BY <2>1 DEF Sane, Labels
  <2>3. HandlersSane'
    BY <1>12, <2>2, EnterSane, FinishSane DEF Insert
  <2> QED
    BY <1>12, <2>1, <2>3 DEF Insert, Pending, TypeOK, HandlersSane, Remittance, RemittanceStatus
<1>13. ASSUME NEW h \in Handlers, Remit(h) PROVE TInv'
  <2> DEFINE todo == <<"REQUIRES_REVIEW">>
             c == [Idle EXCEPT !.user = ctx[h].user, !.todo = todo]
  <2>1. todo \in Seq(LiabilityStatus) /\ todo # <<>>
    BY TodoTypes DEF LiabilityStatus
  <2>2. ctx[h].user \in MaybeUser
    BY DEF HandlersSane, Context
  <2>3. c \in Context /\ c.todo # <<>>
    <3> HIDE DEF todo
    <3> QED
      BY <2>1, <2>2, IdleSane DEF Idle, Context
  <2>4. Sane("transition", c)
    BY <2>3 DEF Sane, Labels
  <2>5. HandlersSane'
    BY <1>13, <2>4, EnterSane, FinishSane DEF Remit
  <2>6. remittance' \in Remittance /\ remits' \in Nat
    <3>1. PICK st \in RemittanceStatus : remittance' = [remittance EXCEPT !.status = st]
      BY <1>13 DEF Remit, RemittanceStatus
    <3>2. remittance' \in Remittance
      BY <3>1 DEF TypeOK, Remittance
    <3>3. remits' = remits + 1 /\ remits \in Nat
      BY <1>13 DEF Remit, TypeOK
    <3> QED
      BY <3>2, <3>3
  <2> QED
    BY <1>13, <2>5, <2>6 DEF Remit, TypeOK, HandlersSane
<1>14. ASSUME NEW h \in Handlers, Record(h) \/ Confirm(h) PROVE TInv'
  <2>1. FinalizePaid \in Seq(LiabilityStatus) /\ <<>> \in Seq(LiabilityStatus)
    BY TodoTypes DEF FinalizePaid, LiabilityStatus
  <2>2. HandlersSane'
    BY <1>14, <2>1, ContinueSane DEF Record, Confirm
  <2>3. ctx[h].user \in MaybeUser
    BY DEF HandlersSane, Context
  <2> QED
    BY <1>14, <2>2, <2>3
    DEF Record, Confirm, Note, TypeOK, HandlersSane, Remittance, RemittanceStatus
<1>15. ASSUME NEW h \in Handlers, Interrupt(h) PROVE TInv'
  BY <1>0, <1>15, FinishSane DEF Interrupt, Note, TypeOK
<1> QED
  BY <1>1, <1>2, <1>3, <1>4, <1>5, <1>6, <1>7, <1>8, <1>9, <1>10, <1>11, <1>12, <1>13, <1>14, <1>15
  DEF Next, Review, Register, Pay

\* Every variable keeps its type.
THEOREM TypeCorrect == Spec => []TypeOK
<1>1. Spec => []TInv
  BY InitTInv, StepTInv, PTL DEF Spec
<1> QED
  BY <1>1, PTL DEF TInv

-----------------------------------------------------------------------------
(* One call of an adapter, and two persons to a payment.                    *)

LEMMA InitRest == Init => PayInv /\ ConfirmInv
BY DEF Init, PayInv, RemitOnce, Paying, ConfirmInv, TwoPersonPayment

\* A request that moves on disturbs no other.
LEMMA EnterOthers ==
  ASSUME TInv, NEW h \in Handlers, NEW label, NEW c, Enter(h, label, c)
  PROVE /\ pc'[h] = label /\ ctx'[h] = c
        /\ \A g \in Handlers \ {h} : pc'[g] = pc[g] /\ ctx'[g] = ctx[g]
BY DEF Enter, TInv, HandlersSane

\* What a step of h needs to leave both parts alone.
Quiet(h) ==
  /\ UNCHANGED remits
  /\ remittance.status # "NONE" =>
       remittance'.status # "NONE" /\ remittance'.initiatedBy = remittance.initiatedBy
  /\ Recorded => Recorded'
  /\ \A g \in Handlers \ {h} : pc'[g] = pc[g] /\ ctx'[g] = ctx[g]
  /\ Paying(h)' => Paying(h)

LEMMA QuietPay == ASSUME TInv, PayInv, NEW h \in Handlers, Quiet(h) PROVE PayInv'
<1>1. \A g \in Handlers : Paying(g)' => Paying(g)
  BY DEF Quiet, Paying
<1> QED
  BY <1>1 DEF Quiet, PayInv, RemitOnce

LEMMA QuietConfirm ==
  ASSUME ConfirmInv, NEW h \in Handlers, Quiet(h), TwoPersonPayment',
         MakerChecker /\ remittance'.status = "SUBMITTED" => Recorded',
         pc'[h] \in {"record", "confirm"} => remittance.status # "NONE" /\ ctx'[h].user \in Users,
         pc'[h] = "confirm" =>
           ctx'[h].user # remittance.initiatedBy /\ (MakerChecker => Recorded)
  PROVE ConfirmInv'
BY DEF Quiet, ConfirmInv

\* Steps that leave the remittance alone and enter neither the recording nor the
\* confirming of a payment, nor the paying of it.
Aside(h) ==
  /\ UNCHANGED <<remittance, remits>>
  /\ \A g \in Handlers \ {h} : pc'[g] = pc[g] /\ ctx'[g] = ctx[g]
  /\ pc'[h] \notin {"record", "confirm"}
  /\ Paying(h)' => Paying(h)

LEMMA Elsewhere == ASSUME IInv, NEW h \in Handlers, Aside(h) PROVE PayInv' /\ ConfirmInv'
<1>1. Quiet(h)
  BY DEF Aside, Quiet, Recorded
<1>2. TwoPersonPayment' /\ (MakerChecker /\ remittance'.status = "SUBMITTED" => Recorded')
  BY DEF Aside, IInv, ConfirmInv, TwoPersonPayment, Recorded
<1> QED
  BY <1>1, <1>2, QuietPay, QuietConfirm DEF IInv, Aside

LEMMA EnterAside ==
  ASSUME IInv, NEW h \in Handlers, NEW label, NEW c, Enter(h, label, c),
         UNCHANGED <<remittance, remits>>, label \notin {"record", "confirm"},
         \/ label = "idle"
         \/ label # "remit" /\ c.then = "idle"
         \/ Paying(h)
  PROVE Aside(h)
BY EnterOthers DEF IInv, Aside, Paying

LEMMA StepRest == IInv /\ [Next]_vars => PayInv' /\ ConfirmInv'
<1> SUFFICES ASSUME IInv, [Next]_vars PROVE PayInv' /\ ConfirmInv'
  OBVIOUS
<1>1. CASE UNCHANGED vars
  BY <1>1 DEF vars, IInv, PayInv, RemitOnce, Paying, ConfirmInv, TwoPersonPayment, Recorded
<1>2. CASE Create
  BY <1>2 DEF Create, IInv, PayInv, RemitOnce, Paying, ConfirmInv, TwoPersonPayment, Recorded
<1>3. ASSUME NEW h \in Handlers, TransitionRead(h) PROVE PayInv' /\ ConfirmInv'
  <2> DEFINE c == [ctx[h] EXCEPT !.seen = IF ctx[h].seen = Unread THEN liability ELSE ctx[h].seen]
  <2>1. pc[h] = "transition" /\ UNCHANGED <<remittance, remits>>
    BY <1>3 DEF TransitionRead, Rows
  <2>2. CASE Enter(h, "update", c)
    <3>1. c.then = ctx[h].then /\ ctx[h].then \in {"idle", "remit"}
      BY DEF IInv, TInv, HandlersSane, Context
    <3>2. Paying(h) \/ c.then = "idle"
      BY <2>1, <3>1 DEF Paying
    <3> HIDE DEF c
    <3> QED
      BY <2>1, <2>2, <3>2, EnterAside, Elsewhere
  <2>3. CASE Enter(h, "idle", Idle)
    BY <2>1, <2>3, EnterAside, Elsewhere
  <2> QED
    BY <1>3, <2>2, <2>3 DEF TransitionRead, Finish
<1>4. ASSUME NEW h \in Handlers, TransitionWrite(h) PROVE PayInv' /\ ConfirmInv'
  <2> DEFINE c == ctx[h]
  <2>1. pc[h] = "update" /\ UNCHANGED <<remittance, remits>>
    BY <1>4 DEF TransitionWrite
  <2>2. c \in Context
    BY DEF IInv, TInv, HandlersSane
  <2>3. c.then \in {"idle", "remit"}
    BY <2>2 DEF Context
  <2>4. Paying(h) \/ c.then = "idle"
    BY <2>1, <2>3 DEF Paying
  <2>5. CASE Len(c.todo) = 1 /\ c.then = "idle"
    BY <1>4, <2>1, <2>5, EnterAside, Elsewhere DEF TransitionWrite, Finish
  <2>6. CASE Len(c.todo) = 1 /\ c.then # "idle"
    <3>1. Enter(h, "remit", [c EXCEPT !.todo = <<>>, !.then = "idle"])
      BY <1>4, <2>3, <2>6 DEF TransitionWrite
    <3> QED
      BY <2>1, <2>4, <2>6, <3>1, EnterAside, Elsewhere
  <2>7. CASE Len(c.todo) # 1
    <3> DEFINE d == [c EXCEPT !.todo = Tail(@), !.seen = liability']
    <3>1. Enter(h, "transition", d)
      BY <1>4, <2>7 DEF TransitionWrite
    <3>2. d.then = c.then
      BY <2>2 DEF Context
    <3>3. Paying(h) \/ d.then = "idle"
      BY <2>4, <3>2
    <3> HIDE DEF d
    <3> QED
      BY <2>1, <3>1, <3>3, EnterAside, Elsewhere
  <2> QED
    BY <2>5, <2>6, <2>7
<1>5. ASSUME NEW h \in Handlers, NEW u \in Users, Reconcile(h, u) \/ Reject(h, u) \/ Approve(h, u)
      PROVE PayInv' /\ ConfirmInv'
  <2>1. Aside(h)
    BY <1>5 DEF Reconcile, Reject, Approve, Begin, Enter, Rows, Aside, Paying, Idle, IInv, TInv, HandlersSane
  <2> QED
    BY <2>1, Elsewhere
<1>6. ASSUME NEW h \in Handlers, FlagStale(h) PROVE PayInv' /\ ConfirmInv'
  <2>1. Aside(h)
    BY <1>6 DEF FlagStale, Begin, Enter, Rows, Aside, Paying, Idle, IInv, TInv, HandlersSane
  <2> QED
    BY <2>1, Elsewhere
<1>7. ASSUME NEW h \in Handlers, NEW u \in Users, NEW p \in Prns,
             AttachStart(h, u, p) \/ VerifyStart(h, u, p)
      PROVE PayInv' /\ ConfirmInv'
  <2>1. Aside(h)
    BY <1>7 DEF AttachStart, VerifyStart, Begin, Enter, Rows, Aside, Paying, IInv, TInv, HandlersSane
  <2> QED
    BY <2>1, Elsewhere
<1>8. ASSUME NEW h \in Handlers, Attach(h) \/ Verify(h) PROVE PayInv' /\ ConfirmInv'
  <2>1. ctx[h].then = "idle" /\ ctx[h] \in Context /\ UNCHANGED <<remittance, remits>>
    BY <1>8 DEF Attach, Verify, IInv, TInv, HandlersSane, Sane
  <2>2. CASE Enter(h, "idle", Idle)
    BY <2>1, <2>2, EnterAside, Elsewhere
  <2>3. ASSUME NEW todo, Enter(h, "transition", [ctx[h] EXCEPT !.todo = todo])
        PROVE PayInv' /\ ConfirmInv'
    <3> DEFINE c == [ctx[h] EXCEPT !.todo = todo]
    <3>1. c.then = "idle"
      BY <2>1 DEF Context
    <3> HIDE DEF c
    <3>2. Enter(h, "transition", c)
      BY <2>3 DEF c
    <3> QED
      BY <2>1, <3>1, <3>2, EnterAside, Elsewhere
  <2> QED
    BY <1>8, <2>2, <2>3 DEF Attach, Verify, Continue, Finish
<1>9. ASSUME NEW h \in Handlers, NEW u \in Users, InitiateStart(h, u) PROVE PayInv' /\ ConfirmInv'
  <2>1. Aside(h)
    BY <1>9 DEF InitiateStart, Begin, Enter, Rows, Aside, Paying, IInv, TInv, HandlersSane
  <2> QED
    BY <2>1, Elsewhere
<1>10. ASSUME NEW h \in Handlers, NEW u \in Users, RecordStart(h, u) \/ ConfirmStart(h, u)
       PROVE PayInv' /\ ConfirmInv'
  <2> DEFINE c == [Idle EXCEPT !.user = u]
  <2>1. /\ \/ Enter(h, "record", c)
           \/ /\ Enter(h, "confirm", c)
              /\ remittance.initiatedBy # u /\ remittance.status = "SUBMITTED"
        /\ remittance.status # "NONE"
        /\ UNCHANGED <<remittance, remits>>
    BY <1>10 DEF RecordStart, ConfirmStart, Confirmable, Begin, Rows
  <2>2. c.user = u
    BY DEF Idle
  <2>3. /\ \/ pc'[h] = "record"
           \/ pc'[h] = "confirm" /\ remittance.initiatedBy # u /\ (MakerChecker => Recorded)
        /\ ctx'[h] = c
        /\ \A g \in Handlers \ {h} : pc'[g] = pc[g] /\ ctx'[g] = ctx[g]
    BY <2>1, EnterOthers DEF IInv, ConfirmInv
  <2>4. Quiet(h)
    BY <2>1, <2>3 DEF Quiet, Paying, Recorded
  <2>5. TwoPersonPayment' /\ (MakerChecker /\ remittance'.status = "SUBMITTED" => Recorded')
    BY <2>1 DEF IInv, ConfirmInv, TwoPersonPayment, Recorded
  <2> QED
    BY <2>1, <2>2, <2>3, <2>4, <2>5, QuietPay, QuietConfirm DEF IInv
<1>11. ASSUME NEW h \in Handlers, FindRemittance(h) PROVE PayInv' /\ ConfirmInv'
  <2>1. Aside(h)
    BY <1>11 DEF FindRemittance, Finish, Enter, Rows, Aside, Paying, IInv, TInv, HandlersSane
  <2> QED
    BY <2>1, Elsewhere
<1>12. ASSUME NEW h \in Handlers, Insert(h) PROVE PayInv' /\ ConfirmInv'
  <2> DEFINE c == [ctx[h] EXCEPT !.todo = <<"PAYMENT_PROCESSING">>, !.then = "remit"]
  <2>1. CASE remittance.status # "NONE"
    BY <1>12, <2>1, EnterAside, Elsewhere DEF Insert, Finish
  <2>2. CASE remittance.status = "NONE"
    <3>1. Enter(h, "transition", c) /\ UNCHANGED remits /\ remittance' = Pending(ctx[h].user)
      BY <1>12, <2>2 DEF Insert
    <3>2. remittance'.status = "PENDING"
      BY <3>1 DEF Pending, IInv, TInv, TypeOK, Remittance
    <3>3. /\ pc'[h] = "transition"
          /\ \A g \in Handlers \ {h} : pc'[g] = pc[g] /\ ctx'[g] = ctx[g]
      BY <3>1, EnterOthers DEF IInv
    <3>4. remits = 0 /\ \A g \in Handlers : ~Paying(g)
      <4>1. remits \in Nat /\ ~(remits > 0)
        BY <2>2 DEF IInv, TInv, TypeOK, PayInv
      <4>2. \A g \in Handlers : ~Paying(g)
        BY <2>2 DEF IInv, PayInv
      <4> QED
        BY <4>1, <4>2
    <3>5. \A g \in Handlers \ {h} : ~Paying(g)'
      BY <3>3, <3>4 DEF Paying
    <3>6. PayInv'
      BY <3>1, <3>2, <3>4, <3>5 DEF PayInv, RemitOnce
    <3>7. ConfirmInv'
      BY <2>2, <3>2, <3>3 DEF IInv, ConfirmInv, TwoPersonPayment
    <3> QED
      BY <3>6, <3>7
  <2> QED
    BY <2>1, <2>2
<1>13. ASSUME NEW h \in Handlers, Remit(h) PROVE PayInv' /\ ConfirmInv'
  <2>1. Paying(h) /\ remits' = remits + 1
    BY <1>13 DEF Remit, Paying
  <2>2. remits = 0 /\ remittance.status # "NONE" /\ \A g \in Handlers \ {h} : ~Paying(g)
    BY <2>1 DEF IInv, PayInv
  <2>3. PICK st \in {"AWAITING_EXTERNAL_CONFIRMATION", "SANDBOX_SIMULATED", "REQUIRES_REVIEW"} :
          remittance' = [remittance EXCEPT !.status = st]
    BY <1>13 DEF Remit
  <2>4. /\ remittance'.status = st
        /\ remittance'.initiatedBy = remittance.initiatedBy
        /\ remittance'.recordedBy = remittance.recordedBy
    BY <2>3 DEF IInv, TInv, TypeOK, Remittance
  <2>6. /\ pc'[h] = "idle" \/ (pc'[h] = "transition" /\ ctx'[h].then = "idle")
        /\ \A g \in Handlers \ {h} : pc'[g] = pc[g] /\ ctx'[g] = ctx[g]
    BY <1>13 DEF Remit, Finish, Enter, Idle, IInv, TInv, HandlersSane
  <2>7. \A g \in Handlers : ~Paying(g)'
    BY <2>2, <2>6 DEF Paying
  <2>8. PayInv'
    BY <2>1, <2>2, <2>4, <2>7 DEF PayInv, RemitOnce
  <2>9. ConfirmInv'
    <3>1. remittance'.status \notin {"PAID", "SUBMITTED"}
      BY <2>4
    <3>2. \A g \in Handlers : pc'[g] \in {"record", "confirm"} =>
            g # h /\ pc'[g] = pc[g] /\ ctx'[g] = ctx[g]
      BY <2>6
    <3> QED
      BY <2>4, <3>1, <3>2 DEF IInv, ConfirmInv, TwoPersonPayment, Recorded
  <2> QED
    BY <2>8, <2>9
<1>14. ASSUME NEW h \in Handlers, Record(h) \/ Confirm(h) PROVE PayInv' /\ ConfirmInv'
  <2>1. ctx[h].then = "idle" /\ ctx[h] \in Context /\ remittance.status # "NONE"
    BY <1>14 DEF Record, Confirm, IInv, TInv, HandlersSane, Sane, ConfirmInv
  <2>2. PICK todo : \/ Enter(h, "idle", Idle)
                    \/ Enter(h, "transition", [ctx[h] EXCEPT !.todo = todo])
    BY <1>14 DEF Record, Confirm, Continue, Finish
  <2>4. /\ pc'[h] = "idle" \/ (pc'[h] = "transition" /\ ctx'[h].then = "idle")
        /\ \A g \in Handlers \ {h} : pc'[g] = pc[g] /\ ctx'[g] = ctx[g]
    BY <2>1, <2>2 DEF Enter, IInv, TInv, HandlersSane, Context
  <2>5. /\ remittance'.status \in {"SUBMITTED", "PAID"}
        /\ remittance'.initiatedBy = remittance.initiatedBy
        /\ UNCHANGED remits
    BY <1>14 DEF Record, Confirm, IInv, TInv, TypeOK, Remittance
  <2>6. ctx[h].user \in Users
    BY <1>14 DEF Record, Confirm, IInv, ConfirmInv
  <2>7. /\ TwoPersonPayment'
        /\ MakerChecker /\ remittance'.status = "SUBMITTED" => Recorded'
        /\ Recorded => Recorded'
    <3>1. CASE Record(h)
      <4>1. remittance'.recordedBy = ctx[h].user /\ (MakerChecker => remittance'.status = "SUBMITTED")
        BY <3>1 DEF Record, IInv, TInv, TypeOK, Remittance
      <4> QED
        BY <2>6, <4>1 DEF TwoPersonPayment, Recorded
    <3>2. CASE Confirm(h)
      <4>1. ctx[h].user # remittance.initiatedBy /\ (MakerChecker => Recorded)
        BY <3>2 DEF Confirm, IInv, ConfirmInv
      <4>2. /\ remittance'.status = "PAID" /\ remittance'.confirmedBy = ctx[h].user
            /\ remittance'.recordedBy = remittance.recordedBy
        BY <3>2 DEF Confirm, IInv, TInv, TypeOK, Remittance
      <4> QED
        BY <2>5, <2>6, <4>1, <4>2 DEF TwoPersonPayment, Recorded
    <3> QED
      BY <1>14, <3>1, <3>2
  <2>8. Quiet(h)
    BY <2>4, <2>5, <2>7 DEF Quiet, Paying
  <2> QED
    BY <2>4, <2>7, <2>8, QuietPay, QuietConfirm DEF IInv
<1>15. ASSUME NEW h \in Handlers, Interrupt(h) PROVE PayInv' /\ ConfirmInv'
  BY <1>15, EnterAside, Elsewhere DEF Interrupt, Finish, Rows
<1> QED
  BY <1>1, <1>2, <1>3, <1>4, <1>5, <1>6, <1>7, <1>8, <1>9, <1>10, <1>11, <1>12, <1>13, <1>14, <1>15
  DEF Next, Review, Register, Pay

\* Every reachable state satisfies the inductive invariant.
THEOREM Inductive == Spec => []IInv
<1>1. Init => IInv
  BY InitTInv, InitRest DEF IInv
<1>2. IInv /\ [Next]_vars => IInv'
  BY StepTInv, StepRest DEF IInv
<1> QED
  BY <1>1, <1>2, PTL DEF Spec

\* No number of concurrent initiations and no interruption makes an adapter pay twice.
THEOREM PaidAtMostOnce == Spec => []RemitOnce
BY Inductive, PTL DEF IInv, PayInv

\* With maker-checker on, a payment that is PAID rests on recorded evidence and was
\* confirmed by someone other than its initiator.
THEOREM FourEyes == Spec => []TwoPersonPayment
BY Inductive, PTL DEF IInv, ConfirmInv

-----------------------------------------------------------------------------
(* A liability earns its stage, and a confirmed payment settles it.         *)
(*                                                                          *)
(* What a request that has transitions to make can rely on: the row it read *)
(* is one from which its next transition is a step of the workflow, and the *)
(* rows that justify the step are there.  A write that is not lost goes     *)
(* from the row the request read.                                           *)

Singles == {"RECONCILED", "REJECTED", "REQUIRES_REVIEW", "PRN_REQUIRED", "PRN_ATTACHED",
            "PAYMENT_PROCESSING", "PAID", "KRA_CONFIRMED"}
Chains == {<<s>> : s \in Singles} \union {<<"APPROVED", "PRN_REQUIRED">>, <<"PAID", "KRA_CONFIRMED">>}

\* Transitions of requests that read the liability first in transition() itself.
Fresh == {"RECONCILED", "REJECTED", "REQUIRES_REVIEW", "PRN_ATTACHED", "PAID"}

\* What a request with transitions to make has read, before or after the check of the first.
Errand(label, c) ==
  LET to == Head(c.todo) IN
  /\ c.todo \in Chains
  /\ to \in Fresh => IF label = "transition" THEN c.seen = Unread ELSE to \in Allowed[c.seen.status]
  /\ to = "APPROVED" => /\ c.user \in Users
                        /\ c.seen.status # "NONE"
                        /\ LowValue \/ c.seen.reconciledBy # c.user
  /\ to = "PRN_REQUIRED" => c.seen.status = "APPROVED"
  /\ to = "PAYMENT_PROCESSING" => c.seen.status = "PRN_ATTACHED" /\ c.then = "remit"
  /\ to # "PAYMENT_PROCESSING" => c.then = "idle"
  /\ to = "KRA_CONFIRMED" => c.seen.status = "PAID"

Knows(label, c) ==
  /\ label \in {"verify", "record", "confirm"} => c.seen = Unread
  /\ label = "insert" => c.seen.status = "PRN_ATTACHED"
  /\ label \in {"transition", "update"} => Errand(label, c)

\* The next transition of h is to one of the stages.
Bound(h, stages) == pc[h] \in {"transition", "update"} /\ Head(ctx[h].todo) \in stages

Verified == \E p \in Prns : prn[p] = "VERIFIED"

ErrandInv ==
  /\ remits = 0 <=> remittance.status \in {"NONE", "PENDING"}
  /\ \A h \in Handlers :
       /\ Knows(pc[h], ctx[h])
       /\ pc[h] \in {"record", "confirm"} \/ Bound(h, {"PAID", "KRA_CONFIRMED"}) => remits # 0
       /\ Bound(h, {"PRN_ATTACHED"}) => Verified

\* Nothing goes back on a payment recorded as made, unless an update is lost.
EarnInv ==
  /\ StageEarned
  /\ "lost update" \notin history =>
       \A h \in Handlers : Bound(h, {"PAID", "KRA_CONFIRMED"}) => remittance.status = "PAID"

Final == {"PAYMENT_PROCESSING", "PAID", "KRA_CONFIRMED"}
Live == {"AWAITING_EXTERNAL_CONFIRMATION", "SUBMITTED", "PAID"}
Dead == {"SANDBOX_SIMULATED", "REQUIRES_REVIEW"}
Settling == {"PAID", "KRA_CONFIRMED"}

\* The adapter has been asked, or is about to be.
Begun == remits # 0 \/ \E g \in Handlers : pc[g] = "remit"

\* Undisturbed, a payment under way keeps the liability at its last three stages, an
\* approval based on a row of those stages is too late for the payment to matter, and
\* a confirmed payment has settled the liability or has a request at it.
Undisturbed ==
  /\ \A h \in Handlers : pc[h] = "remit" => liability.status = "PAYMENT_PROCESSING"
  /\ remittance.status \in Live => liability.status \in Final
  /\ liability.status \in Final => Begun
  /\ \A h \in Handlers : Bound(h, {"APPROVED"}) /\ ctx[h].seen.status \in Final =>
       Begun /\ (pc[h] = "update" => remittance.status \in Dead)
  /\ \A h \in Handlers : Bound(h, {"REQUIRES_REVIEW"}) => remittance.status = "REQUIRES_REVIEW"
  /\ remittance.status = "PAID" =>
       liability.status \in Settling \/ \E h \in Handlers : Bound(h, {"PAID"})

SettleInv == history = {} => Undisturbed

WInv == IInv /\ ErrandInv /\ EarnInv /\ SettleInv

LEMMA ChainFacts ==
  /\ \A s : Head(<<s>>) = s /\ Len(<<s>>) = 1
  /\ \A s, t : Head(<<s, t>>) = s /\ Len(<<s, t>>) = 2 /\ Tail(<<s, t>>) = <<t>>
OBVIOUS

OthersKept(h) == \A g \in Handlers \ {h} : pc'[g] = pc[g] /\ ctx'[g] = ctx[g]

LEMMA Entered ==
  ASSUME TInv, NEW h \in Handlers, NEW label, NEW c, Enter(h, label, c)
  PROVE pc'[h] = label /\ ctx'[h] = c /\ OthersKept(h)
BY EnterOthers DEF OthersKept

\* Each part of the invariant, for a step of h that disturbs nobody else's.
LEMMA KeepErrands ==
  ASSUME ErrandInv, NEW h \in Handlers, OthersKept(h), Knows(pc'[h], ctx'[h]),
         remits # 0 => remits' # 0, Verified => Verified',
         remits' = 0 <=> remittance'.status \in {"NONE", "PENDING"},
         pc'[h] \in {"record", "confirm"} \/ Bound(h, {"PAID", "KRA_CONFIRMED"})' => remits' # 0,
         Bound(h, {"PRN_ATTACHED"})' => Verified'
  PROVE ErrandInv'
<1>1. ASSUME NEW g \in Handlers, g # h
      PROVE /\ Knows(pc'[g], ctx'[g])
            /\ pc'[g] \in {"record", "confirm"} \/ Bound(g, {"PAID", "KRA_CONFIRMED"})' => remits' # 0
            /\ Bound(g, {"PRN_ATTACHED"})' => Verified'
  BY <1>1 DEF OthersKept, ErrandInv, Bound
<1>2. /\ remits' = 0 <=> remittance'.status \in {"NONE", "PENDING"}
      /\ \A g \in Handlers :
           /\ Knows(pc'[g], ctx'[g])
           /\ pc'[g] \in {"record", "confirm"} \/ Bound(g, {"PAID", "KRA_CONFIRMED"})' => remits' # 0
           /\ Bound(g, {"PRN_ATTACHED"})' => Verified'
  BY <1>1
<1>3. \A g \in Handlers : Knows(pc[g], ctx[g])' <=> Knows(pc'[g], ctx'[g])
  BY DEF Knows, Errand
<1> QED
  BY <1>2, <1>3 DEF ErrandInv

LEMMA KeepEarned ==
  ASSUME EarnInv, NEW h \in Handlers, OthersKept(h), UNCHANGED liability, Verified => Verified',
         remittance.status # "NONE" => remittance'.status # "NONE",
         "lost update" \notin history' =>
           /\ "lost update" \notin history
           /\ remittance.status = "PAID" => remittance'.status = "PAID"
           /\ Bound(h, {"PAID", "KRA_CONFIRMED"})' => \/ remittance'.status = "PAID"
                                                     \/ Bound(h, {"PAID", "KRA_CONFIRMED"})
  PROVE EarnInv'
<1>1. StageEarned'
  BY DEF EarnInv, StageEarned, Verified
<1>2. ASSUME "lost update" \notin history', NEW g \in Handlers, Bound(g, {"PAID", "KRA_CONFIRMED"})'
      PROVE remittance'.status = "PAID"
  <2>1. Bound(g, {"PAID", "KRA_CONFIRMED"}) \/ remittance'.status = "PAID"
    BY <1>2 DEF OthersKept, Bound
  <2> QED
    BY <1>2, <2>1 DEF EarnInv
<1> QED
  BY <1>1, <1>2 DEF EarnInv

LEMMA KeepSettled ==
  ASSUME SettleInv, NEW h \in Handlers, OthersKept(h), UNCHANGED <<liability, remittance, remits>>,
         history' = {} =>
           /\ history = {}
           /\ pc[h] # "remit" /\ pc'[h] # "remit"
           /\ Bound(h, {"APPROVED"})' /\ ctx'[h].seen.status \in Final =>
                Begun /\ (pc'[h] = "update" => remittance.status \in Dead)
           /\ Bound(h, {"REQUIRES_REVIEW"})' => remittance.status = "REQUIRES_REVIEW"
           /\ Bound(h, {"PAID"}) => liability.status \in Settling \/ Bound(h, {"PAID"})'
  PROVE SettleInv'
<1> SUFFICES ASSUME history' = {} PROVE Undisturbed'
  BY DEF SettleInv
<1>1. Undisturbed
  BY DEF SettleInv
<1>2. Begun <=> Begun'
  BY DEF Begun, OthersKept
<1>3. /\ \A g \in Handlers : pc'[g] = "remit" => liability'.status = "PAYMENT_PROCESSING"
      /\ remittance'.status \in Live => liability'.status \in Final
      /\ liability'.status \in Final => Begun'
  BY <1>1, <1>2 DEF Undisturbed, OthersKept
<1>4. ASSUME NEW g \in Handlers
      PROVE /\ Bound(g, {"APPROVED"})' /\ ctx'[g].seen.status \in Final =>
                 Begun' /\ (pc'[g] = "update" => remittance'.status \in Dead)
            /\ Bound(g, {"REQUIRES_REVIEW"})' => remittance'.status = "REQUIRES_REVIEW"
  BY <1>1, <1>2 DEF Undisturbed, OthersKept, Bound
<1>5. remittance'.status = "PAID" =>
       liability'.status \in Settling \/ \E g \in Handlers : Bound(g, {"PAID"})'
  BY <1>1 DEF Undisturbed, OthersKept, Bound
<1> QED
  BY <1>3, <1>4, <1>5 DEF Undisturbed

LEMMA InitWritten == Init => ErrandInv /\ EarnInv /\ SettleInv
<1> SUFFICES ASSUME Init PROVE ErrandInv /\ EarnInv /\ SettleInv
  OBVIOUS
<1>1. \A h \in Handlers : pc[h] = "idle"
  BY DEF Init
<1>2. /\ liability.status = "NONE" /\ remittance.status = "NONE" /\ remits = 0
  BY DEF Init, Unread
<1>3. ErrandInv
  BY <1>1, <1>2 DEF ErrandInv, Knows, Bound
<1>4. EarnInv
  BY <1>1, <1>2 DEF EarnInv, StageEarned, Approved, Bound
<1>5. SettleInv
  BY <1>1, <1>2 DEF SettleInv, Undisturbed, Final, Live, Bound
<1> QED
  BY <1>3, <1>4, <1>5

\* A request that moves on to a label at which it has no transition to make, while the
\* liability and the remittance stay.
LEMMA NoErrand ==
  ASSUME WInv, NEW h \in Handlers, NEW label, NEW c, Enter(h, label, c),
         label \notin {"transition", "update", "remit"}, pc[h] # "remit",
         label \in {"verify", "record", "confirm"} => c.seen = Unread,
         label = "insert" => c.seen.status = "PRN_ATTACHED",
         label \in {"record", "confirm"} => remits # 0,
         UNCHANGED <<liability, remittance, remits>>, Verified => Verified', history \subseteq history',
         history' = {} => ~Bound(h, {"PAID"}) \/ liability.status \in Settling
  PROVE ErrandInv' /\ EarnInv' /\ SettleInv'
<1>1. pc'[h] = label /\ ctx'[h] = c /\ OthersKept(h)
  BY Entered DEF WInv, IInv
<1>2. ErrandInv'
  BY <1>1, KeepErrands DEF WInv, ErrandInv, Knows, Bound
<1>3. EarnInv'
  BY <1>1, KeepEarned DEF WInv, Bound
<1>4. SettleInv'
  BY <1>1, KeepSettled DEF WInv, Bound
<1> QED
  BY <1>2, <1>3, <1>4

\* A request that sets out on its transitions with the liability it has read, if any,
\* for a reason other than a payment: todo is what it has to do.
LEMMA SetsOut ==
  ASSUME WInv, NEW h \in Handlers, NEW c, Enter(h, "transition", c),
         pc[h] \notin {"transition", "update", "remit"}, Errand("transition", c),
         Head(c.todo) \notin {"PAID", "KRA_CONFIRMED", "REQUIRES_REVIEW"},
         Head(c.todo) = "APPROVED" => c.seen = liability,
         Head(c.todo) = "PRN_ATTACHED" => Verified',
         UNCHANGED <<liability, remittance, remits>>, Verified => Verified', history' = history
  PROVE ErrandInv' /\ EarnInv' /\ SettleInv'
<1>1. pc'[h] = "transition" /\ ctx'[h] = c /\ OthersKept(h)
  BY Entered DEF WInv, IInv
<1>2. ErrandInv'
  BY <1>1, KeepErrands DEF WInv, ErrandInv, Knows, Bound
<1>3. EarnInv'
  BY <1>1, KeepEarned DEF WInv, Bound
<1>4. history = {} /\ liability.status \in Final => Begun
  BY DEF WInv, SettleInv, Undisturbed
<1>5. SettleInv'
  BY <1>1, <1>4, KeepSettled DEF WInv, Bound
<1> QED
  BY <1>2, <1>3, <1>5

LEMMA CreateWritten == ASSUME WInv, Create PROVE ErrandInv' /\ EarnInv' /\ SettleInv'
<1>1. /\ liability.status = "NONE" /\ liability'.status = "CALCULATED"
      /\ UNCHANGED <<prn, remittance, remits, pc, ctx, history>>
  BY DEF Create, WInv, IInv, TInv, TypeOK, Liability
<1>2. ErrandInv'
  BY <1>1 DEF WInv, ErrandInv, Knows, Errand, Bound, Verified
<1>3. EarnInv'
  BY <1>1 DEF WInv, EarnInv, StageEarned, Approved, Bound
<1>4. SettleInv'
  <2> SUFFICES ASSUME history' = {} PROVE Undisturbed'
    BY DEF SettleInv
  <2>1. Undisturbed
    BY <1>1 DEF WInv, SettleInv
  <2>2. remittance.status \notin Live /\ \A h \in Handlers : pc[h] # "remit"
    BY <1>1, <2>1 DEF Undisturbed, Final
  <2>3. remittance.status # "PAID"
    BY <2>2 DEF Live
  <2>4. liability'.status \notin Final
    BY <1>1 DEF Final
  <2>5. \A h \in Handlers : Bound(h, {"APPROVED"})' <=> Bound(h, {"APPROVED"})
    BY <1>1 DEF Bound
  <2>6. \A h \in Handlers : Bound(h, {"REQUIRES_REVIEW"})' <=> Bound(h, {"REQUIRES_REVIEW"})
    BY <1>1 DEF Bound
  <2>7. Begun' <=> Begun
    BY <1>1 DEF Begun
  <2> QED
    BY <1>1, <2>1, <2>2, <2>3, <2>4, <2>5, <2>6, <2>7 DEF Undisturbed
<1> QED
  BY <1>2, <1>3, <1>4

LEMMA ReadWritten ==
  ASSUME WInv, NEW h \in Handlers, TransitionRead(h)
  PROVE ErrandInv' /\ EarnInv' /\ SettleInv'
<1> DEFINE to == Head(ctx[h].todo)
<1>1. /\ pc[h] = "transition" /\ ctx[h] \in Context /\ Errand("transition", ctx[h])
      /\ UNCHANGED <<liability, prn, remittance, remits, history>>
  BY DEF TransitionRead, Rows, WInv, IInv, TInv, HandlersSane, ErrandInv, Knows
<1>2. CASE to \notin Allowed[liability.status]
  <2>1. Enter(h, "idle", Idle)
    BY <1>2 DEF TransitionRead, Finish
  <2>2. history = {} /\ Bound(h, {"PAID"}) => liability.status \in Settling
    <3> SUFFICES ASSUME history = {}, Bound(h, {"PAID"}) PROVE liability.status \in Settling
      OBVIOUS
    <3>1. remittance.status = "PAID" /\ to = "PAID"
      BY DEF WInv, EarnInv, Bound
    <3>2. liability.status \in Final
      BY <3>1 DEF WInv, SettleInv, Undisturbed, Live
    <3>3. liability.status # "PAYMENT_PROCESSING"
      BY <1>2, <3>1 DEF Allowed, LiabilityStatus
    <3> QED
      BY <3>2, <3>3 DEF Final, Settling
  <2> QED
    BY <1>1, <2>1, <2>2, NoErrand DEF Verified
<1>3. CASE to \in Allowed[liability.status]
  <2> DEFINE s == IF ctx[h].seen = Unread THEN liability ELSE ctx[h].seen
  <2>1. PICK c : c = [ctx[h] EXCEPT !.seen = s]
    OBVIOUS
  <2>2. /\ c.seen = s /\ c.todo = ctx[h].todo /\ c.then = ctx[h].then /\ c.user = ctx[h].user
    BY <1>1, <2>1 DEF Context
  <2>3. Enter(h, "update", c)
    BY <1>3, <2>1 DEF TransitionRead
  <2>4. pc'[h] = "update" /\ ctx'[h] = c /\ OthersKept(h)
    BY <2>3, Entered DEF WInv, IInv
  <2>5. Unread.status = "NONE"
    BY DEF Unread
  <2>6. to \in Fresh => s = liability
    BY <1>1 DEF Errand
  <2>7. to \in {"APPROVED", "PRN_REQUIRED", "PAYMENT_PROCESSING", "KRA_CONFIRMED"} => s = ctx[h].seen
    BY <1>1, <2>5 DEF Errand
  <2>8. Errand("update", c)
    BY <1>1, <1>3, <2>2, <2>6, <2>7 DEF Errand, Fresh
  <2>9. Verified <=> Verified'
    BY <1>1 DEF Verified
  <2>10. \A stages : Bound(h, stages)' <=> Bound(h, stages)
    BY <1>1, <2>2, <2>4 DEF Bound
  <2>11. ErrandInv'
    BY <1>1, <2>4, <2>8, <2>9, <2>10, KeepErrands DEF WInv, ErrandInv, Knows
  <2>12. EarnInv'
    BY <1>1, <2>4, <2>9, <2>10, KeepEarned DEF WInv
  <2>13. ASSUME history = {}, Bound(h, {"APPROVED"}), s.status \in Final
         PROVE Begun /\ remittance.status \in Dead
    <3>1. to = "APPROVED" /\ s = ctx[h].seen
      BY <2>7, <2>13 DEF Bound
    <3>2. liability.status = "RECONCILED"
      BY <1>3, <3>1 DEF Allowed, LiabilityStatus, WInv, IInv, TInv, TypeOK, Liability
    <3>3. Undisturbed
      BY <2>13 DEF WInv, SettleInv
    <3>4. Begun
      BY <2>13, <3>1, <3>3 DEF Undisturbed
    <3>5. remits # 0
      BY <3>2, <3>3, <3>4 DEF Begun, Undisturbed
    <3>6. remittance.status \notin Live
      BY <3>2, <3>3 DEF Undisturbed, Final
    <3>7. remittance.status \in Dead
      BY <3>5, <3>6 DEF WInv, ErrandInv, IInv, TInv, TypeOK, Remittance, RemittanceStatus, Live, Dead
    <3> QED
      BY <3>4, <3>7
  <2>14. history = {} /\ Bound(h, {"REQUIRES_REVIEW"}) => remittance.status = "REQUIRES_REVIEW"
    BY DEF WInv, SettleInv, Undisturbed
  <2>15. SettleInv'
    BY <1>1, <2>2, <2>4, <2>10, <2>13, <2>14, KeepSettled DEF WInv
  <2> QED
    BY <2>11, <2>12, <2>15
<1> QED
  BY <1>2, <1>3

\* Everything a user or the job may begin.
LEMMA StartsWritten ==
  ASSUME WInv, NEW h \in Handlers,
         \/ FlagStale(h)
         \/ \E u \in Users : Reconcile(h, u) \/ Reject(h, u) \/ Approve(h, u)
         \/ \E u \in Users, p \in Prns : AttachStart(h, u, p) \/ VerifyStart(h, u, p)
         \/ \E u \in Users : InitiateStart(h, u) \/ RecordStart(h, u) \/ ConfirmStart(h, u)
  PROVE ErrandInv' /\ EarnInv' /\ SettleInv'
<1>1. /\ Idle.seen = Unread /\ Idle.then = "idle"
      /\ \A u, t : LET c == [Idle EXCEPT !.user = u, !.todo = t]
                   IN  c.user = u /\ c.todo = t /\ c.seen = Unread /\ c.then = "idle"
      /\ \A t : LET c == [Idle EXCEPT !.todo = t] IN c.todo = t /\ c.seen = Unread /\ c.then = "idle"
      /\ \A u, s, t : LET c == [Idle EXCEPT !.user = u, !.seen = s, !.todo = t]
                      IN  c.user = u /\ c.todo = t /\ c.seen = s /\ c.then = "idle"
      /\ \A u : [Idle EXCEPT !.user = u].seen = Unread
      /\ \A u, p : [Idle EXCEPT !.user = u, !.prn = p].seen = Unread
  BY DEF Idle
<1>2. CASE FlagStale(h)
  <2>1. history' # {}
    BY <1>2 DEF FlagStale, Note
  <2>2. UNCHANGED <<liability, prn, remittance, remits>> /\ history \subseteq history'
    BY <1>2 DEF FlagStale, Note, Rows
  <2>3. PICK c : c = [Idle EXCEPT !.todo = <<"REQUIRES_REVIEW">>]
    OBVIOUS
  <2>4. c.todo = <<"REQUIRES_REVIEW">> /\ c.seen = Unread /\ c.then = "idle"
    BY <1>1, <2>3
  <2>5. Enter(h, "transition", c) /\ pc[h] = "idle"
    BY <1>2, <2>3 DEF FlagStale, Begin
  <2>6. pc'[h] = "transition" /\ ctx'[h] = c /\ OthersKept(h)
    BY <2>5, Entered DEF WInv, IInv
  <2>7. Errand("transition", c)
    BY <2>4, ChainFacts DEF Errand, Chains, Singles, Fresh
  <2>8. Head(c.todo) = "REQUIRES_REVIEW"
    BY <2>4, ChainFacts
  <2>9. ErrandInv'
    BY <2>2, <2>6, <2>7, <2>8, KeepErrands DEF WInv, ErrandInv, Knows, Bound, Verified
  <2>10. EarnInv'
    BY <2>2, <2>6, <2>8, KeepEarned DEF WInv, Bound, Verified
  <2> QED
    BY <2>1, <2>9, <2>10 DEF SettleInv
<1>3. ASSUME NEW u \in Users, NEW s \in {"RECONCILED", "REJECTED"},
             Begin(h, "transition", [Idle EXCEPT !.user = u, !.todo = <<s>>]), UNCHANGED <<Rows, history>>
      PROVE ErrandInv' /\ EarnInv' /\ SettleInv'
  <2>1. PICK c : c = [Idle EXCEPT !.user = u, !.todo = <<s>>]
    OBVIOUS
  <2>2. c.todo = <<s>> /\ c.seen = Unread /\ c.then = "idle"
    BY <1>1, <2>1
  <2>3. Errand("transition", c) /\ Head(c.todo) = s
    BY <2>2, ChainFacts DEF Errand, Chains, Singles, Fresh
  <2>4. Enter(h, "transition", c) /\ pc[h] = "idle" /\ UNCHANGED <<liability, prn, remittance, remits, history>>
    BY <1>3, <2>1 DEF Begin, Rows
  <2> QED
    BY <2>3, <2>4, SetsOut DEF Verified
<1>4. ASSUME NEW u \in Users, Approve(h, u) PROVE ErrandInv' /\ EarnInv' /\ SettleInv'
  <2>1. PICK c : c = [Idle EXCEPT !.user = u, !.seen = liability, !.todo = <<"APPROVED", "PRN_REQUIRED">>]
    OBVIOUS
  <2>2. c.todo = <<"APPROVED", "PRN_REQUIRED">> /\ c.seen = liability /\ c.then = "idle" /\ c.user = u
    BY <1>1, <2>1
  <2>3. Head(c.todo) = "APPROVED"
    BY <2>2, ChainFacts
  <2>4. liability.status # "NONE" /\ (LowValue \/ liability.reconciledBy # u)
    BY <1>4 DEF Approve, Approvable
  <2>5. Errand("transition", c)
    BY <2>2, <2>3, <2>4 DEF Errand, Chains, Fresh
  <2>6. Enter(h, "transition", c) /\ pc[h] = "idle" /\ UNCHANGED <<liability, prn, remittance, remits, history>>
    BY <1>4, <2>1 DEF Approve, Begin, Rows
  <2> QED
    BY <2>2, <2>3, <2>5, <2>6, SetsOut DEF Verified
<1>5. ASSUME NEW label \in {"attach", "verify", "find", "record", "confirm"}, NEW c,
             Begin(h, label, c), UNCHANGED <<Rows, history>>,
             label \in {"verify", "record", "confirm"} => c.seen = Unread,
             label \in {"record", "confirm"} => remits # 0
      PROVE ErrandInv' /\ EarnInv' /\ SettleInv'
  <2>1. Enter(h, label, c) /\ pc[h] = "idle" /\ UNCHANGED <<liability, prn, remittance, remits, history>>
    BY <1>5 DEF Begin, Rows
  <2>2. ~Bound(h, {"PAID"})
    BY <2>1 DEF Bound
  <2> QED
    BY <1>5, <2>1, <2>2, NoErrand DEF Verified
<1>6. ASSUME NEW u \in Users, RecordStart(h, u) \/ ConfirmStart(h, u)
      PROVE ErrandInv' /\ EarnInv' /\ SettleInv'
  <2>1. remits # 0
    BY <1>6 DEF RecordStart, ConfirmStart, Confirmable, WInv, ErrandInv
  <2>2. PICK c : c = [Idle EXCEPT !.user = u]
    OBVIOUS
  <2>3. c.seen = Unread
    BY <2>2 DEF Idle
  <2>4. CASE RecordStart(h, u)
    <3>1. Begin(h, "record", c) /\ UNCHANGED <<Rows, history>>
      BY <2>2, <2>4 DEF RecordStart
    <3> QED
      BY <1>5, <2>1, <2>3, <3>1
  <2>5. CASE ConfirmStart(h, u)
    <3>1. Begin(h, "confirm", c) /\ UNCHANGED <<Rows, history>>
      BY <2>2, <2>5, SMTT(30) DEF ConfirmStart
    <3> QED
      BY <1>5, <2>1, <2>3, <3>1
  <2> QED
    BY <1>6, <2>4, <2>5
<1>7. ASSUME NEW u \in Users, Reconcile(h, u) \/ Reject(h, u) PROVE ErrandInv' /\ EarnInv' /\ SettleInv'
  BY <1>3, <1>7 DEF Reconcile, Reject
<1>8. ASSUME NEW u \in Users, NEW p \in Prns, AttachStart(h, u, p) \/ VerifyStart(h, u, p)
      PROVE ErrandInv' /\ EarnInv' /\ SettleInv'
  <2>1. CASE AttachStart(h, u, p)
    BY <1>5, <2>1 DEF AttachStart
  <2>2. CASE VerifyStart(h, u, p)
    <3>1. PICK c : c = [Idle EXCEPT !.user = u, !.prn = p]
      OBVIOUS
    <3>2. c.seen = Unread
      BY <3>1 DEF Idle
    <3>3. Begin(h, "verify", c) /\ UNCHANGED <<Rows, history>>
      BY <2>2, <3>1 DEF VerifyStart
    <3> QED
      BY <1>5, <3>2, <3>3
  <2> QED
    BY <1>8, <2>1, <2>2
<1>9. ASSUME NEW u \in Users, InitiateStart(h, u) PROVE ErrandInv' /\ EarnInv' /\ SettleInv'
  BY <1>5, <1>9 DEF InitiateStart
<1> QED
  BY <1>2, <1>4, <1>6, <1>7, <1>8, <1>9

LEMMA RegisterWritten ==
  ASSUME WInv, NEW h \in Handlers, Attach(h) \/ Verify(h)
  PROVE ErrandInv' /\ EarnInv' /\ SettleInv'
<1>1. /\ ctx[h] \in Context /\ Knows(pc[h], ctx[h]) /\ prn \in [Prns -> {"NONE", "PENDING", "VERIFIED"}]
      /\ pc[h] \in {"attach", "verify"} /\ ctx[h].prn \in Prns /\ ctx[h].then = "idle"
  BY DEF Attach, Verify, WInv, IInv, TInv, HandlersSane, ErrandInv, TypeOK, Sane
<1>2. UNCHANGED <<liability, remittance, remits, history>> /\ ~Bound(h, {"PAID"})
  BY <1>1 DEF Attach, Verify, Bound
<1>3. (Verified => Verified') /\ (Verify(h) => Verified')
  BY <1>1 DEF Attach, Verify, Verified
<1>4. CASE Enter(h, "idle", Idle)
  BY <1>1, <1>2, <1>3, <1>4, NoErrand
<1>5. ASSUME NEW s, Enter(h, "transition", [ctx[h] EXCEPT !.todo = <<s>>]),
             \/ s = "PRN_REQUIRED" /\ ctx[h].seen.status = "APPROVED"
             \/ s = "PRN_ATTACHED" /\ ctx[h].seen = Unread /\ Verified'
      PROVE ErrandInv' /\ EarnInv' /\ SettleInv'
  <2>1. PICK c : c = [ctx[h] EXCEPT !.todo = <<s>>]
    OBVIOUS
  <2>2. c.todo = <<s>> /\ c.seen = ctx[h].seen /\ c.then = "idle"
    BY <1>1, <2>1 DEF Context
  <2>3. Head(c.todo) = s
    BY <2>2, ChainFacts
  <2>4. Errand("transition", c)
    BY <1>5, <2>2, <2>3 DEF Errand, Chains, Singles, Fresh
  <2>5. Enter(h, "transition", c)
    BY <1>5, <2>1
  <2> QED
    BY <1>1, <1>2, <1>3, <1>5, <2>3, <2>4, <2>5, SetsOut
<1>6. <<"PRN_REQUIRED">> # <<>> /\ <<"PRN_ATTACHED">> # <<>>
  OBVIOUS
<1> QED
  BY <1>1, <1>3, <1>4, <1>5, <1>6 DEF Attach, Verify, Continue, Finish, Knows

LEMMA FindWritten ==
  ASSUME WInv, NEW h \in Handlers, FindRemittance(h)
  PROVE ErrandInv' /\ EarnInv' /\ SettleInv'
<1>1. /\ pc[h] = "find" /\ UNCHANGED <<liability, prn, remittance, remits, history>>
      /\ \/ Enter(h, "idle", Idle)
         \/ Enter(h, "insert", ctx[h]) /\ ctx[h].seen.status = "PRN_ATTACHED"
  BY DEF FindRemittance, Finish, Rows
<1>2. ~Bound(h, {"PAID"})
  BY <1>1 DEF Bound
<1> QED
  BY <1>1, <1>2, NoErrand DEF Verified

LEMMA InsertWritten ==
  ASSUME WInv, NEW h \in Handlers, Insert(h)
  PROVE ErrandInv' /\ EarnInv' /\ SettleInv'
<1>1. /\ pc[h] = "insert" /\ UNCHANGED <<liability, prn, remits, history>>
      /\ ctx[h] \in Context /\ ctx[h].seen.status = "PRN_ATTACHED"
  BY DEF Insert, WInv, IInv, TInv, HandlersSane, ErrandInv, Knows
<1>2. CASE remittance.status # "NONE"
  <2>1. Enter(h, "idle", Idle) /\ UNCHANGED remittance
    BY <1>2 DEF Insert, Finish
  <2>2. ~Bound(h, {"PAID"})
    BY <1>1 DEF Bound
  <2> QED
    BY <1>1, <2>1, <2>2, NoErrand DEF Verified
<1>3. CASE remittance.status = "NONE"
  <2>1. PICK c : c = [ctx[h] EXCEPT !.todo = <<"PAYMENT_PROCESSING">>, !.then = "remit"]
    OBVIOUS
  <2>2. /\ c.todo = <<"PAYMENT_PROCESSING">> /\ c.then = "remit"
        /\ c.seen.status = "PRN_ATTACHED"
    BY <1>1, <2>1 DEF Context
  <2>3. Head(c.todo) = "PAYMENT_PROCESSING"
    BY <2>2, ChainFacts
  <2>4. Errand("transition", c)
    BY <2>2, <2>3 DEF Errand, Chains, Singles, Fresh
  <2>5. Enter(h, "transition", c) /\ remittance'.status = "PENDING"
    BY <1>3, <2>1 DEF Insert, Pending, WInv, IInv, TInv, TypeOK, Remittance
  <2>6. pc'[h] = "transition" /\ ctx'[h] = c /\ OthersKept(h)
    BY <2>5, Entered DEF WInv, IInv
  <2>7. remits = 0
    BY <1>3 DEF WInv, ErrandInv
  <2>8. ErrandInv'
    BY <1>1, <2>3, <2>4, <2>5, <2>6, <2>7, KeepErrands DEF WInv, Knows, Bound, Verified
  <2>9. EarnInv'
    BY <1>1, <1>3, <2>3, <2>5, <2>6, KeepEarned DEF WInv, Bound, Verified
  <2>10. ASSUME history' = {} PROVE Undisturbed'
    <3>1. Undisturbed
      BY <1>1, <2>10 DEF WInv, SettleInv
    <3>2. Begun => Begun'
      BY <1>1, <2>6 DEF Begun, OthersKept
    <3>3. \A g \in Handlers : ~Bound(g, {"REQUIRES_REVIEW"})'
      BY <1>3, <2>3, <2>6, <3>1 DEF Undisturbed, Bound, OthersKept
    <3>4. ASSUME NEW g \in Handlers, Bound(g, {"APPROVED"})', ctx'[g].seen.status \in Final
          PROVE Begun' /\ pc'[g] # "update"
      <4>1. g # h
        BY <2>3, <2>6, <3>4 DEF Bound
      <4>2. Bound(g, {"APPROVED"}) /\ ctx[g].seen.status \in Final /\ pc'[g] = pc[g]
        BY <2>6, <3>4, <4>1 DEF Bound, OthersKept
      <4>3. remittance.status \notin Dead
        BY <1>3 DEF Dead
      <4> QED
        BY <3>1, <3>2, <4>2, <4>3 DEF Undisturbed
    <3>5. \A g \in Handlers : pc'[g] = "remit" => liability'.status = "PAYMENT_PROCESSING"
      BY <1>1, <2>6, <3>1 DEF Undisturbed, OthersKept
    <3>6. remittance'.status \notin Live /\ remittance'.status # "PAID"
      BY <2>5 DEF Live
    <3>7. liability'.status \in Final => Begun'
      BY <1>1, <3>1, <3>2 DEF Undisturbed
    <3> QED
      BY <3>3, <3>4, <3>5, <3>6, <3>7 DEF Undisturbed
  <2> QED
    BY <2>8, <2>9, <2>10 DEF SettleInv
<1> QED
  BY <1>2, <1>3

LEMMA RemitWritten ==
  ASSUME WInv, NEW h \in Handlers, Remit(h)
  PROVE ErrandInv' /\ EarnInv' /\ SettleInv'
<1>1. /\ pc[h] = "remit" /\ UNCHANGED <<liability, prn, history>> /\ remits' = remits + 1
      /\ remits = 0 /\ remittance.status = "PENDING"
      /\ \A g \in Handlers : Paying(g) => g = h
  BY DEF Remit, Paying, WInv, IInv, PayInv, ErrandInv, TInv, TypeOK
<1>2. remits' # 0
  BY <1>1
<1>3. PICK c : c = [Idle EXCEPT !.user = ctx[h].user, !.todo = <<"REQUIRES_REVIEW">>]
  OBVIOUS
<1>4. /\ c.todo = <<"REQUIRES_REVIEW">> /\ c.seen = Unread /\ c.then = "idle"
      /\ Head(c.todo) = "REQUIRES_REVIEW"
  BY <1>3, ChainFacts DEF Idle
<1>5. Errand("transition", c)
  BY <1>4 DEF Errand, Chains, Singles, Fresh
<1>6. /\ remittance'.status \in Dead \union {"AWAITING_EXTERNAL_CONFIRMATION"}
      /\ \/ Enter(h, "idle", Idle)
         \/ Enter(h, "transition", c) /\ remittance'.status = "REQUIRES_REVIEW"
  BY <1>3 DEF Remit, Finish, Dead, WInv, IInv, TInv, TypeOK, Remittance
<1>7. /\ \/ pc'[h] = "idle"
         \/ pc'[h] = "transition" /\ ctx'[h] = c /\ remittance'.status = "REQUIRES_REVIEW"
      /\ OthersKept(h)
  BY <1>6, Entered DEF WInv, IInv
<1>8. ErrandInv'
  BY <1>1, <1>2, <1>4, <1>5, <1>6, <1>7, KeepErrands DEF WInv, Knows, Bound, Verified, Dead
<1>9. EarnInv'
  BY <1>1, <1>4, <1>6, <1>7, KeepEarned DEF WInv, Bound, Verified, Dead
<1>10. ASSUME history' = {} PROVE Undisturbed'
  <2>1. Undisturbed
    BY <1>1, <1>10 DEF WInv, SettleInv
  <2>2. Begun'
    BY <1>2 DEF Begun
  <2>3. \A g \in Handlers : pc'[g] # "remit"
    BY <1>1, <1>7 DEF OthersKept, Paying
  <2>4. liability'.status \in Final
    BY <1>1, <2>1 DEF Undisturbed, Final
  <2>5. remittance'.status # "PAID"
    BY <1>6 DEF Dead
  <2>6. ASSUME NEW g \in Handlers, Bound(g, {"APPROVED"})', ctx'[g].seen.status \in Final, pc'[g] = "update"
        PROVE FALSE
    <3>1. g # h
      BY <1>7, <2>6
    <3>2. Bound(g, {"APPROVED"}) /\ ctx[g].seen.status \in Final /\ pc[g] = "update"
      BY <1>7, <2>6, <3>1 DEF Bound, OthersKept
    <3>3. remittance.status \notin Dead
      BY <1>1 DEF Dead
    <3> QED
      BY <2>1, <3>2, <3>3 DEF Undisturbed
  <2>7. ASSUME NEW g \in Handlers, Bound(g, {"REQUIRES_REVIEW"})'
        PROVE remittance'.status = "REQUIRES_REVIEW"
    BY <1>1, <1>7, <2>1, <2>7 DEF Bound, OthersKept, Undisturbed
  <2> QED
    BY <2>2, <2>3, <2>4, <2>5, <2>6, <2>7 DEF Undisturbed
<1> QED
  BY <1>8, <1>9, <1>10 DEF SettleInv

\* Evidence recorded, or confirmed by a second person: the remittance moves on, and the
\* request goes on to settle the liability when the remittance is PAID.
LEMMA SettleWritten ==
  ASSUME WInv, NEW h \in Handlers, Record(h) \/ Confirm(h)
  PROVE ErrandInv' /\ EarnInv' /\ SettleInv'
<1>1. /\ pc[h] \in {"record", "confirm"} /\ UNCHANGED <<liability, prn, remits>>
      /\ ctx[h] \in Context /\ ctx[h].seen = Unread /\ ctx[h].then = "idle" /\ remits # 0
      /\ history \subseteq history'
  BY DEF Record, Confirm, Note, WInv, IInv, TInv, HandlersSane, Sane, ErrandInv, Knows
<1>2. /\ remittance'.status \in {"SUBMITTED", "PAID"}
      /\ remittance.status # "NONE"
      /\ "lost update" \notin history' =>
           remittance.status \in {"AWAITING_EXTERNAL_CONFIRMATION", "SUBMITTED"}
  BY DEF Record, Confirm, Note, WInv, IInv, TInv, TypeOK, Remittance, ConfirmInv
<1>3. PICK todo \in {<<>>, <<"PAID">>, <<"PAID", "KRA_CONFIRMED">>} :
         /\ Continue(h, todo)
         /\ todo # <<>> <=> remittance'.status = "PAID"
  <2>1. CASE Record(h)
    <3>1. remittance'.status = IF MakerChecker THEN "SUBMITTED" ELSE "PAID"
      BY <2>1 DEF Record, WInv, IInv, TInv, TypeOK, Remittance
    <3> QED
      BY <2>1, <3>1 DEF Record, FinalizePaid
  <2>2. CASE Confirm(h)
    <3>1. remittance'.status = "PAID"
      BY <2>2 DEF Confirm, WInv, IInv, TInv, TypeOK, Remittance
    <3> QED
      BY <2>2, <3>1 DEF Confirm, FinalizePaid
  <2> QED
    BY <2>1, <2>2
<1>4. PICK c : c = [ctx[h] EXCEPT !.todo = todo]
  OBVIOUS
<1>5. c.todo = todo /\ c.seen = Unread /\ c.then = "idle"
  BY <1>1, <1>4 DEF Context
<1>6. todo # <<>> => Head(todo) = "PAID" /\ todo \in Chains
  BY <1>3, ChainFacts DEF Chains, Singles
<1>7. todo # <<>> => Errand("transition", c)
  BY <1>5, <1>6 DEF Errand, Fresh
<1>8. /\ IF todo = <<>> THEN pc'[h] = "idle" ELSE pc'[h] = "transition" /\ ctx'[h] = c
      /\ OthersKept(h)
  BY <1>3, <1>4, Entered DEF Continue, Finish, WInv, IInv
<1>9. ErrandInv'
  BY <1>1, <1>2, <1>5, <1>6, <1>7, <1>8, KeepErrands DEF WInv, ErrandInv, Knows, Bound, Verified
<1>10. EarnInv'
  BY <1>1, <1>2, <1>3, <1>8, KeepEarned DEF WInv, Bound, Verified
<1>11. ASSUME history' = {} PROVE Undisturbed'
  <2>1. Undisturbed /\ remittance.status \in {"AWAITING_EXTERNAL_CONFIRMATION", "SUBMITTED"}
    BY <1>1, <1>2, <1>11 DEF WInv, SettleInv
  <2>2. liability'.status \in Final /\ Begun'
    BY <1>1, <2>1 DEF Undisturbed, Live, Begun
  <2>3. \A g \in Handlers : pc'[g] = "remit" => liability'.status = "PAYMENT_PROCESSING"
    BY <1>1, <1>8, <2>1 DEF Undisturbed, OthersKept
  <2>4. ASSUME NEW g \in Handlers, Bound(g, {"APPROVED"})', ctx'[g].seen.status \in Final, pc'[g] = "update"
        PROVE FALSE
    <3>1. g # h
      BY <1>8, <2>4
    <3>2. Bound(g, {"APPROVED"}) /\ ctx[g].seen.status \in Final /\ pc[g] = "update"
      BY <1>8, <2>4, <3>1 DEF Bound, OthersKept
    <3>3. remittance.status \notin Dead
      BY <2>1 DEF Dead
    <3> QED
      BY <2>1, <3>2, <3>3 DEF Undisturbed
  <2>5. ASSUME NEW g \in Handlers, Bound(g, {"REQUIRES_REVIEW"})' PROVE FALSE
    <3>1. g # h
      BY <1>5, <1>6, <1>8, <2>5 DEF Bound
    <3> QED
      BY <1>8, <2>1, <2>5, <3>1 DEF Bound, OthersKept, Undisturbed
  <2>6. remittance'.status = "PAID" => Bound(h, {"PAID"})'
    BY <1>3, <1>5, <1>6, <1>8 DEF Bound
  <2> QED
    BY <2>2, <2>3, <2>4, <2>5, <2>6 DEF Undisturbed
<1> QED
  BY <1>9, <1>10, <1>11 DEF SettleInv

LEMMA InterruptWritten ==
  ASSUME WInv, NEW h \in Handlers, Interrupt(h)
  PROVE ErrandInv' /\ EarnInv' /\ SettleInv'
<1>1. /\ pc'[h] = "idle" /\ OthersKept(h) /\ UNCHANGED <<liability, prn, remittance, remits>>
      /\ history \subseteq history' /\ history' # {}
  BY Entered DEF Interrupt, Finish, Rows, Note, WInv, IInv
<1>2. ErrandInv'
  BY <1>1, KeepErrands DEF WInv, ErrandInv, Knows, Bound, Verified
<1>3. EarnInv'
  BY <1>1, KeepEarned DEF WInv, Bound, Verified
<1> QED
  BY <1>1, <1>2, <1>3 DEF SettleInv

\* What a write leaves behind.
LEMMA WriteShape ==
  ASSUME WInv, NEW h \in Handlers, TransitionWrite(h)
  PROVE LET c == ctx[h]
            to == Head(c.todo) IN
        /\ pc[h] = "update" /\ Errand("update", c) /\ OthersKept(h)
        /\ UNCHANGED <<prn, remittance, remits>> /\ history \subseteq history'
        /\ "lost update" \notin history' => liability = c.seen
        /\ to \in Singles \union {"APPROVED"}
        /\ liability'.status = to
        /\ to \notin {"RECONCILED", "APPROVED"} => /\ liability'.approvedBy = liability.approvedBy
                                                   /\ liability'.reconciledBy = liability.reconciledBy
        /\ to = "APPROVED" => /\ liability'.approvedBy = c.user
                              /\ liability'.reconciledBy = liability.reconciledBy
        /\ to = "PAYMENT_PROCESSING" => pc'[h] = "remit"
        /\ to # "PAYMENT_PROCESSING" =>
             \/ pc'[h] = "idle"
             \/ /\ pc'[h] = "transition"
                /\ Errand("transition", ctx'[h])
                /\ \/ to = "APPROVED" /\ Head(ctx'[h].todo) = "PRN_REQUIRED"
                   \/ to = "PAID" /\ Head(ctx'[h].todo) = "KRA_CONFIRMED"
<1> DEFINE c == ctx[h]
           to == Head(c.todo)
<1>1. /\ pc[h] = "update" /\ Errand("update", c) /\ c \in Context /\ c.then \in {"idle", "remit"}
      /\ liability' = Updated(to, c.user)
      /\ UNCHANGED <<prn, remittance, remits>>
  BY DEF TransitionWrite, WInv, IInv, TInv, HandlersSane, ErrandInv, Knows, Context
<1>2. history \subseteq history' /\ ("lost update" \notin history' => liability = c.seen)
  BY DEF TransitionWrite, Note
<1>3. /\ liability'.status = to
      /\ to \notin {"RECONCILED", "APPROVED"} => /\ liability'.approvedBy = liability.approvedBy
                                                 /\ liability'.reconciledBy = liability.reconciledBy
      /\ to = "APPROVED" => /\ liability'.approvedBy = c.user
                            /\ liability'.reconciledBy = liability.reconciledBy
  BY <1>1 DEF Updated
<1>4. \/ \E s \in Singles : c.todo = <<s>>
      \/ c.todo \in {<<"APPROVED", "PRN_REQUIRED">>, <<"PAID", "KRA_CONFIRMED">>}
  BY <1>1 DEF Errand, Chains
<1>5. CASE \E s \in Singles : c.todo = <<s>>
  <2>1. Len(c.todo) = 1 /\ to \in Singles
    BY <1>5, ChainFacts
  <2>2. IF c.then = "idle" THEN Enter(h, "idle", Idle)
                           ELSE Enter(h, "remit", [c EXCEPT !.todo = <<>>, !.then = "idle"])
    BY <1>1, <2>1 DEF TransitionWrite, Finish
  <2>3. /\ pc'[h] = IF c.then = "idle" THEN "idle" ELSE "remit"
        /\ OthersKept(h)
    BY <2>2, Entered DEF WInv, IInv
  <2>4. c.then = "remit" <=> to = "PAYMENT_PROCESSING"
    BY <1>1 DEF Errand
  <2> QED
    BY <1>1, <1>2, <1>3, <2>1, <2>3, <2>4
<1>6. ASSUME NEW s, NEW t, c.todo = <<s, t>>,
             \/ s = "APPROVED" /\ t = "PRN_REQUIRED"
             \/ s = "PAID" /\ t = "KRA_CONFIRMED"
      PROVE /\ to = s /\ OthersKept(h)
            /\ pc'[h] = "transition" /\ Errand("transition", ctx'[h]) /\ Head(ctx'[h].todo) = t
  <2>1. to = s /\ Len(c.todo) # 1 /\ Tail(c.todo) = <<t>>
    BY <1>6, ChainFacts
  <2>2. PICK d : d = [c EXCEPT !.todo = Tail(@), !.seen = liability']
    OBVIOUS
  <2>3. d.todo = <<t>> /\ d.seen = liability' /\ d.then = c.then
    BY <1>1, <2>1, <2>2 DEF Context
  <2>4. Head(d.todo) = t /\ d.seen.status = s
    BY <1>3, <2>1, <2>3, ChainFacts
  <2>5. Enter(h, "transition", d)
    BY <2>1, <2>2 DEF TransitionWrite
  <2>6. pc'[h] = "transition" /\ ctx'[h] = d /\ OthersKept(h)
    BY <2>5, Entered DEF WInv, IInv
  <2>7. d.then = "idle"
    BY <1>1, <1>6, <2>1, <2>3 DEF Errand
  <2>8. Errand("transition", d)
    BY <1>6, <2>3, <2>4, <2>7 DEF Errand, Chains, Singles, Fresh
  <2> QED
    BY <2>1, <2>4, <2>6, <2>8
<1>7. CASE c.todo = <<"APPROVED", "PRN_REQUIRED">>
  <2>1. /\ to = "APPROVED" /\ OthersKept(h)
        /\ pc'[h] = "transition" /\ Errand("transition", ctx'[h])
        /\ Head(ctx'[h].todo) = "PRN_REQUIRED"
    BY <1>6, <1>7
  <2> QED
    BY <1>1, <1>2, <1>3, <2>1 DEF Singles
<1>8. CASE c.todo = <<"PAID", "KRA_CONFIRMED">>
  <2>1. /\ to = "PAID" /\ OthersKept(h)
        /\ pc'[h] = "transition" /\ Errand("transition", ctx'[h])
        /\ Head(ctx'[h].todo) = "KRA_CONFIRMED"
    BY <1>6, <1>8
  <2> QED
    BY <1>1, <1>2, <1>3, <2>1 DEF Singles
<1> QED
  BY <1>4, <1>5, <1>7, <1>8

LEMMA WriteWritten ==
  ASSUME WInv, NEW h \in Handlers, TransitionWrite(h)
  PROVE ErrandInv' /\ EarnInv' /\ SettleInv'
<1> DEFINE c == ctx[h]
<1>1. PICK to : to = Head(c.todo)
  OBVIOUS
<1>2. /\ pc[h] = "update" /\ Errand("update", c) /\ OthersKept(h)
      /\ UNCHANGED <<prn, remittance, remits>> /\ history \subseteq history'
      /\ "lost update" \notin history' => liability = c.seen
      /\ to \in Singles \union {"APPROVED"}
  BY <1>1, WriteShape
<1>3. /\ liability'.status = to
      /\ to \notin {"RECONCILED", "APPROVED"} =>
           liability'.approvedBy = liability.approvedBy /\ liability'.reconciledBy = liability.reconciledBy
      /\ to = "APPROVED" =>
           liability'.approvedBy = c.user /\ liability'.reconciledBy = liability.reconciledBy
  BY <1>1, WriteShape
<1>4. /\ to = "PAYMENT_PROCESSING" => pc'[h] = "remit"
      /\ to # "PAYMENT_PROCESSING" =>
           \/ pc'[h] = "idle"
           \/ /\ pc'[h] = "transition"
              /\ Errand("transition", ctx'[h])
              /\ \/ to = "APPROVED" /\ Head(ctx'[h].todo) = "PRN_REQUIRED"
                 \/ to = "PAID" /\ Head(ctx'[h].todo) = "KRA_CONFIRMED"
  BY <1>1, WriteShape
<1>5. \A stages : Bound(h, stages) <=> to \in stages
  BY <1>1, <1>2 DEF Bound
<1>6. to \in {"PAID", "KRA_CONFIRMED"} => remits # 0
  BY <1>5 DEF WInv, ErrandInv
<1>7. Verified <=> Verified'
  BY <1>2 DEF Verified
<1>8. ErrandInv'
  BY <1>2, <1>4, <1>6, <1>7, KeepErrands DEF WInv, ErrandInv, Knows, Bound
<1>9. "lost update" \notin history' /\ to \in {"PAID", "KRA_CONFIRMED"} => remittance.status = "PAID"
  BY <1>2, <1>5 DEF WInv, EarnInv
<1>10. ASSUME "lost update" \notin history'
       PROVE /\ liability = c.seen
             /\ to \in Fresh => to \in Allowed[liability.status]
             /\ to = "APPROVED" => /\ c.user \in Users
                                   /\ LowValue \/ liability.reconciledBy # c.user
             /\ to = "PRN_REQUIRED" => liability.status = "APPROVED"
             /\ to = "PAYMENT_PROCESSING" => liability.status = "PRN_ATTACHED"
             /\ to = "KRA_CONFIRMED" => liability.status = "PAID"
  BY <1>1, <1>2, <1>10 DEF Errand
<1>11. liability.status \in LiabilityStatus
  BY DEF WInv, IInv, TInv, TypeOK, Liability
<1>12. ASSUME "lost update" \notin history'
       PROVE /\ to = "PRN_ATTACHED" => liability.status = "PRN_REQUIRED" /\ Verified
             /\ to = "PAID" => liability.status = "PAYMENT_PROCESSING"
             /\ to \in {"RECONCILED", "REJECTED"} => liability.status \notin Final
  <2>1. to = "PRN_ATTACHED" => Verified
    BY <1>5 DEF WInv, ErrandInv
  <2> QED
    BY <1>10, <1>11, <1>12, <2>1 DEF Fresh, Allowed, Final
<1>13. to = "PAYMENT_PROCESSING" => remittance.status # "NONE"
  <2>1. to = "PAYMENT_PROCESSING" => Paying(h)
    BY <1>1, <1>2 DEF Errand, Paying
  <2> QED
    BY <2>1 DEF WInv, IInv, PayInv
<1>14. EarnInv'
  <2>1. ASSUME "lost update" \notin history'
        PROVE /\ liability'.status \in Approved =>
                   /\ liability'.approvedBy \in Users
                   /\ LowValue \/ liability'.approvedBy # liability'.reconciledBy
              /\ liability'.status \in {"PRN_ATTACHED", "PAYMENT_PROCESSING", "PAID", "KRA_CONFIRMED"} =>
                   Verified'
              /\ liability'.status \in {"PAYMENT_PROCESSING", "PAID", "KRA_CONFIRMED"} =>
                   remittance'.status # "NONE"
              /\ liability'.status \in {"PAID", "KRA_CONFIRMED"} => remittance'.status = "PAID"
    <3>1. /\ liability.status \in Approved =>
               /\ liability.approvedBy \in Users
               /\ LowValue \/ liability.approvedBy # liability.reconciledBy
          /\ liability.status \in {"PRN_ATTACHED", "PAYMENT_PROCESSING", "PAID", "KRA_CONFIRMED"} => Verified
      BY <1>2, <2>1 DEF WInv, EarnInv, StageEarned, Verified
    <3>2. to \in Approved \ {"APPROVED"} => liability.status \in Approved
      BY <1>10, <1>12, <2>1 DEF Approved
    <3>3. to \in Approved =>
            /\ liability'.approvedBy \in Users
            /\ LowValue \/ liability'.approvedBy # liability'.reconciledBy
      BY <1>3, <1>10, <2>1, <3>1, <3>2 DEF Approved
    <3>4. to \in {"PRN_ATTACHED", "PAYMENT_PROCESSING", "PAID", "KRA_CONFIRMED"} => Verified'
      BY <1>7, <1>10, <1>12, <2>1, <3>1
    <3>5. to \in {"PAYMENT_PROCESSING", "PAID", "KRA_CONFIRMED"} => remittance'.status # "NONE"
      BY <1>2, <1>9, <1>13, <2>1
    <3> QED
      BY <1>2, <1>3, <1>9, <2>1, <3>3, <3>4, <3>5
  <2>2. StageEarned'
    BY <2>1 DEF StageEarned, Verified
  <2>3. ASSUME "lost update" \notin history', NEW g \in Handlers, Bound(g, {"PAID", "KRA_CONFIRMED"})'
        PROVE remittance'.status = "PAID"
    <3>1. CASE g = h
      BY <1>2, <1>4, <1>9, <2>3, <3>1 DEF Bound
    <3>2. CASE g # h
      BY <1>2, <2>3, <3>2 DEF Bound, OthersKept, WInv, EarnInv
    <3> QED
      BY <3>1, <3>2
  <2> QED
    BY <2>2, <2>3 DEF EarnInv
<1>15. ASSUME history' = {} PROVE Undisturbed'
  <2>1. Undisturbed /\ "lost update" \notin history'
    BY <1>2, <1>15 DEF WInv, SettleInv
  <2>2. liability.status \in Final => to \in Settling \/ remittance.status \in Dead
    <3>1. to = "REQUIRES_REVIEW" => remittance.status \in Dead
      BY <1>5, <2>1 DEF Undisturbed, Dead
    <3>2. to = "APPROVED" /\ liability.status \in Final => remittance.status \in Dead
      BY <1>2, <1>5, <1>10, <2>1 DEF Undisturbed
    <3>3. to \in {"PRN_REQUIRED", "PAYMENT_PROCESSING", "PRN_ATTACHED"} => liability.status \notin Final
      BY <1>10, <1>12, <2>1 DEF Final
    <3> QED
      BY <1>2, <1>12, <2>1, <3>1, <3>2, <3>3 DEF Singles, Settling
  <2>3. Begun => Begun'
    BY <1>2 DEF Begun, OthersKept
  <2>4. ASSUME NEW g \in Handlers, pc'[g] = "remit" PROVE liability'.status = "PAYMENT_PROCESSING"
    <3>1. CASE g = h
      BY <1>3, <1>4, <2>4, <3>1
    <3>2. CASE g # h
      <4>1. pc[g] = "remit"
        BY <1>2, <2>4, <3>2 DEF OthersKept
      <4>2. liability.status \in Final
        BY <2>1, <4>1 DEF Undisturbed, Final
      <4>3. remits = 0
        BY <4>1 DEF Paying, WInv, IInv, PayInv
      <4>4. remittance.status \notin Dead
        BY <4>3 DEF WInv, ErrandInv, Dead
      <4> QED
        BY <1>6, <2>2, <4>2, <4>3, <4>4 DEF Settling
    <3> QED
      BY <3>1, <3>2
  <2>5. remittance'.status \in Live => liability'.status \in Final
    <3>1. remittance.status \in Live => remittance.status \notin Dead
      BY DEF Live, Dead
    <3> QED
      BY <1>2, <1>3, <2>1, <2>2, <3>1 DEF Undisturbed, Final, Settling
  <2>6. liability'.status \in Final => Begun'
    BY <1>2, <1>3, <1>4, <1>6 DEF Final, Begun
  <2>7. ASSUME NEW g \in Handlers, Bound(g, {"APPROVED"})', ctx'[g].seen.status \in Final
        PROVE Begun' /\ (pc'[g] = "update" => remittance'.status \in Dead)
    <3>1. g # h
      BY <1>4, <2>7 DEF Bound
    <3>2. Bound(g, {"APPROVED"}) /\ ctx[g].seen.status \in Final /\ pc'[g] = pc[g]
      BY <1>2, <2>7, <3>1 DEF Bound, OthersKept
    <3> QED
      BY <1>2, <2>1, <2>3, <3>2 DEF Undisturbed
  <2>8. ASSUME NEW g \in Handlers, Bound(g, {"REQUIRES_REVIEW"})'
        PROVE remittance'.status = "REQUIRES_REVIEW"
    <3>1. g # h
      BY <1>4, <2>8 DEF Bound
    <3> QED
      BY <1>2, <2>1, <2>8, <3>1 DEF Bound, OthersKept, Undisturbed
  <2>9. ASSUME remittance'.status = "PAID", liability'.status \notin Settling
        PROVE \E g \in Handlers : Bound(g, {"PAID"})'
    <3>1. liability.status \notin Settling
      <4>1. remittance.status \notin Dead
        BY <1>2, <2>9 DEF Dead
      <4> QED
        BY <1>3, <2>2, <2>9, <4>1 DEF Settling, Final
    <3>2. PICK g \in Handlers : Bound(g, {"PAID"})
      BY <1>2, <2>1, <2>9, <3>1 DEF Undisturbed
    <3>3. g # h
      BY <1>3, <1>5, <2>9, <3>2 DEF Settling
    <3> QED
      BY <1>2, <3>2, <3>3 DEF Bound, OthersKept
  <2> QED
    BY <2>4, <2>5, <2>6, <2>7, <2>8, <2>9 DEF Undisturbed
<1> QED
  BY <1>8, <1>14, <1>15 DEF SettleInv

LEMMA StepWritten == WInv /\ [Next]_vars => ErrandInv' /\ EarnInv' /\ SettleInv'
<1> SUFFICES ASSUME WInv, [Next]_vars PROVE ErrandInv' /\ EarnInv' /\ SettleInv'
  OBVIOUS
<1>1. CASE UNCHANGED vars
  <2>1. ErrandInv'
    BY <1>1 DEF vars, WInv, ErrandInv, Knows, Errand, Bound, Verified
  <2>2. EarnInv'
    BY <1>1 DEF vars, WInv, EarnInv, StageEarned, Bound
  <2>3. SettleInv'
    BY <1>1 DEF vars, WInv, SettleInv, Undisturbed, Begun, Bound
  <2> QED
    BY <2>1, <2>2, <2>3
<1>2. ASSUME NEW h \in Handlers, Review(h) PROVE ErrandInv' /\ EarnInv' /\ SettleInv'
  BY <1>2, ReadWritten, WriteWritten, StartsWritten DEF Review
<1>3. ASSUME NEW h \in Handlers, Register(h) PROVE ErrandInv' /\ EarnInv' /\ SettleInv'
  BY <1>3, RegisterWritten, StartsWritten DEF Register
<1>4. ASSUME NEW h \in Handlers, Pay(h) PROVE ErrandInv' /\ EarnInv' /\ SettleInv'
  BY <1>4, FindWritten, InsertWritten, RemitWritten, SettleWritten, StartsWritten DEF Pay
<1> QED
  BY <1>1, <1>2, <1>3, <1>4, CreateWritten, InterruptWritten DEF Next

LEMMA WrittenInductive == Spec => []WInv
<1>1. Init => WInv
  BY InitTInv, InitRest, InitWritten DEF WInv, IInv
<1>2. WInv /\ [Next]_vars => WInv'
  BY StepTInv, StepRest, StepWritten DEF WInv, IInv
<1> QED
  BY <1>1, <1>2, PTL DEF Spec

\* However the statements of reviews, registrations and payments interleave and wherever
\* they are cut off: unless a write fell on a row its request had not read, a liability at
\* a stage has the approval, the verified PRN and the remittance that the stage stands for.
THEOREM StagesAreEarned == Spec => []StageEarned
BY WrittenInductive, PTL DEF WInv, EarnInv

\* Without interruptions, lost updates and stale flags, a remittance that is PAID has
\* settled its liability once every request is over.
THEOREM ConfirmationSettles == Spec => []ConfirmedSettles
<1>1. WInv => ConfirmedSettles
  BY DEF WInv, SettleInv, Undisturbed, ConfirmedSettles, Settled, Settling, Bound
<1> QED
  BY <1>1, WrittenInductive, PTL
=============================================================================
