---------------------------- MODULE TaxLiability ----------------------------
(***************************************************************************)
(* One tax liability from its calculation to its payment: the reviews of   *)
(* tax-liability.service.ts, the payment registration numbers (PRNs) of    *)
(* tax-prn.service.ts, the remittance of tax-remittance.service.ts with    *)
(* its adapters, and the job that flags a payment left unresolved.  Every  *)
(* request is a few statements outside a transaction; requests interleave  *)
(* between any two of them and may be cut off by a restart.                *)
(***************************************************************************)
EXTENDS Integers, Sequences

CONSTANTS
  Handlers,     \* requests that may be in flight at the same time
  Users,        \* finance users, all with every permission
  Prns,         \* PRNs obtained for this liability
  LowValue,     \* amount within TAX_PAYMENT_APPROVAL_THRESHOLD_MINOR
  MakerChecker, \* TAX_MAKER_CHECKER_ENABLED
  Nobody        \* a null user

ASSUME TaxLiabilityAssumption ==
  LowValue \in BOOLEAN /\ MakerChecker \in BOOLEAN /\ Nobody \notin Users

VARIABLES
  liability,  \* the TaxLiability row
  prn,        \* verificationStatus of each TaxPaymentRegistration
  remittance, \* the TaxRemittance row: its key admits one per liability
  remits,     \* calls of an adapter's remit so far
  pc, ctx,    \* what each handler does next, and its local variables
  history     \* what has gone wrong so far

vars == <<liability, prn, remittance, remits, pc, ctx, history>>

\* "NONE" stands for a row that does not exist.
LiabilityStatus == {"NONE", "DRAFT", "CALCULATED", "RECONCILED", "APPROVED", "PRN_REQUIRED",
  "PRN_ATTACHED", "PAYMENT_PROCESSING", "PAID", "KRA_CONFIRMED", "REJECTED", "FAILED",
  "CANCELLED", "REQUIRES_REVIEW"}
RemittanceStatus == {"NONE", "PENDING", "AWAITING_EXTERNAL_CONFIRMATION", "SUBMITTED",
  "REQUIRES_REVIEW", "PAID", "SANDBOX_SIMULATED"}
MaybeUser == Users \union {Nobody}

Liability == [status : LiabilityStatus, reconciledBy : MaybeUser, approvedBy : MaybeUser]
\* recordedBy: the actor of the recording, who is on the audit trail and not in the row.
Remittance == [status : RemittanceStatus, initiatedBy : MaybeUser, recordedBy : MaybeUser,
               confirmedBy : MaybeUser, kraReference : BOOLEAN]

Allowed == [s \in LiabilityStatus |->
  CASE s = "DRAFT" -> {"CALCULATED", "CANCELLED"}
    [] s = "CALCULATED" -> {"RECONCILED", "REQUIRES_REVIEW", "CANCELLED"}
    [] s = "RECONCILED" -> {"APPROVED", "REJECTED", "REQUIRES_REVIEW"}
    [] s = "APPROVED" -> {"PRN_REQUIRED", "CANCELLED"}
    [] s = "PRN_REQUIRED" -> {"PRN_ATTACHED", "CANCELLED"}
    [] s = "PRN_ATTACHED" -> {"PAYMENT_PROCESSING", "CANCELLED"}
    [] s = "PAYMENT_PROCESSING" -> {"PAID", "FAILED", "REQUIRES_REVIEW"}
    [] s = "PAID" -> {"KRA_CONFIRMED"}
    [] s = "REJECTED" -> {"DRAFT"}
    [] s = "FAILED" -> {"PAYMENT_PROCESSING", "REQUIRES_REVIEW"}
    [] s = "REQUIRES_REVIEW" -> {"CALCULATED", "RECONCILED", "CANCELLED"}
    [] OTHER -> {}]

Labels == {"idle", "find", "insert", "attach", "verify", "record", "confirm", "remit",
           "transition", "update"}
Unread == [status |-> "NONE", reconciledBy |-> Nobody, approvedBy |-> Nobody]

\* seen: the liability as this request first read it, brought up to date by its own
\* writes; todo: the transitions still to make; then: what follows the last of them.
Context == [user : MaybeUser, prn : Prns \union {Nobody}, seen : Liability,
            todo : Seq(LiabilityStatus), then : {"idle", "remit"}]
Idle == [user |-> Nobody, prn |-> Nobody, seen |-> Unread, todo |-> <<>>, then |-> "idle"]

Init ==
  /\ liability = Unread
  /\ prn = [p \in Prns |-> "NONE"]
  /\ remittance = [status |-> "NONE", initiatedBy |-> Nobody, recordedBy |-> Nobody,
                   confirmedBy |-> Nobody, kraReference |-> FALSE]
  /\ remits = 0
  /\ pc = [h \in Handlers |-> "idle"]
  /\ ctx = [h \in Handlers |-> Idle]
  /\ history = {}

Rows == <<liability, prn, remittance, remits>>

Enter(h, label, context) == /\ pc' = [pc EXCEPT ![h] = label]
                            /\ ctx' = [ctx EXCEPT ![h] = context]
Begin(h, label, context) == pc[h] = "idle" /\ Enter(h, label, context)
Finish(h) == Enter(h, "idle", Idle)

\* A request that goes on with the transitions todo, if there are any.
Continue(h, todo) == IF todo = <<>> THEN Finish(h)
                     ELSE Enter(h, "transition", [ctx[h] EXCEPT !.todo = todo])

\* A write that would not pass an optimistic check of the row it is based on.
Note(event, happened) == history' = history \union (IF happened THEN {event} ELSE {})

-----------------------------------------------------------------------------
(* transition(): the status is read and checked, then written by id.        *)

TransitionRead(h) ==
  LET seen == IF ctx[h].seen = Unread THEN liability ELSE ctx[h].seen IN
  /\ pc[h] = "transition"
  /\ IF Head(ctx[h].todo) \in Allowed[liability.status]
     THEN Enter(h, "update", [ctx[h] EXCEPT !.seen = seen])
     ELSE Finish(h)
  /\ UNCHANGED <<Rows, history>>

Updated(to, user) ==
  [status |-> to,
   reconciledBy |-> IF to = "RECONCILED" THEN user ELSE liability.reconciledBy,
   approvedBy |-> IF to = "APPROVED" THEN user ELSE liability.approvedBy]

TransitionWrite(h) ==
  LET c == ctx[h] IN
  /\ pc[h] = "update"
  /\ liability' = Updated(Head(c.todo), c.user)
  /\ Note("lost update", liability # c.seen)
  /\ IF Len(c.todo) = 1
     THEN IF c.then = "idle" THEN Finish(h) ELSE Enter(h, c.then, [c EXCEPT !.todo = <<>>, !.then = "idle"])
     ELSE Enter(h, "transition", [c EXCEPT !.todo = Tail(@), !.seen = liability'])
  /\ UNCHANGED <<prn, remittance, remits>>

-----------------------------------------------------------------------------
(* tax-liability.service.ts *)

\* create: the idempotency key admits one row.
Create ==
  /\ liability.status = "NONE"
  /\ liability' = [liability EXCEPT !.status = "CALCULATED"]
  /\ UNCHANGED <<prn, remittance, remits, pc, ctx, history>>

Reconcile(h, u) ==
  /\ liability.status # "NONE"
  /\ Begin(h, "transition", [Idle EXCEPT !.user = u, !.todo = <<"RECONCILED">>])
  /\ UNCHANGED <<Rows, history>>

Reject(h, u) ==
  /\ liability.status # "NONE"
  /\ Begin(h, "transition", [Idle EXCEPT !.user = u, !.todo = <<"REJECTED">>])
  /\ UNCHANGED <<Rows, history>>

\* Mutant: the reconciler may approve.
ApprovableByAnyone(u) == liability.status # "NONE"

\* The first read of approve, and the different-actors check made on it.
Approvable(u) == liability.status # "NONE" /\ (LowValue \/ liability.reconciledBy # u)

Approve(h, u) ==
  /\ Approvable(u)
  /\ Begin(h, "transition", [Idle EXCEPT !.user = u, !.seen = liability,
                                         !.todo = <<"APPROVED", "PRN_REQUIRED">>])
  /\ UNCHANGED <<Rows, history>>

\* detectStalePaymentProcessing, for a payment whose six hours are over.
FlagStale(h) ==
  /\ liability.status = "PAYMENT_PROCESSING"
  /\ Begin(h, "transition", [Idle EXCEPT !.todo = <<"REQUIRES_REVIEW">>])
  /\ Note("flagged stale", TRUE)
  /\ UNCHANGED Rows

-----------------------------------------------------------------------------
(* tax-prn.service.ts *)

AttachStart(h, u, p) ==
  /\ liability.status \in {"PRN_REQUIRED", "APPROVED"}
  /\ prn[p] = "NONE"
  /\ Begin(h, "attach", [Idle EXCEPT !.user = u, !.prn = p, !.seen = liability])
  /\ UNCHANGED <<Rows, history>>

\* The unique prnHash refuses a PRN that another request has attached meanwhile.
Attach(h) ==
  LET p == ctx[h].prn IN
  /\ pc[h] = "attach"
  /\ \/ /\ prn[p] = "NONE"
        /\ prn' = [prn EXCEPT ![p] = "PENDING"]
        /\ Continue(h, IF ctx[h].seen.status = "APPROVED" THEN <<"PRN_REQUIRED">> ELSE <<>>)
     \/ /\ prn[p] # "NONE"
        /\ UNCHANGED prn
        /\ Finish(h)
  /\ UNCHANGED <<liability, remittance, remits, history>>

VerifyStart(h, u, p) ==
  /\ prn[p] = "PENDING"
  /\ Begin(h, "verify", [Idle EXCEPT !.user = u, !.prn = p])
  /\ UNCHANGED <<Rows, history>>

Verify(h) ==
  /\ pc[h] = "verify"
  /\ prn' = [prn EXCEPT ![ctx[h].prn] = "VERIFIED"]
  /\ Continue(h, <<"PRN_ATTACHED">>)
  /\ UNCHANGED <<liability, remittance, remits, history>>

-----------------------------------------------------------------------------
(* tax-remittance.service.ts *)

InitiateStart(h, u) ==
  /\ liability.status # "NONE"
  /\ Begin(h, "find", [Idle EXCEPT !.user = u, !.seen = liability])
  /\ UNCHANGED <<Rows, history>>

\* An existing remittance is returned, or refused if it requires review.
FindRemittance(h) ==
  /\ pc[h] = "find"
  /\ IF /\ remittance.status = "NONE"
        /\ ctx[h].seen.status = "PRN_ATTACHED"
        /\ \E p \in Prns : prn[p] = "VERIFIED"
     THEN Enter(h, "insert", ctx[h])
     ELSE Finish(h)
  /\ UNCHANGED <<Rows, history>>

Pending(u) == [remittance EXCEPT !.status = "PENDING", !.initiatedBy = u]

\* Mutant: no unique key, the second request goes on with a row of its own.
InsertAgain(h) ==
  /\ pc[h] = "insert"
  /\ remittance' = Pending(ctx[h].user)
  /\ Enter(h, "transition", [ctx[h] EXCEPT !.todo = <<"PAYMENT_PROCESSING">>, !.then = "remit"])
  /\ UNCHANGED <<liability, prn, remits, history>>

\* The unique idempotency key: who comes second returns the first one's row.
Insert(h) ==
  /\ pc[h] = "insert"
  /\ \/ /\ remittance.status = "NONE"
        /\ remittance' = Pending(ctx[h].user)
        /\ Enter(h, "transition", [ctx[h] EXCEPT !.todo = <<"PAYMENT_PROCESSING">>, !.then = "remit"])
     \/ /\ remittance.status # "NONE"
        /\ UNCHANGED remittance
        /\ Finish(h)
  /\ UNCHANGED <<liability, prn, remits, history>>

\* remit of the adapter that taxPaymentMode selects at this moment.
Remit(h) ==
  /\ pc[h] = "remit"
  /\ remits' = remits + 1
  /\ \/ /\ remittance' = [remittance EXCEPT !.status = "AWAITING_EXTERNAL_CONFIRMATION"]
        /\ Finish(h)
     \/ /\ remittance' = [remittance EXCEPT !.status = "SANDBOX_SIMULATED"]
        /\ Finish(h)
     \/ /\ remittance' = [remittance EXCEPT !.status = "REQUIRES_REVIEW"]
        /\ Enter(h, "transition", [Idle EXCEPT !.user = ctx[h].user, !.todo = <<"REQUIRES_REVIEW">>])
  /\ UNCHANGED <<liability, prn, history>>

FinalizePaid == IF remittance'.kraReference THEN <<"PAID", "KRA_CONFIRMED">> ELSE <<"PAID">>

RecordStart(h, u) ==
  /\ remittance.status = "AWAITING_EXTERNAL_CONFIRMATION"
  /\ Begin(h, "record", [Idle EXCEPT !.user = u])
  /\ UNCHANGED <<Rows, history>>

\* The maker's evidence, with or without KRA's confirmation reference.
Record(h) ==
  /\ pc[h] = "record"
  /\ \E kra \in BOOLEAN :
       remittance' = [remittance EXCEPT
         !.status = IF MakerChecker THEN "SUBMITTED" ELSE "PAID",
         !.recordedBy = ctx[h].user,
         !.confirmedBy = IF MakerChecker THEN @ ELSE ctx[h].user,
         !.kraReference = @ \/ kra]
  /\ Continue(h, IF MakerChecker THEN <<>> ELSE FinalizePaid)
  /\ Note("lost update", remittance.status # "AWAITING_EXTERNAL_CONFIRMATION")
  /\ UNCHANGED <<liability, prn, remits>>

\* Mutant: anyone may confirm.
ConfirmableByAnyone(u) == remittance.status = "SUBMITTED"

Confirmable(u) == remittance.status = "SUBMITTED" /\ remittance.initiatedBy # u

ConfirmStart(h, u) ==
  /\ Confirmable(u)
  /\ Begin(h, "confirm", [Idle EXCEPT !.user = u])
  /\ UNCHANGED <<Rows, history>>

\* Mutant: the liability is not brought up to date.
ConfirmOnly(h) ==
  /\ pc[h] = "confirm"
  /\ remittance' = [remittance EXCEPT !.status = "PAID", !.confirmedBy = ctx[h].user]
  /\ Finish(h)
  /\ Note("lost update", remittance.status # "SUBMITTED")
  /\ UNCHANGED <<liability, prn, remits>>

Confirm(h) ==
  /\ pc[h] = "confirm"
  /\ remittance' = [remittance EXCEPT !.status = "PAID", !.confirmedBy = ctx[h].user]
  /\ Continue(h, FinalizePaid)
  /\ Note("lost update", remittance.status # "SUBMITTED")
  /\ UNCHANGED <<liability, prn, remits>>

-----------------------------------------------------------------------------
\* A restart, or a statement that fails, between two statements of a request.
Interrupt(h) ==
  /\ pc[h] # "idle"
  /\ Finish(h)
  /\ Note("interrupted", TRUE)
  /\ UNCHANGED Rows

Review(h) == TransitionRead(h) \/ TransitionWrite(h) \/ FlagStale(h)
             \/ \E u \in Users : Reconcile(h, u) \/ Reject(h, u) \/ Approve(h, u)
Register(h) == Attach(h) \/ Verify(h)
               \/ \E u \in Users, p \in Prns : AttachStart(h, u, p) \/ VerifyStart(h, u, p)
Pay(h) == FindRemittance(h) \/ Insert(h) \/ Remit(h) \/ Record(h) \/ Confirm(h)
          \/ \E u \in Users : InitiateStart(h, u) \/ RecordStart(h, u) \/ ConfirmStart(h, u)

Next == Create \/ \E h \in Handlers : Review(h) \/ Register(h) \/ Pay(h) \/ Interrupt(h)

Spec == Init /\ [][Next]_vars

-----------------------------------------------------------------------------
(* Properties. *)

\* Every variable keeps its type.
TypeOK ==
  /\ liability \in Liability
  /\ prn \in [Prns -> {"NONE", "PENDING", "VERIFIED"}]
  /\ remittance \in Remittance
  /\ remits \in Nat
  /\ pc \in [Handlers -> Labels]
  /\ ctx \in [Handlers -> Context]
  /\ history \subseteq {"lost update", "flagged stale", "interrupted"}

\* However often and however concurrently a payment is initiated, and wherever it is
\* cut off, an adapter is asked at most once to pay a liability (initiate, "never
\* re-pay").
RemitOnce == remits <= 1

\* With maker-checker on, a payment is PAID only on recorded evidence and by someone
\* other than its initiator, and no interleaving of recordings and confirmations finds
\* a way round (confirmBySecondApprover).  It does not say that the recorder and the
\* confirmer differ, as the adapter's comment does (prn-based-payment.adapter.ts:36-37):
\* the code compares the confirmer with the initiator alone (139-143), so here as there
\* one user may record a payment another initiated, and confirm it.
TwoPersonPayment ==
  remittance.status = "PAID" /\ MakerChecker =>
    /\ remittance.confirmedBy \in Users \ {remittance.initiatedBy}
    /\ remittance.recordedBy \in Users

\* Unless one request's write was lost under another's, a liability has earned its
\* stage: it was approved by someone other than its reconciler, has a verified PRN and
\* a remittance from the moment it says so, and is PAID only if the remittance is
\* (approve, verify, initiate, finalizePaid; interruptions included).
Approved == {"APPROVED", "PRN_REQUIRED", "PRN_ATTACHED", "PAYMENT_PROCESSING", "PAID", "KRA_CONFIRMED"}
StageEarned ==
  "lost update" \notin history =>
    /\ liability.status \in Approved =>
         /\ liability.approvedBy \in Users
         /\ LowValue \/ liability.approvedBy # liability.reconciledBy
    /\ liability.status \in {"PRN_ATTACHED", "PAYMENT_PROCESSING", "PAID", "KRA_CONFIRMED"} =>
         \E p \in Prns : prn[p] = "VERIFIED"
    /\ liability.status \in {"PAYMENT_PROCESSING", "PAID", "KRA_CONFIRMED"} => remittance.status # "NONE"
    /\ liability.status \in {"PAID", "KRA_CONFIRMED"} => remittance.status = "PAID"

Settled == /\ \A h \in Handlers : pc[h] = "idle"
           /\ remittance.status = "PAID"
           => liability.status \in {"PAID", "KRA_CONFIRMED"}

\* If nothing was cut off, overwritten or flagged, a confirmed payment has settled its
\* liability once no request is in flight (finalizePaid).
ConfirmedSettles == history = {} => Settled
=============================================================================
