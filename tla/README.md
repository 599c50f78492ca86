# TicketFlow Kenya: verification project

TLA+ models of the TicketFlow back end (`backend/src`, NestJS with Prisma on PostgreSQL) and of those
pages of its front end (`frontend`, Next.js) that carry a protocol of their own; the configurations that
check them with TLC; and proofs that TLAPS checks. Paths below are relative to `backend/src` unless they
start with `frontend`.

The back end has few threads and many interleavings. A request is a chain of awaits; between any
two of them another request, a Safaricom callback, a Persona webhook, a cron job or a restart may
change the rows the first one has read. Most of the code's protection is a conditional update, a
unique key, a transaction or an in-process lock, and most of its gaps are a status that is checked on
one statement and written by id in a later one. The models are cut along those statements.

Contents: [inventory](#1-inventory) · [plan](#2-plan) · [modules and
code](#3-modules-and-how-they-correspond-to-the-code) · [runs](#4-runs) ·
[fairness](#5-fairness) · [proofs](#6-proofs) ·
[divergences](#7-where-code-and-documents-disagree) · [limits](#8-what-is-not-modelled)

## 1. Inventory

| Component | State | Operations | Talks to | What is hard | What makes it correct |
|---|---|---|---|---|---|
| **Orders** `orders/orders.service.ts` | `Order.status`, `TicketType.quantitySold` | create (check and reserve), markPaid, markFailed, reopenForRetry | payments call it; tickets read it | two buyers for the last ticket; a retry against a late success; a double failure report | stock agrees with orders; PAID stays PAID |
| **Payments** `payments/payments.service.ts` | `Payment` rows (status, request id, verifying), in-process lock per order | initiate, reconcile, callback, poll, mark success, mark unsuccessful | Daraja, orders, tickets, alerts, jobs | three sources report one result; stale row copies across Daraja calls; lost answers; restarts | one payment in flight; success only for money taken; no early write-off; every payment settles |
| **Payment sweep** `payments/payment-reconciliation.service.ts` | none | every 30 s reconciles PENDING payments | payments | meets every other handler | as above |
| **M-Pesa gateway** `mpesa/mpesa.service.ts` | access token cache | push, query, classify | Safaricom | no answer, late answer, "still processing" | result classified once |
| **Tickets** `tickets/tickets.service.ts` | `Ticket` rows, commission | generateForOrder | orders, e-mail jobs | called twice for one order | one set of tickets per order |
| **Check-in** `checkins/checkins.service.ts` | `Ticket.status`, `CheckIn` | performCheckIn | tickets, the gate's page | two scanners, one code; an answer that is lost | a ticket admits once |
| **Payment monitor** `automation/payment-monitor.service.ts` | alerts | recover missing tickets, flag missing commissions | tickets | races with the normal path | what a restart cut short is retried or reported |
| **Job queue** `automation/automation-queue.service.ts` | `AutomationJob` rows | enqueue, claim a batch, run, recover stale, retry, cancel | handlers | several instances, crashes, stale lock, unconditional outcome | one runner; bounded attempts; nothing forgotten |
| **Alerts, reminders, monitors** `automation/*` | `OperationalAlert`, dedupe keys | raise, decide; periodic scans | queue | two raises at once | one open alert per key |
| **Password reset** `auth/password-reset.service.ts` | `PasswordResetRequest` rows | issue, verify, reset, purge | e-mail, login | parallel guesses, parallel issues, slow hashing between check and use | attempts and codes bounded; one change per code |
| **Login and sessions** `auth/*` | `User.passwordChangedAt`, tokens | login, register, strategies | users | clock granularity | a change of password ends sessions |
| **Organizer verification** `organizers/organizers.service.ts` | `OrganizerProfile.verificationStatus`, `isVerified`, documents | edit, upload, submit, mark, approve, request changes, reject | identity, events, admin | review of one version while another is written | verified means reviewed |
| **Identity check** `identity/persona-identity.service.ts` | inquiry id, identity flag, last event time, `PersonaWebhookEvent` | get or create inquiry, refresh, webhook | Persona, verification automation | webhooks late, twice, out of order; refresh against webhook | identity is Persona's last verdict |
| **Events and ticket types** `events/*`, `ticket-types/*` | `Event.status` and content, tiers | create, update, remove, submit, publish, reject, cancel | orders, admin | edits while under review | on sale means approved as it is |
| **Admin** `admin/admin.service.ts` | none of its own | suspend an event, dashboards | events | overwrites whatever is there | a suspension stands |
| **Tax: calculation** `tax/domain`, `tax/application` | `TaxCalculation`, `RefundTaxCalculation` | calculate and store a sale or a refund | rules, ledger | rounding; rates of another day; repeats | refund mirrors sale; rows immutable |
| **Tax: ledger** `ledger.repository.ts` | `JournalEntry`, `JournalLine` | postEntry | calculation services | entries that do not balance; double posting | books agree with calculations |
| **Tax: liabilities and remittance** `tax-liability.service.ts`, `tax-prn.service.ts`, `tax-remittance.service.ts`, `tax-jobs.service.ts` | liability status, PRNs, remittance | reconcile, approve, reject, attach, verify, initiate, record, confirm, flag stale | KRA adapters | lost updates on the status; stale job; two persons | paid once; four eyes; stages earned |
| **Tax: periods** `tax-period.service.ts`, `reconciliation.service.ts` | `TaxPeriod`, `TaxAdjustment` | draft, aggregate, adjust, reconcile, mark | calculations, eTIMS documents | sales go on between any two reads | RECONCILED means what was checked |
| **Tax: eTIMS documents** `etims-document.service.ts`, `tax-jobs.service.ts` | `EtimsDocument`, `etimsMode` | submit, retry, list, transmit, back off | KRA adapters | two callers; a lost answer; a mode changed meanwhile | a document is transmitted once and never forgotten |
| **AI gateway** `ai/ai.service.ts` | `AiFeatureSetting`, `AiUsageLog` | settings, limits, calls, log | model providers | count first, log last | limits hold but for what is under way |
| **AI drafts and explanations** `ai/ai-drafts.service.ts`, `frontend` assistant, marketing and insights pages | `AiDraft`, page state | generate, edit, decide; explain | gateway | answers many seconds late | advice in its place, accepted before it is used |
| **Support** `support/*`, `frontend/components/SupportChat.tsx` | conversations, messages, tickets, widget | chat, resume, escalate, purge | gateway, orders | the reader changes while a request is under way | nobody hears of another's orders or of money not recorded |
| **Ticket mail** `email/*`, `tickets`, `automation/*` | `Ticket.emailSentAt`, jobs | send, mark, sweep, retry | provider | a stop between sending and marking | every ticket reaches its holder or an admin |
| **Booking pages** `frontend/app/cart`, `hooks/useCart.tsx` | cart, token, steps | choose, name, sign in, order | orders | tabs share storage; late and lost answers | whole orders, once per visit |
| **Payment screen** `frontend/app/checkout/*` | shown payment, caches, timers | push, poll, retry, give up | payments | old answers; silence | no false success; it ends |
| **Account pages** `frontend/app/(auth pages)`, `hooks/useAuth.tsx`, `lib/password-reset.ts` | session, stash, timers | register, sign in, reset | auth | answers of pages that were left; timers and re-rendering | success is shown for a real change and hands over |
| **Identity capture** `frontend/components/LinkedInStyleIdentityCapture.tsx`, `PersonaIdentityVerification.tsx` | step, camera, uploads, popup | capture, upload, restart, follow Persona | organizers, identity | chains of awaits that outlive a reset | what it reports is stored |
| **E-mail texts, audit, categories, users, health; other pages** | rows without a protocol | CRUD, I/O | everything | nothing of their own | – |

How they meet: the buyer's browser calls *orders.create* and then *payments.initiate*, and polls.
Safaricom calls back. The sweep and the poll ask Safaricom. Whichever comes first calls *mark
success*, which marks the order paid and issues the tickets, or *mark unsuccessful*, which marks the
order failed and gives its stock back. The monitor repairs what a restart cut short, and the job
queue carries mail. At the gate *check-ins* spend the tickets. Before any of that, *organizers* and *identity* decide whether an
organizer may submit, and *events* whether an order may be placed. After it, *tax* calculates, posts,
and pays the state.

`PROJECT.json` lists the hazards, each at its line, with the properties that cover it.

## 2. Plan

Most important behaviour first; each item is a module group that can be read alone.

1. **Checkout** refining `TicketSale`: money, stock and tickets. *Done; the refinement and every safety
   property proved.*
2. **Job queue** refining `JobPromise`. *Done; both and the bound on attempts proved.*
3. **Password reset** refining `ResetPromise`. *Done; the refinement and both limits proved.*
4. **Tax liability**: reconcile to remittance. *Done; all four invariants proved.*
5. **Tax books**: `Money`, `TaxCalculation`, `TaxBooks`. *Done; the arithmetic, immutability and the
   sums over sales and refunds proved.*
6. **Publication** over `OrganizerVerification`. *Done; all four invariants proved.*
7. **Tax periods** and the **eTIMS outbox**. *Done; both invariants proved.*
8. **Admission**, **ticket mail**, **alerts**, **support**, **AI gateway and drafts**. *Done; the safety
   properties proved, ticket mail model-checked.*
9. **Pages with a protocol**: booking, payment screen, identity capture, account pages. *Done; the safety
   properties proved, account pages model-checked.*

Next: the safety halves of what is only checked under fairness (what a mail job or an account page may
never do on its way). Further models: several tiers in `Checkout` together with a retry.

## 3. Modules and how they correspond to the code

All concurrent modules share one shape. A *worker* or *handler* is one request, callback, cron step
or webhook in flight; `pc` names the statement it runs next, `ctx` holds its local variables, among
them copies of rows that may be stale by the time they are used. An action is the code from one
database statement or external call to the next, with its early returns. Conditional
`updateMany` calls are guards on the *current* row, plain `update` by id writes whatever is
there. Transactions that PostgreSQL makes atomic are one action; a READ COMMITTED transaction
whose statements can interleave with others is several.

### TicketSale, Checkout, CheckoutProofs

`TicketSale` promises: a payment is confirmed only after its money was taken, a confirmation is
never taken back, and an order with one gets one set of tickets, once. `Checkout` is the code.

* *Ordering*: `CreateCheck` (availability read), `CreateReserve` (increment and insert);
  `ReopenRead/Check/Take/Set` is `reopenForRetry`; `MarkPaidRead/Reserve/Set`, `MarkFailed`,
  `ReleaseReservation`.
* *Paying*: `InitiateStart` takes the order lock, `FindExisting` looks for a PENDING payment,
  `CreatePayment`, `Push`, `PushSave` or `PushFail`.
* *Learning the result*: `QueryNoId`, `QueryTooSoon`, `Query` are `reconcile`; `CallbackStart`,
  `CallbackConfirm`, `CallbackApply` the callback; `ClaimSuccess`, `CheckOther`, `ClaimFailure`,
  `ClaimGiveUp`, `EnqueueNotice` the settlements; `IssueRead` and `Issue` ticket issue.
* *Around it*: `ReconcileStart` is the sweep, `RecoverStart` and `FlagCommission` the monitor,
  `Answer` what the buyer and Safaricom do, `StopSales`, `Tick`, `Crash`.

Ages of a payment are small numbers compared with thresholds (`QueryAfter`, `NoIdLimit`, `Validity`,
`Deadline`, `HardExpiry`), in the order the code's seconds have. Merged where nothing can tell: a
query and the poll's write; the age is read with the query; the commission upsert goes with the
order read of `generateForOrder`; the failure notice is queued with the release. The four-second
throttle between queries is a free choice. A resend inside
`initiateStkPush` appears as its last attempt. A prompt is "open" until the buyer's answer has been
processed. The deployment runs one process (`render.yaml`), so the in-process lock is shared by
all. `FlagCommission` assumes that a handler which is still settling is done within the ten
minutes the monitor waits. Left out: receipts and the amount comparison, audit rows, e-mail,
`mockMarkSuccess` (development only), failure of a single statement (restarts between statements are
in).

`StockLedger` extends `Checkout` with what the stock counter owes to the orders (`Due`) and a history
variable, `mishaps`: the writes at which order and counter part (`Strips`, `Doubles`, `Strands`).

### JobPromise, JobQueue, JobQueueProofs

`JobPromise`: work is done only while a job is open, success is recorded only after work, an outcome
is final (unless an admin retries a dead or cancelled job). `JobQueue` has several instances, each
ticking through `RecoverStaleJobs`, `ClaimBatch` and then, job by job, `RunUnhandled` or `RunStart`,
`HandlerReturns` (the effect may or may not have happened when it fails), `RunSucceeds`/`RunFails`.
`Interrupt` is a restart or a failed outcome update and leaves the batch RUNNING. `stale` says that
a job's lock is older than ten minutes; `SlowHandlers` allows that to happen under a live worker.

### ResetPromise, PasswordReset

One account. `IssueRead`/`IssueCommit` is the serializable transaction of `issueCode`: it aborts
when the rows changed since its read. `VerifyFind`, `VerifyClaim` (spend an attempt), `VerifyCount`,
`VerifyLock`, `VerifySet` are the statements of `verifyCode`; `ResetRead`, then after hashing
`ResetConsume`; `Purge`. Expiry is looked at where the code looks at it. Left out: `isActive`,
delivery, sessions, hashing itself.

### TaxLiability, TaxLiabilityProofs

One liability with its PRNs and its remittance. `TransitionRead` and `TransitionWrite` are the two
halves of `transition`: status checked on the row read, then written by id. Around them `Create`,
`Reconcile`, `Approve`, `Reject`, `Attach`, `Verify`, `Initiate…`, `Remit`, `Record`, `Confirm`,
`FinalizePaid`, `FlagStale` and `Interrupt`. Who recorded a payment (`recordedBy`) is on the audit trail only;
the model keeps it with the remittance. The ghost `history` records what spoils a history:
"lost update", "flagged stale", "interrupted". The adapter mode is a free choice at each
`Remit`. Left out: amount, currency, tax head and PIN checks of `attach`, notices, audit;
transitions nothing calls (`DRAFT`, `FAILED`, `CANCELLED` are never reached).

### Money, TaxCalculation, TaxBooks, TaxBooksProofs

`Money` is `money.ts` in integer cents: rounding, percentages, extracting and adding VAT.
`TaxCalculation` is the sale and refund logic line by line and the journal entries of both
posting services; `Sales`, `VatRules` and `Policies` are the inputs its end points let through, for every
number of lines, price and rate. `TaxBooks` stores them: `SaleFind`/`SaleStore`, `RefundFind`/`RefundStore`,
`RollBack`, with the unique keys that make the second of two racing requests fail, and the balance
per account instead of the list of entries. A refund's input repeats lines and amounts of its
sale; the model takes them from the recorded sale with every line listed, as the types ask. Left
out: components, warnings, hashes, the organizer of a journal line, the treatment of the
processor's charge (it has no amount). Outside tests and previews nothing calls these services yet.

### OrganizerVerification, Publication, PublicationProofs

One organizer and one event. The application is a number of edits and two sections
(details, documents); `StartEdit`, `WriteSection`, `WriteDocument` + `TouchProfile`,
`StartSubmit`/`Submit`, `StartReview`, `MarkUnderReview`, `Approve`, `SendBack`. The identity check is
`StartInquiry`/`CreateInquiry`/`StoreInquiry`, `StartRefresh`/`FetchInquiry`/`Refresh`, and
`StartWebhook`/`ApplyWebhook`; `PersonaDecides` is external and keeps the true order of events, from
which webhooks are delivered in any order, any number of times, or never. `Publication` adds the
event: `StartEventRequest` reads and checks, and one of `Update`, `Remove`,
`SubmitForApproval`, `Cancel`, `Publish`, `Reject` writes by id; `SuspendEvent` writes without
reading; `CreateOrder` is the gate an order passes.

Ghosts: `reviewed` and `approved` are the versions an admin's approval was based on; `raced`
collects the kinds of row ("review", "identity", "event") over which a request wrote without
having seen a change. Merged reads: profile and documents of a submission, webhook dedupe and
profile. Left out: `personaInquiryStatus`, audit, file checks, dates, `salesEnabled`, booking
mode, ticket tiers. An existing inquiry that is handed out again changes nothing modelled.
A refresh sets the identity but not the time of the last event, as in the code.

### TaxPeriods, EtimsOutbox

`TaxPeriods` is one month. `FindPeriod`/`CreateDraft` are the find-or-create that drafting, an adjustment
and an aggregation begin with; `SumSales`, `SumRefunds`, `ReadAdjustments`, `WriteFigures` the
aggregation; `ReconcilePeriod`, `CheckInvoices`, `CheckCreditNotes`, `CompareVat` the monthly run;
`FindPrepared`, `MarkReconciled` the mark. Sales, refunds and documents go on between any two of them.
Each sale and refund is worth one unit of VAT. Ghosts: `checked`, what the run behind the mark had
read; `raced`, that figures were written between a comparison and its mark.

`EtimsOutbox` has the `EtimsDocument` rows and the calls about them: `SubmitInvoice`, `SubmitCreditNote`,
`RetryDocument` and `RetryListed` begin one, then `SelectAdapter`, `CreateDocument`, `BlockDocument`,
`SandboxAccepts` or `ProductionRefuses`, and `RecordAnswer` or `CountAttempts` and `BackOff`, each a statement.
`RecordFails` and `EtimsStops` are the faults, `SwitchMode` the administrator. VSCU behaves as
OSCU does. Ghosts: `accepted`, how often an adapter took a document; `disturbed`, documents whose calls
overlapped or lost an answer. Left out: contents, the daily report, the comparison of PRNs and
ledger sums.

### Admission

Each gate has a page: `SelectEvent`, `HandleQrScan`, `TypeCode`, `ManualLookup`, `ConfirmEntry`, `ScanAnother`.
`VerifyTicket` and `VerifyAnswered` are the look-up and its answer; an entry goes through `PerformCheckIn` (the checks
on the row read), `Claim` (the conditional update with its check-in row) and `EntryConfirmed`,
`EntryRefused` or `AnswerLost`; `WorkedOnAfterLoss` is a back end that finished what nobody hears of.
A code is genuine, made up, or typed. `admitted` counts what stewards were told.

### TicketMail

`GenerateForOrder` starts the loop (`LoopSends`, `LoopMarks`); `QueueUndeliveredTicketEmails` is the sweep,
`ClaimMail`, `DeliverTicketEmail`, `TicketEmailMarked`, `TicketEmailSkipped` the job. `MailStopped` is a restart
anywhere. A send that is not answered in time may have been delivered. The job's row is JobQueue's, reduced to
what one job sees.

### Alerts

`RunMonitor` finds anomalies by the rules of one monitor, then raises them one by one: `RaiseReads`, and
`RaiseCreates`, `RaiseBumps` or `RaiseLeaves`. `Decide`/`Decided` are the two halves of an admin's decision,
`AlertMailRead` and `AlertMailSent` the mail of a new alert: the status it checks, and the sends that follow later
awaits. What the rules look at is an input (`found` changes freely).

### SupportDesk

The widget of one browser (`ChatPanel`, `Send`, `ResumeTranscript`, `EscalateForm`, `NewChat`, `AccountChanges`,
`OtherTabChanges`) and the requests it has under way (`ChatContinues`, `ChatOpens`, `FindOwnOrders`, `ChatAnswered`,
`ChatReplied`, `GetConversation`, `CreateTicket…`), the purge, the admins' ticket card. An answer is what it
claims, cites and draws on; the language model may claim anything, and `FindUnsupportedClaims` decides what
passes. Order numbers in a claim are not told apart. `shown` is whose orders the messages on screen draw on,
`misdirected` who sent a message whose reply the account has changed under.

### AiGateway, AiStudio

`AiGateway` is one feature on one day: `Generate` (settings), `GetSettings`, `EnforceLimits`, the call, `Heard`,
`LogUsage`; `Killed` is a stop before the log; `UpdateSettings` the admin. `AiStudio` has the drafts with
their decisions (`Audited` before `DecideDraft` is answered) and four pages: assistant, marketing studio, insights
and operating report, each with what it shows, what it has asked, and what comes back late. Drafts are told apart,
the versions of one draft's text are not. `overtook` is the drafts that took the assistant's screen while the
acceptance of another was under way.

### Booking, PayScreen

`Booking` is tabs of one browser: `SavedCarts` and the token are shared, everything else is a tab's own. Pages are
`OpenEvent`/`AddTier`, `OpenCart` with its three steps (`SetQuantity`, `GoToNextFromTickets`, `UpdateAttendee`,
`ContinueToNumber`, `Back`, `ConfirmLogsIn`, `HandleConfirmNumber`), `Login`, `Logout`, `Reload`. `MayCreate`
is what the order endpoint accepts; `CreateOrder`, `OrderPlaced`, `OrderRefused`, `PostLost` the request.

`PayScreen` is the checkout page and the payment screen. The back end is `PaymentMoves`, a payment seen
from outside; `Status` and `FlowStateFor` translate as the code does; `Boot`, `StartPayment`, `PushAnswered`,
`Adopted`, `PollServed`/`PollHeard`/`PollLost`, `HoldElapses`, `CeilingReached`, `HandleRetry`,
`HandOver` are the handlers.

### AccountPages

The five account pages, the session and `sessionStorage`. Calls under way (`wait`) are of six kinds; a call
whose page was left still writes storage and navigates. `Serve…` are the end points, with `PasswordReset`'s
protocol reduced to which code is live and what it authorises. `Rerender` and `HandOff` are the timers of the
page that reports success.

### RepresentativePage

The guided capture (`AskCamera`, `CapturePose`, `SelfieUploaded`, `ChooseDocument`, `CaptureDocumentSide`, `SideUploaded`,
`Restart`, …) and the embedded Persona check (`OpenIntro`, `StartPersona`, `ClientCompletes`, `PollAnswered`, …); which of the
two is mounted is a configuration. What a picture shows is a free choice.

## 4. Runs

| Run | Shows | Bounds, and why they are enough |
|---|---|---|
| `checkout_races` | no interleaving of Pay, Try Again, sweep, poll and callback breaks `TicketSale`, puts two payments in flight, hides a double charge, or writes a payment off early | 1 order, 2 handlers, 2 payments, 1 restart, ages 0..2. The races are pairwise, over one order; two payments are what a retry needs; the thresholds fall in different ages. Callbacks are confirmed by a query here (`ConfirmCallbacks`), which also allows the outcome a trusted one brings at once; those are explored in `checkout_settles` and `checkout_stock`. 2,442,924 states |
| `checkout_settles` | without any help from callbacks every payment settles, and a recorded success leads to tickets or, after a restart, at least to an alert; only a retry over a late success can leave it with neither | 1 order, 2 handlers, 2 payments and 2 attempts, as a retry needs, 1 restart, ages 0..1. Three things are cut, none of which is fair: refusals (`Declines = {}`; a prompt that is written off makes a payment fail too), sales that stop, and a restart after the second payment. 243,945 states |
| `checkout_stock` | the counter covers every PENDING order, the PAID ones but for a failure claimed under `markPaid`, and counts nothing else but for two writes over a changed status; the buyer's pages place whole orders, once per visit, and the payment screen claims no false success and comes to an end | back end: 2 orders for the last ticket, 2 payments and a retry, 2 handlers, on one order or on two, ages 0..1; no restart, and sales go on (`checkout_races` has both; so has the theorem). Booking: 1 tab with other tabs writing the shared storage at any time, 2 events, one tier of two tickets and one of one, so that an order may need holders. Screen: 1 window, 2 payments, as a retry needs. 1,106,751 states |
| `checkout_oversell`, `checkout_reopened`, `checkout_two_prompts` | the three divergences of section 7 | the smallest instance with the counterexample |
| `timers` | `JobPromise`, one runner, every job ends; every ticket's mail ends; a finished reset hands over | jobs: 2 (one without handler), 2 instances, 2 attempts, 2 interruptions, 1 retry: an instance can be interrupted, and its rescuer too. Mail: 2 tickets, 2 tries, 1 restart. Account: 1 tab, 2 codes, one call under way, a hand-off time of 2 ticks so that a re-render falls inside it. 163,486 states |
| `desks` | password reset limits and `ResetPromise`; a ticket admits once; decisions on alerts stand; support tells the truth; AI limits; advice in its place; the identity page reports what is stored | reset: 2 requests, 3 codes, 2 tries, 2 codes an hour, clock 0..3: a code can expire and an hour pass. Gate: 2 scanners at one ticket, and 1 scanner at two tickets of two events. Alerts: 1 key, 2 runs, 2 admins: all that can meet over a row. Support: 2 readers in one chat, 1 reader with a ticket. Gateway: 2 callers, limits of 1 or 2 changed under them. Studio: 2 drafts, 2 events, 2 periods. 942,317 states |
| `tax_liability` | paid once, by two persons; stages earned; a RECONCILED period is what was checked; documents delivered once | liability: 2 requests, 2 users, 1 PRN, all modes; finite without bounds. Period: 1 sale, 1 adjustment, 2 requests. Documents: an invoice and its credit note, 2 finance users and the job, 2 attempts, 1 mode change, 1 fault. 1,707,014 states |
| `tax_books` | books agree with calculations; full refunds exact and accepted; prorated refunds add up | 2 orders from 6 kinds of sale (inclusive, exclusive, unregistered, principal, free, unposted), 2 rule versions with both rounding modes, 3 policies, 2 refunds. Prices are odd numbers of cents, so that roundings do not come out even. 161,133 states |
| `tax_refund_ledger` | the refund's entries credit what they should debit | 1 sale |
| `publication` | nothing sold without identity; verified and published as reviewed; late webhooks undo nothing | 2 requests, 2 edits, 1 inquiry, 2 decisions, 2 versions; the details filled in already. The constraint `Narrow` keeps one kind of crossing per history and, once an event exists, lets event requests meet only each other: an event request reads `isVerified` in one step and writes only the event, so the two halves meet through complete steps. 2,703,155 states |

Four runs are *sums*: `checkout_stock` (`MCStock`), `timers` (`MCTimers`), `desks` (`MCDesks`) and
`tax_liability` (`MCTaxLiability`) explore components that share no state side by side; a variable `part`, chosen
initially, says which one moves. A behaviour of such components together is an interleaving of theirs, and
each property speaks of one of them only, so it holds of the composition when it holds of the part; the sum
visits each part's states once instead of their product. Where components do share state they are one module
(`Publication` over `OrganizerVerification`, `TaxBooks` over `TaxCalculation`) or one models of the other
what it sees (`PayScreen` and `Booking` of the back end, `TicketMail` of the queue, `AccountPages` of
`PasswordReset`).

`CHECK_DEADLOCK FALSE` wherever it appears: a system in which nobody acts any more may stop, and ids
are finite. Symmetry is used over handlers, users, orders, requests and refunds only in runs without
liveness.

Type invariants are stated in every module. `desks` checks those of its parts. They are proved of
`Checkout`, `JobQueue`, the tax modules, `Publication`, `Booking`, `PayScreen` and every part of `desks`; those of
`TicketMail` and `AccountPages` document the variables.

Every property of a passing run has a mutant, next to the definition it changes and marked
`Mutant`, that a plausible slip in the code would amount to and that TLC refutes.

What some properties leave out, and why:

* `DoubleChargeAlerted` excuses a restart between recording a second success and raising the alert.
* `SuccessGetsTickets` accepts an alert instead of tickets after a restart: a payment can be
  SUCCESS with its order PENDING, and only COMMISSION_MISSING reports that. It says nothing of an order
  whose PAID a retry overwrites (`OverwritesPaid`, the write that `checkout_reopened` exhibits): there the
  success can be left with neither tickets nor alert, without any restart. The order is PENDING again,
  `generateForOrder` refuses it, the recovery looks at PAID orders, and its commission is on record, so nothing is flagged.
* `StockAccounted` holds of every interleaving, and says where the counter parts from the orders: (a) `markPaid` reads
  the order PENDING (`orders.service.ts:234`), `markFailed` claims it and its stock goes back, the order ends
  PAID with none; (b) `markPaid` or `reopenForRetry` takes stock for an order it read FAILED, which by its write
  is PENDING or PAID and holds it already; (c) a restart between a statement that moves the stock and the one that moves the order.
  What no interleaving does is release twice, or release the stock of an order that stays PENDING.
* `TwoPersonPayment` compares the confirmer with the initiator, as the code does, not with the recorder (section 7).
* `StageEarned` and `ConfirmedSettles` are conditional on `history`, and `VerifiedAsReviewed`,
  `PublishedAsReviewed` and `IdentitySettles` on `raced`: the code has no lock or
  version on these rows, and a request that read them before another wrote them does overwrite.
  A publish that read PENDING_APPROVAL publishes an event that was edited or cancelled
  meanwhile; a late `markUnderReview` leaves an organizer UNDER_REVIEW and verified; an upload
  begun before the approval changes a verified application. Section 7 quotes what the repository
  says.
* `IdentitySettles` speaks of histories whose last Persona event is a verdict. A later event of
  another kind can overtake the approval, which is then skipped as old; until the organizer asks for a
  refresh nothing corrects that, since the hourly sync passes over inquiries with a final status.
* `BooksAgree` is about agent sales before any refund. The posting of principal sales is not
  implemented in the code, although not refused. `FullRefundExact` and `WholeRefundPosts` except fees
  priced without VAT, whose gross is split as if it were net: the residual is negative, `postEntry`
  throws and such a refund cannot be stored.
* `OneRunner` and the other promises of the queue assume batches shorter than ten minutes.
* `ReconciledAsChecked` excuses an aggregation written between a run's comparison and its mark: nothing
  compares the new figures. It says nothing of adjustments, which no run compares.
* `OutboxDelivers` excuses documents with overlapping calls or a lost answer; such a document can be
  transmitted twice, and a late failure can overwrite a recorded answer. PENDING_CONFIGURATION is not
  "waiting": nothing retries it by itself after the mode is switched on.
* `LimitsHold` allows for the requests under way and for calls the log never heard of: the gateway
  counts before the call and logs after it.
* `DecisionsStand` lets a decision overwrite a decision begun before it ended: of two admins, the slower
  ACKNOWLEDGED may undo a RESOLVED. An alert decided after its mail job has read it is mailed all the same.
* `ToldTheTruth` excepts, from what is on screen, the reply to a message that was under way when the account changed,
  or that went out with the bearer of another tab: it is appended to the chat of whoever is signed in by then.
* `OneOrderPerVisit` is about one visit of the booking page: after a lost answer, a reload or leaving it
  while the request is under way, the same selection can be reserved again.
* `ScreenEnds` excepts a buyer who reloads for ever, which starts the attempt over.
* `TicketMailed` allows duplicates, and a DEAD job, which an admin sees.
* `AdviceInPlace` excepts a draft that takes the screen while the acceptance of another is under way
  (`overtook`): the panel takes over the draft on screen when the answer comes. It is not about the marketing
  page, which shows an answer under the event chosen since.

## 5. Fairness

`Checkout!Fairness`, used by `checkout_settles`: a handler that has started goes on (weak fairness on
its statements: the event loop runs every continuation), a query is not throttled forever
(strong fairness on `Query`; what it answers is free), time passes (weak on `Tick`), the
sweep that runs every 30 seconds comes to each PENDING payment (strong on `ReconcileStart`), and the
monitor to each order (`RecoverStart`, `FlagCommission`). Nothing is assumed of
buyers, Safaricom's callbacks or their answers: the payment settles even if Daraja never knows.

`timers` asks the same of the job queue as `JobQueue!FairSpec`: each instance's cron ticks (weak
fairness on `Tick`), a backoff ends (`BecomesDue`) and a lock gets old (`BecomesStale`). `MailFairness`: the
sweep is a cron job, and the loop and the worker run on until the process stops; the provider may
fail each time. `AccountFairness`: the timers of a page that stays open fire (weak on `Rerender`, once a second,
and on `HandOff`); nothing is assumed of answers or of the reader.

`PayFairness`, used by `checkout_stock`: a request is answered or breaks, what the screen has heard is drawn, and
the poll ceiling fires. Nothing is assumed of polls, of the payment or of the buyer.

## 6. Proofs

All theorems hold for every value of the constants under the assumptions named in the modules
(`CheckoutAssumption` and its like). These say no more than that counts are natural numbers, null values
are distinct, flags are booleans, each ticket has an event and each credit note an invoice; that the
retention of reset codes covers the hour in which they are counted (`PasswordResetAssumption`: 24 hours
in the code); that the callers of the AI gateway and the tiers of a sale are finitely many; and that
sales, rules and refunds are inputs that the end points validate (`TaxBooksAssumption`). A theorem that
needs more says so in its `ASSUME`.

Every invariant and every action property of a passing run is proved, and the three refinements.

**CheckoutProofs.** `TypeOK` is not inductive: a handler writes rows from what it carries. `IInv` adds
`RowsInv` (rows up to `made` exist, a SUCCESS has a paid prompt), `PaidInv` and `TicketsInv` (a PAID
order and issued tickets have a successful payment behind them) and `WorkersInv`: what a handler is
about to write it is entitled to (`HoldsRow`: the payment it carries is of its order; `HoldsWord`: a
result it carries is Safaricom's; `OwnsPush`: a push under way is its own). From it: `TypeCorrect`, and
`Refinement`: `Checkout` implements `TicketSale`. `OneInFlight` adds `PInv`: initiations of an order
hold its lock alone (`LockInv`) and know, at each statement, that no other payment is pending
(`InitiationInv`). `TwiceChargedTold` turns the property of an order into one of two rows (`AlertInv`):
the handler that recorded the later of two successes has yet to look for the other, or has raised the
alert. `NotWrittenOffEarly` adds `GroundsInv`, the reason a handler has for the failure it is about to
write; it assumes that deadline and hard expiry are no shorter than the validity (`deadlineOf` adds 30 s
to it; the hard expiry is 900 s unless configured, the validity 90 s). `StockAgrees` is about every behaviour of `LedgerSpec` and assumes only that
orders and handlers are finitely many: the counter is compared with a sum over all orders and all handlers, and each
statement that moves an order, a handler or the counter changes one term of each (`LedgerInv`, which adds to
`StockAccounted` that a handler's order exists unless it is about to create it, alone).

**JobQueueProofs.** `IInv` = types, `HandlingInv` (what an instance handles is in its batch, has been
done once it gets to record so, and an idle instance holds nothing), `OneRunner`, `HeldInv` (a held job
is RUNNING with the attempts it was claimed with, and not stale) and `BudgetInv` (attempts are covered
by the limit and the interruptions). `TypeCorrect` needs no assumption; `OneRunnerAtATime`, `Budget` and
`Refinement` assume `~SlowHandlers`.

**TaxLiabilityProofs.** `IInv` = types with `HandlersSane`, `PayInv` (at most one request is between
creating the remittance and asking the adapter, and only if nobody asked yet) and `ConfirmInv` (a
request about to confirm is not the initiator's, and confirms a recording). From it `PaidAtMostOnce` and `FourEyes`. `WInv` is
what `StageEarned` and `ConfirmedSettles` need: `ErrandInv` (a request on its way to a stage has, or
knows of, what earns it), `EarnInv` (nothing goes back on a payment recorded as made unless an update is
lost) and `SettleInv` (in a history without lost update, stale flag or interruption, what each request
has read is still so where it matters, and a PAID remittance has a settled liability or a request about
to settle it). From it `StagesAreEarned` and `ConfirmationSettles`.

**SumTheorems.** The sums of the models are folds over finite sets, taken in an order `CHOOSE` fixes. By
well-founded induction on the subsets of a finite set the value does not depend on it; hence what one
more element adds, that sums are linear and bounded term by term, and that rows and columns of a finite
table may be added up in either order (`SumsSwap`).

**TaxBooksProofs.** *Arithmetic*: `Rounded` (error below one unit, at most half when rounding half up),
`ShareBounded` (a share of at most 100 % lies between zero and the amount), `SplitBalances` (net plus
VAT is gross, none negative). *Rows*: `RowsStay` (immutability) directly from the actions; `RefundExact`
from `RowsInv`: a stored refund belongs to a stored sale and was calculated with that sale's rules.
*Sums*: `BooksBalance` from `BooksInv`, which says for each account that its balance is the sum, over
the posted sales, of what the lines of their entries come to (`SaleAdds`, line by line through
`EntryAdds`); the calculation's figures then add up to the same, account by account. `LedgerBalances`:
every posting `postEntry` accepts adds nothing to the ledger as a whole, its lines by account and by
entry being one table, so `TrialBalance` holds of all sales and refunds, those included for which
`BooksAgree` promises nothing. `WholeRefundGoes`: with fees that include VAT the split of a full refund
leaves no residual, and what is returned of fee and commission lies within what was charged, so that
neither the constraints nor the balance check refuse the entry. `ProratedRefundsAddUp`: each prorated
refund is off by at most half a cent and half a basis point (`ProratedFee`); the listed prices of
refunds that return every ticket add up to that of the sale, tickets by refund and by line being one
table (`ListedAddsUp`); so the errors add up to no more than their number (`RefundsInv`: the refunds of
a sale are finitely many and of tickets it sold).

*Filing*: `ReconciledSound`: `RunInv` says what a run has made sure of at each of its statements
(documents are never withdrawn, so it stays true while the books go on) and that between its comparison
and its mark the figures are the compared ones or an aggregation has raced it. `OutboxSound`:
`DocumentInv` says of an undisturbed document that at most one call is about it, that this call has
transmitted nothing before it comes to record, and that a transmitted document says so or is about to;
and of every document that waits that it has attempts left. Both properties are far from inductive
alone: they are about rows, and the proof is about calls. They are proved of `PeriodsSpec` and
`EtimsSpec`, which are the parts of `FinanceSpec`.

**PublicationProofs.** `TypeCorrect` from types and `RefsInv` (a handler refers to inquiries and
decisions that exist). `NoSaleWithoutIdentity` from `EntitledInv`: an identity, a status in review or
verified, an event waiting for approval, published or ordered, and every handler about to write one of
these each imply that Persona approved an inquiry at some time, which is never undone. The property
alone is not inductive: the status passes through handlers, and an application through the review,
before anything is sold.

`OnlyApprovedIsPublished`: `PublishedAsReviewed` is inductive once types hold, because its condition
`raced` is recorded at the very write that would break it. `ReviewedIsVerified` adds `ReviewInv`: only a
submitted application is marked as under review, and a document is uploaded only to one that could be
edited. `LastDecisionStands` needs most: while no two writes of the identity check have crossed
(`CalmInv`), the organizer has answered the inquiry of the profile only, `lastEvent` is the newest
decision processed, and what each handler has read or fetched is no newer than that and as new as it
says.

**DesksProofs.** One part per desk, each with its types. `OneVisitorPerTicket`: `SpentOnce`, the tickets
with a check-in are those that are USED, whoever is let in or about to be came with one of them, and
nobody else comes with the same. `ReportedIsDone`: pictures in their order, and an approval is never
taken back. `DecisionsAreFinal` (action property) from the types and the actions: of all writes to an
alert that overlap, only that of a decision changes one that is settled, and no write is begun on one that is
closed. `AdviceKeepsItsPlace`: an acceptance is on record before it is answered (`OnRecord`), the draft on screen is the
one whose acceptance is under way unless it overtook it (`FormInv`), and a page shows or awaits what it asked
about (`OnTopic`). `OnlyTheTruth`: `ShownInv`, the sender of a chat request under way is the reader or misdirected; `CallInv`, a request carries a token or a name and never both, its
conversation is its sender's, and an answer under way is true at the moment it is composed and not
untrue afterwards, since orders stay paid. `LimitsArePassedByFew`: every call the provider got is in the
log, lost with its process, or still at the provider (`Accounted`), so that rows exceed a limit by no
more than the callers who had passed it. `AttemptsNeverPass` and `ResetKeepsPromise` from `ResetInv` (a
handler works on a row that was created, one about to change the password on a row that is verified or
purged; rows not created yet are empty; at most one is open): the open row is `ResetPromise`'s `live`,
so each write maps to `Issue`, `Authorise`, `Withdraw`, `Change` or a stutter. `RateNeverPassed` from
`RateInv`: a request that is about to commit has counted every code of the hour that could count against
it, or its transaction aborts; the purge spares the hour. `DesksStandApart`: a behaviour of the sum
`DesksSpec` is one of each desk, the argument of section 4 for sums; hence `DesksTyped`.

**BuyerProofs.** `SuccessIsReal`: an answer under way, the cache and the screen speak of a success only
if there has been one (`PayInv`). `OrdersAreComplete`, `ReservedOnce`: every request under way is a
complete order, and at most one is from the mounted page, none unless it waits (`TabInv`).

Proved but not a property of a run: the type invariants named in section 4 except those of `desks`, the
arithmetic of `Money`, `TrialBalance` and the bounded attempts of jobs (`Budget`).

Only model-checked: everything under fairness, which is beyond the prover (`EveryPaymentSettles`,
`SuccessGetsTickets`, `EveryJobEnds`, `TicketMailed`, `HandsOver`, `ScreenEnds`), and the
counterexamples of section 7.

## 7. Where code and documents disagree

With a run and a counterexample:

* **Oversell** (`checkout_oversell`): `orders.service.ts:103` reserves "so concurrent buyers cannot
  oversell", but availability (75-78) and increment (105-108) are two statements of a READ
  COMMITTED transaction without condition or lock.
* **A paid order reopened** (`checkout_reopened`): `reopenForRetry` checks a row it read earlier (192)
  and sets PENDING unconditionally (203), over a PAID written in between. If the second payment then
  fails, the first success has neither tickets nor alert (section 4, `SuccessGetsTickets`).
* **Two payable prompts** (`checkout_two_prompts`): the repository's README (162-163) says a fresh prompt
  is sent only once the previous one can no longer be paid; a push whose answer is lost is marked
  FAILED at once (`payments.service.ts:193`) while it can still be paid.
* **Refund entries** (`tax_refund_ledger`): documented as reversing entries; they credit the
  organizer, the fee revenue and the VAT account a second time
  (`post-refund-ledger-entries.service.ts:51-67`).

Seen while modelling, without a run of their own:

* A late success is to take the stock back that the write-off released (`orders.service.ts:230-235`); when it reads
  the order before the write-off reaches it, the order ends PAID and its stock released (section 4, `StockAccounted`).
* `prn-based-payment.adapter.ts:36-37` says "the user recording the evidence (maker) and the user confirming
  it (checker) must differ". `confirmBySecondApprover` compares the confirmer with the initiator only (139-143), and
  nothing stores who recorded: one user may record a payment that another initiated, and confirm it.
* An admin's decision is written over whatever another has decided (`operational-alerts.service.ts`, `decide`), and an
  alert decided between the status check of its mail job and the sends (`automation-handlers.service.ts:119-134`) is
  still mailed as new.
* A chat answer that comes after another user has signed in is shown to that user (`SupportChat.tsx:101-113`).
* The assistant's panel takes the draft on screen into the form when an acceptance is answered, which need not be the
  accepted one if another was generated meanwhile (`EventAssistantPanel.tsx:94-97`).
* A payment confirmed more than six hours after it was initiated: the job has moved the liability
  to REQUIRES_REVIEW, confirmation makes the remittance PAID, and `finalizePaid` then asks for a
  transition the state machine refuses (`tax-liability.types.ts:38`); nothing settles it
  later (`backend/docs/ticketflow-tax-payment-runbook.md:82-84`).
* `tax-liability.types.ts:17-20` calls the state machine strict; concurrent transitions can leave it.
* "Two instances never run the same job at once" (`automation-queue.service.ts:31-32`) fails for a batch that
  runs longer than ten minutes (121-123).
* "Editing a published event sends it back for re-approval" (`events.service.ts:241`) and "Verified
  legal details are locked" (`organizers.service.ts:39`) hold only for requests that do not cross, see section 4.
* `payments.service.ts:73` says an order can never hold its stock forever; an order never paid for does.
* `backend/docs/ticketflow-etims-integration.md:32` says an outbox document is never resubmitted once taken;
  two overlapping calls do transmit it twice, since each writes by id whatever the other recorded
  (`etims-document.service.ts:209-233`).
* A credit note asks only that an invoice *document* exists, though its message says "submitted"
  (`etims.controller.ts:105-112`).
* `TaxPeriodStatus` has a CLOSED that nothing writes; aggregating again turns RECONCILED back into PREPARED.
* Reloading the payment page of a paid order shows FAILED for a moment; after a FAILED, a refresh pushes a new
  prompt; TIMEOUT is shown while the payment may still succeed.
* A selfie whose upload failed keeps its frames, and every later attempt then fails to combine them
  (`frontend/components/LinkedInStyleIdentityCapture.tsx:463`). A script that failed to load leaves
  Persona "launching" (`PersonaIdentityVerification.tsx:91-95`).
* The ticket page links to its PDF without the bearer token the end point asks for
  (`frontend/app/tickets/[id]/page.tsx:80`).
* A steward whose answer was lost, or whose audit entry failed, retries and is told "already used"
  although nobody was let in (`checkins.service.ts:103`).
* A ticket-mail job that runs while e-mail is not configured ends SUCCEEDED and blocks later mail.
* The process may stop between creating an alert and queueing its mail
  (`operational-alerts.service.ts:82`); the monitors' "running" flag does not see an admin's "Run"
  (`automation-admin.controller.ts:74`).
* Two requests may each open a support ticket for one conversation (`support.service.ts:413-428`); a paid
  order lets a claim of payment about another, unpaid one pass.
* A late answer of the marketing page appears under the event chosen since
  (`frontend/app/organizer/marketing/page.tsx:51`).
* Tokens carry whole seconds: one issued in the second of a password change is refused or accepted by
  rounding (`jwt.strategy.ts:40-48`). Registering is several statements without a transaction
  (`auth.service.ts:34-52`).
* The tax documents say that an eTIMS credit note is required for TicketFlow's own amounts only; the code
  asks for one on any refunded amount.
* Refunds of one sale are unrelated to each other: two of them may each return all of it.

## 8. What is not modelled

* *Pure I/O and CRUD*: the texts of e-mails, audit log, categories, users, health, dashboards, analytics and
  discovery, seeds, and pages that only show what a request answered.
* *Not yet*: rule versions of the tax engine as they are edited; reminders; ticket tiers of an event beyond the
  one `Checkout` sells; PRN and ledger comparisons of the reconciliation.
* *Time*: the real clocks of browsers and servers are order and thresholds only.
* *Abstracted*: wording, formatting, hashing, signatures, tokens, and amounts outside the tax
  modules.
* *Database*: statements are atomic and do not fail by themselves; what is modelled is what happens
  between them.
