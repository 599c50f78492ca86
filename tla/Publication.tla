---------------------------- MODULE Publication ----------------------------
(***************************************************************************)
(* An event of one organizer from its draft to its first order: the review *)
(* of events.service.ts and the suspension of admin.service.ts beside      *)
(* OrganizerVerification, with which it shares the requests in flight and  *)
(* the organizer's isVerified.                                             *)
(***************************************************************************)
EXTENDS OrganizerVerification

CONSTANT
  MaxVersions        \* bound: versions of the event

ASSUME PublicationAssumption == MaxVersions \in Nat \ {0}

VARIABLES
  event,    \* the Event row
  basis,    \* the event as each handler read it
  approved  \* the version of the event an admin last approved

eventVars == <<event, approved>>
vars == <<profileVars, eventVars, basis, pc, ctx, raced>>

\* "NONE" before the event exists, "DELETED" afterwards.  Nothing sets COMPLETED.
EventStatuses == {"NONE", "DRAFT", "PENDING_APPROVAL", "PUBLISHED", "REJECTED", "CANCELLED",
                  "DELETED"}

\* content: the number of the version; ordered: an order refers to the event.
EventRow == [status : EventStatuses, content : 0..MaxVersions, ordered : BOOLEAN]
NoEvent == [status |-> "NONE", content |-> 0, ordered |-> FALSE]

EventLabels == {"updateEvent", "removeEvent", "submitEvent", "cancelEvent", "publish", "reject"}

Init ==
  /\ ProfileInit
  /\ event = NoEvent
  /\ basis = [h \in Handlers |-> NoEvent]
  /\ approved = 0
  /\ pc = [h \in Handlers |-> "idle"]
  /\ ctx = [h \in Handlers |-> NoContext]
  /\ raced = {}

-----------------------------------------------------------------------------
CreateEvent ==
  /\ event.status = "NONE"
  /\ event' = [NoEvent EXCEPT !.status = "DRAFT", !.content = 1]
  /\ UNCHANGED <<profileVars, approved, basis, pc, ctx, raced>>

Exists == event.status \notin {"NONE", "DELETED"}

MaySubmit == profile.isVerified /\ event.status \in {"DRAFT", "REJECTED"}
MayPublish == profile.isVerified /\ event.status = "PENDING_APPROVAL"

\* What each request checks on the rows it reads.
Admitted(label) ==
  CASE label = "updateEvent" -> event.status # "CANCELLED"
    [] label = "removeEvent" -> event.status # "PUBLISHED"
    [] label = "submitEvent" -> MaySubmit
    [] label = "cancelEvent" -> TRUE
    [] label = "publish" -> MayPublish
    [] label = "reject" -> event.status = "PENDING_APPROVAL"

StartEventRequest(h, label) ==
  /\ Exists
  /\ Admitted(label)
  /\ pc[h] = "idle"
  /\ pc' = [pc EXCEPT ![h] = label]
  /\ basis' = [basis EXCEPT ![h] = event]
  /\ UNCHANGED <<profileVars, eventVars, ctx, raced>>

\* Every request ends in one write by id, which fails when the row is gone.
WriteEvent(h, row) ==
  /\ Exists
  /\ event' = row
  /\ Note("event", event # basis[h])
  /\ pc' = [pc EXCEPT ![h] = "idle"]
  /\ basis' = [basis EXCEPT ![h] = NoEvent]
  /\ UNCHANGED <<profileVars, ctx>>

\* Mutant: an edited event stays published.
KeepsStatus(read) == read.status

\* Editing a published event sends it back for approval; otherwise the status is
\* not written.
StatusAfterUpdate(read) == IF read.status = "PUBLISHED" THEN "PENDING_APPROVAL" ELSE event.status

Update(h) ==
  /\ pc[h] = "updateEvent"
  /\ event.content < MaxVersions
  /\ WriteEvent(h, [event EXCEPT !.content = @ + 1, !.status = StatusAfterUpdate(basis[h])])
  /\ UNCHANGED approved

\* An event that has orders is kept by its foreign key.
Remove(h) ==
  /\ pc[h] = "removeEvent"
  /\ ~event.ordered
  /\ WriteEvent(h, [NoEvent EXCEPT !.status = "DELETED"])
  /\ UNCHANGED approved

SubmitForApproval(h) ==
  /\ pc[h] = "submitEvent"
  /\ WriteEvent(h, [event EXCEPT !.status = "PENDING_APPROVAL"])
  /\ UNCHANGED approved

Cancel(h) ==
  /\ pc[h] = "cancelEvent"
  /\ WriteEvent(h, [event EXCEPT !.status = "CANCELLED"])
  /\ UNCHANGED approved

\* What is approved is the version that was read.
Publish(h) ==
  /\ pc[h] = "publish"
  /\ WriteEvent(h, [event EXCEPT !.status = "PUBLISHED"])
  /\ approved' = basis[h].content

Reject(h) ==
  /\ pc[h] = "reject"
  /\ WriteEvent(h, [event EXCEPT !.status = "REJECTED"])
  /\ UNCHANGED approved

\* A request whose write fails: the row is gone, or has orders.
EventRequestLost(h) ==
  /\ pc[h] \in EventLabels
  /\ Exists => pc[h] = "removeEvent" /\ event.ordered
  /\ pc' = [pc EXCEPT ![h] = "idle"]
  /\ basis' = [basis EXCEPT ![h] = NoEvent]
  /\ UNCHANGED <<profileVars, eventVars, ctx, raced>>

\* An admin's suspension reads nothing.
SuspendEvent ==
  /\ Exists
  /\ event' = [event EXCEPT !.status = "CANCELLED"]
  /\ UNCHANGED <<profileVars, approved, basis, pc, ctx, raced>>

\* The part of OrdersService.create that looks at the event and its organizer.
OnSale == event.status = "PUBLISHED" /\ profile.isVerified
CreateOrder ==
  /\ OnSale
  /\ event' = [event EXCEPT !.ordered = TRUE]
  /\ UNCHANGED <<profileVars, approved, basis, pc, ctx, raced>>

EventNext ==
  \/ CreateEvent \/ SuspendEvent \/ CreateOrder
  \/ \E h \in Handlers :
       \/ \E label \in EventLabels : StartEventRequest(h, label)
       \/ Update(h) \/ Remove(h) \/ SubmitForApproval(h)
       \/ Cancel(h) \/ Publish(h) \/ Reject(h)
       \/ EventRequestLost(h)

Next ==
  \/ ProfileNext /\ UNCHANGED <<eventVars, basis>>
  \/ EventNext

Spec == Init /\ [][Next]_vars

-----------------------------------------------------------------------------
(* Properties *)

\* Type invariant.
TypeOK ==
  /\ profile \in Profile
  /\ inquiries \in 0..MaxInquiries
  /\ known \subseteq 1..inquiries
  /\ decisions \in Seq(Decision)
  /\ processed \subseteq DOMAIN decisions
  /\ reviewed \in 0..MaxEdits
  /\ pc \in [Handlers -> {"idle"} \union ProfileLabels \union EventLabels]
  /\ ctx \in [Handlers -> ProfileContext]
  /\ raced \subseteq {"review", "identity", "event"}
  /\ event \in EventRow
  /\ basis \in [Handlers -> EventRow]
  /\ approved \in 0..MaxVersions

Evidence == \E d \in DOMAIN decisions : decisions[d].approved

\* Whatever requests and webhooks race, nothing is verified, published or sold for an
\* organizer of whose representative Persona has never approved an inquiry
\* (organizers.service.ts: submitVerification, and the gates of publish and orders).
SoldNeedsIdentity ==
  PersonaConfigured /\ (profile.isVerified \/ event.status = "PUBLISHED" \/ event.ordered)
    => Evidence

\* As long as no request has written over a change of the application it had not seen,
\* a verified organizer is one whose application stands as the admin approved it
\* ("Verified legal details are locked", organizers.service.ts:39).
VerifiedAsReviewed ==
  "review" \notin raced /\ profile.isVerified
    => profile.status = "VERIFIED" /\ profile.content = reviewed

\* As long as no request has written over a change of the event it had not seen, what is
\* published is the version an admin approved (events.service.ts:241).
PublishedAsReviewed ==
  "event" \notin raced /\ event.status = "PUBLISHED" => event.content = approved

\* Once every webhook has come, in whatever order and however often, and no two writes
\* of the identity check have crossed, the identity is what Persona last decided: a late
\* webhook never undoes a newer one.
IdentitySettles ==
  LET last == Len(decisions) IN
  ("identity" \notin raced /\ last > 0 /\ processed = DOMAIN decisions
     /\ decisions[last].name # "other")
    => profile.identity = decisions[last].approved

=============================================================================
