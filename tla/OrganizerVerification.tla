----------------------- MODULE OrganizerVerification -----------------------
(***************************************************************************)
(* How an organizer becomes entitled to sell: the application and its      *)
(* review (organizers.service.ts) and the identity check at Persona        *)
(* (persona-identity.service.ts), for one organizer.  A request reads the  *)
(* profile, decides, and later writes it by id; requests interleave        *)
(* between their statements, and Persona's webhooks come late, twice, out  *)
(* of order or not at all.                                                 *)
(***************************************************************************)
EXTENDS Integers, Sequences

CONSTANTS
  Handlers,          \* requests that may be in flight at the same time
  PersonaConfigured, \* the PERSONA_ keys are set
  AlreadyFilled,     \* sections of the application filled in before the model starts
  MaxEdits,          \* bound: edits of the application
  MaxInquiries,      \* bound: inquiries opened at Persona
  MaxDecisions       \* bound: events at Persona

ASSUME OrganizerAssumption ==
  /\ PersonaConfigured \in BOOLEAN
  /\ AlreadyFilled \subseteq {"details", "documents"}
  /\ MaxEdits \in Nat /\ MaxInquiries \in Nat /\ MaxDecisions \in Nat

VARIABLES
  profile,   \* the OrganizerProfile row and its documents
  inquiries, \* inquiries opened at Persona so far: they are 1..inquiries
  known,     \* those whose id the organizer has been given
  decisions, \* what happened to them at Persona, in order
  processed, \* decisions with a PersonaWebhookEvent row
  reviewed,  \* the edit of the application last approved
  pc, ctx,   \* what each handler does next, and its local variables
  raced      \* what was overwritten by a request that had not seen it

persona == <<inquiries, known, decisions>>
profileVars == <<profile, persona, processed, reviewed>>

Statuses == {"NOT_STARTED", "IN_PROGRESS", "SUBMITTED", "UNDER_REVIEW", "CHANGES_REQUIRED",
             "VERIFIED", "REJECTED"}
Editable == {"NOT_STARTED", "IN_PROGRESS", "CHANGES_REQUIRED", "REJECTED"}
Sections == {"details", "documents"}

\* content: the number of the edit the application is at; filled: its sections with data.
Profile == [status : Statuses, isVerified : BOOLEAN, content : 0..MaxEdits,
            filled : SUBSET Sections, inquiry : 0..MaxInquiries, identity : BOOLEAN,
            lastEvent : 0..MaxDecisions]
NewProfile == [status |-> "NOT_STARTED", isVerified |-> FALSE, content |-> 0, filled |-> {},
               inquiry |-> 0, identity |-> FALSE, lastEvent |-> 0]
Registered == IF AlreadyFilled = {} THEN NewProfile
              ELSE [NewProfile EXCEPT !.status = "IN_PROGRESS", !.filled = AlreadyFilled]

\* An event at Persona: what it is called, and whether the inquiry is approved then.
Verdicts == {"approved", "declined", "other"}
Decision == [inquiry : 1..MaxInquiries, name : Verdicts, approved : BOOLEAN]

\* The columns that the review, and those that the identity check, decides on.
Case(row) == [NewProfile EXCEPT !.status = row.status, !.isVerified = row.isVerified,
                                !.content = row.content]
Identity(row) == [NewProfile EXCEPT !.inquiry = row.inquiry, !.identity = row.identity,
                                    !.lastEvent = row.lastEvent]

ProfileLabels == {"edit", "upload", "touch", "submit", "mark", "approve", "inquiry", "store",
                  "webhook", "fetch", "refresh"}

\* seen: the columns the request decides on, as read; ref: the inquiry or decision worked
\* on; approved: the state of the inquiry as fetched.
ProfileContext == [seen : Profile, ref : 0..MaxDecisions + MaxInquiries, approved : BOOLEAN]
NoContext == [seen |-> NewProfile, ref |-> 0, approved |-> FALSE]

ProfileInit ==
  /\ profile = Registered
  /\ inquiries = 0 /\ known = {} /\ decisions = <<>>
  /\ processed = {}
  /\ reviewed = 0

Begin(h, label, seen) == /\ pc[h] = "idle"
                         /\ pc' = [pc EXCEPT ![h] = label]
                         /\ ctx' = [ctx EXCEPT ![h].seen = seen]
Finish(h) == /\ pc' = [pc EXCEPT ![h] = "idle"]
             /\ ctx' = [ctx EXCEPT ![h] = NoContext]

Note(what, happened) == raced' = raced \union (IF happened THEN {what} ELSE {})

-----------------------------------------------------------------------------
(* organizers.service.ts *)

\* Mutant: a verified application can still be edited.
EditableOrVerified(status) == status \in Editable \union {"VERIFIED"}

AssertEditable(status) == status \in Editable

\* Sections of the application and uploads of its documents begin alike.
StartEdit(h, label) ==
  /\ AssertEditable(profile.status)
  /\ label \in {"edit", "upload"}
  /\ Begin(h, label, Case(profile))
  /\ UNCHANGED <<profileVars, raced>>

NextEdit(row, section) == [row EXCEPT !.content = @ + 1, !.filled = @ \union {section}]

InProgress(row) == [row EXCEPT !.status = "IN_PROGRESS", !.isVerified = FALSE]

\* updateVerification: data and status in one statement.
WriteSection(h) ==
  /\ pc[h] = "edit"
  /\ profile.content < MaxEdits
  /\ profile' = InProgress(NextEdit(profile, "details"))
  /\ Note("review", Case(profile) # ctx[h].seen)
  /\ Finish(h)
  /\ UNCHANGED <<persona, processed, reviewed>>

\* uploadVerificationDocument: the document, then the profile.
WriteDocument(h) ==
  /\ pc[h] = "upload"
  /\ profile.content < MaxEdits
  /\ profile' = NextEdit(profile, "documents")
  /\ Note("review", Case(profile) # ctx[h].seen)
  /\ pc' = [pc EXCEPT ![h] = "touch"]
  /\ ctx' = [ctx EXCEPT ![h].seen = Case(profile')]
  /\ UNCHANGED <<persona, processed, reviewed>>

TouchProfile(h) ==
  /\ pc[h] = "touch"
  /\ profile' = InProgress(profile)
  /\ Note("review", Case(profile) # ctx[h].seen)
  /\ Finish(h)
  /\ UNCHANGED <<persona, processed, reviewed>>

\* Mutant: submission does not look at the identity check.
CanSubmitUnchecked(row) == row.filled = Sections

\* canSubmit of view: every section, and the identity check where it is required.
CanSubmit(row) ==
  /\ row.filled = Sections
  /\ PersonaConfigured /\ ~row.isVerified => row.identity

StartSubmit(h) ==
  /\ AssertEditable(profile.status)
  /\ CanSubmit(profile)
  /\ Begin(h, "submit", Case(profile))
  /\ UNCHANGED <<profileVars, raced>>

Submit(h) ==
  /\ pc[h] = "submit"
  /\ profile' = [profile EXCEPT !.status = "SUBMITTED", !.isVerified = FALSE]
  /\ Note("review", Case(profile) # ctx[h].seen)
  /\ Finish(h)
  /\ UNCHANGED <<persona, processed, reviewed>>

StartReview(h, label) ==
  /\ \/ label = "mark" /\ profile.status = "SUBMITTED"
     \/ label = "approve" /\ profile.status \in {"SUBMITTED", "UNDER_REVIEW"}
  /\ Begin(h, label, Case(profile))
  /\ UNCHANGED <<profileVars, raced>>

MarkUnderReview(h) ==
  /\ pc[h] = "mark"
  /\ profile' = [profile EXCEPT !.status = "UNDER_REVIEW"]
  /\ Note("review", Case(profile) # ctx[h].seen)
  /\ Finish(h)
  /\ UNCHANGED <<persona, processed, reviewed>>

\* approveVerification.  What it approves is what it read.
Approve(h) ==
  /\ pc[h] = "approve"
  /\ profile' = [profile EXCEPT !.status = "VERIFIED", !.isVerified = TRUE]
  /\ reviewed' = ctx[h].seen.content
  /\ Note("review", Case(profile) # ctx[h].seen)
  /\ Finish(h)
  /\ UNCHANGED <<persona, processed>>

\* requestVerificationChanges and rejectVerification, whatever the status: one write.
SendBack(status) ==
  /\ status \in {"CHANGES_REQUIRED", "REJECTED"}
  /\ profile' = [profile EXCEPT !.status = status, !.isVerified = FALSE]
  /\ UNCHANGED <<persona, processed, reviewed, pc, ctx, raced>>

-----------------------------------------------------------------------------
(* Persona, which is external: the organizer answers an inquiry whose id was *)
(* returned, and Persona approves, declines or otherwise moves it.           *)

StatusOf(inquiry, history) ==
  \E d \in DOMAIN history :
    /\ history[d].inquiry = inquiry /\ history[d].approved
    /\ \A e \in DOMAIN history : e > d => history[e].inquiry # inquiry

PersonaDecides(inquiry, name) ==
  /\ inquiry \in known
  /\ Len(decisions) < MaxDecisions
  /\ decisions' = Append(decisions,
       [inquiry |-> inquiry, name |-> name,
        approved |-> name = "approved" \/ (name = "other" /\ StatusOf(inquiry, decisions))])
  /\ UNCHANGED <<profile, inquiries, known, processed, reviewed, pc, ctx, raced>>

-----------------------------------------------------------------------------
(* persona-identity.service.ts *)

\* getOrCreateInquiry.  Of an inquiry it finds it changes nothing modelled here.
StartInquiry(h) ==
  /\ PersonaConfigured
  /\ profile.inquiry = 0
  /\ Begin(h, "inquiry", Identity(profile))
  /\ UNCHANGED <<profileVars, raced>>

CreateInquiry(h) ==
  /\ pc[h] = "inquiry"
  /\ inquiries < MaxInquiries
  /\ inquiries' = inquiries + 1
  /\ pc' = [pc EXCEPT ![h] = "store"]
  /\ ctx' = [ctx EXCEPT ![h].ref = inquiries + 1]
  /\ UNCHANGED <<profile, known, decisions, processed, reviewed, raced>>

StoreInquiry(h) ==
  /\ pc[h] = "store"
  /\ profile' = [profile EXCEPT !.inquiry = ctx[h].ref, !.identity = FALSE]
  /\ known' = known \union {ctx[h].ref}
  /\ Note("identity", Identity(profile) # ctx[h].seen)
  /\ Finish(h)
  /\ UNCHANGED <<inquiries, decisions, processed, reviewed>>

\* refreshInquiryStatus, asked for by the organizer or by syncPersonaStatuses.
StartRefresh(h) ==
  /\ PersonaConfigured
  /\ profile.inquiry # 0
  /\ Begin(h, "fetch", Identity(profile))
  /\ UNCHANGED <<profileVars, raced>>

FetchInquiry(h) ==
  /\ pc[h] = "fetch"
  /\ pc' = [pc EXCEPT ![h] = "refresh"]
  /\ ctx' = [ctx EXCEPT ![h].approved = StatusOf(ctx[h].seen.inquiry, decisions)]
  /\ UNCHANGED <<profileVars, raced>>

Refresh(h) ==
  /\ pc[h] = "refresh"
  /\ profile' = [profile EXCEPT !.identity = ctx[h].approved]
  /\ Note("identity", Identity(profile) # ctx[h].seen)
  /\ Finish(h)
  /\ UNCHANGED <<persona, processed, reviewed>>

\* handleWebhook, up to its transaction: the event is not known yet.
StartWebhook(h, d) ==
  /\ d \in DOMAIN decisions
  /\ d \notin processed
  /\ pc[h] = "idle"
  /\ pc' = [pc EXCEPT ![h] = "webhook"]
  /\ ctx' = [ctx EXCEPT ![h].seen = Identity(profile), ![h].ref = d]
  /\ UNCHANGED <<profileVars, raced>>

\* eventId is unique: the second insert fails and rolls the transaction back.
FirstDelivery(d) == d \notin processed

\* Mutant: events are applied in the order they arrive.
EvenIfOld(seen, d) == seen.inquiry = decisions[d].inquiry

\* The profile found for the inquiry has seen no later event.
Applies(seen, d) == seen.inquiry = decisions[d].inquiry /\ seen.lastEvent <= d

ApplyWebhook(h) ==
  LET d == ctx[h].ref
      name == decisions[d].name
      seen == ctx[h].seen
      writes == FirstDelivery(d) /\ Applies(seen, d)
  IN /\ pc[h] = "webhook"
     /\ processed' = processed \union {d}
     /\ profile' = IF ~writes THEN profile
                   ELSE [profile EXCEPT !.lastEvent = d,
                           !.identity = IF name = "other" THEN @ ELSE name = "approved"]
     /\ Note("identity", writes /\ Identity(profile) # seen)
     /\ Finish(h)
     /\ UNCHANGED <<persona, reviewed>>

\* A restart, a failed statement or a call to Persona that fails ends a request between
\* two of its writes.  Ended before its first, it might as well not have begun.
Interrupted(h) ==
  /\ pc[h] \in {"touch", "store"}
  /\ Finish(h)
  /\ UNCHANGED <<profileVars, raced>>

ProfileNext ==
  \/ \E h \in Handlers :
       \/ \E label \in {"edit", "upload"} : StartEdit(h, label)
       \/ WriteSection(h) \/ WriteDocument(h) \/ TouchProfile(h)
       \/ StartSubmit(h) \/ Submit(h)
       \/ \E label \in {"mark", "approve"} : StartReview(h, label)
       \/ MarkUnderReview(h) \/ Approve(h)
       \/ StartInquiry(h) \/ CreateInquiry(h) \/ StoreInquiry(h)
       \/ StartRefresh(h) \/ FetchInquiry(h) \/ Refresh(h)
       \/ \E d \in 1..MaxDecisions : StartWebhook(h, d)
       \/ ApplyWebhook(h)
       \/ Interrupted(h)
  \/ \E status \in {"CHANGES_REQUIRED", "REJECTED"} : SendBack(status)
  \/ \E i \in 1..MaxInquiries, name \in Verdicts : PersonaDecides(i, name)

=============================================================================
