------------------------- MODULE PublicationProofs -------------------------
(***************************************************************************)
(* Proofs about Publication for any number of requests in flight, edits,   *)
(* inquiries, decisions and versions, whatever they overwrite.             *)
(***************************************************************************)
EXTENDS Publication, TLAPS

(***************************************************************************)
(* The inductive invariant.  RefsInv: what a request works on exists.      *)
(* EntitledInv: whatever is on the way to being sold, in the profile, in   *)
(* the event, or in a request that has passed a check and has not written  *)
(* yet, rests on an inquiry Persona approved.                              *)
(***************************************************************************)
RefsInv ==
  /\ Len(decisions) <= MaxDecisions
  /\ \A d \in DOMAIN decisions : decisions[d].name = "approved" => decisions[d].approved
  /\ \A h \in Handlers :
       /\ pc[h] = "webhook" => ctx[h].ref \in DOMAIN decisions
       /\ pc[h] = "store" => ctx[h].ref \in 1..inquiries

TInv == TypeOK /\ RefsInv

InReview == {"SUBMITTED", "UNDER_REVIEW", "VERIFIED"}
Entitled == {"submit", "mark", "approve", "submitEvent", "publish"}
OnTheWay == {"PENDING_APPROVAL", "PUBLISHED"}

EntitledInv ==
  PersonaConfigured =>
    /\ profile.identity \/ profile.isVerified => Evidence
    /\ profile.status \in InReview => Evidence
    /\ event.ordered \/ event.status \in OnTheWay => Evidence
    /\ \A h \in Handlers :
         /\ ctx[h].approved => Evidence
         /\ pc[h] \in Entitled => Evidence
         /\ basis[h].status = "PUBLISHED" => Evidence

IInv == TInv /\ EntitledInv

-----------------------------------------------------------------------------
(* Types *)

USE OrganizerAssumption, PublicationAssumption

LEMMA NewProfileType == NewProfile \in Profile /\ NoContext \in ProfileContext
<1>1. NewProfile \in Profile
  BY DEF NewProfile, Profile, Statuses, Sections
<1> QED
  BY <1>1 DEF NoContext, ProfileContext

\* What a request keeps of the profile is a profile.
LEMMA SeenType ==
  ASSUME NEW row \in Profile
  PROVE  /\ Case(row) \in Profile /\ Identity(row) \in Profile
         /\ NoContext \in ProfileContext
<1>1. /\ row.status \in Statuses /\ row.isVerified \in BOOLEAN /\ row.content \in 0..MaxEdits
      /\ row.inquiry \in 0..MaxInquiries /\ row.identity \in BOOLEAN
      /\ row.lastEvent \in 0..MaxDecisions
  BY DEF Profile
<1> HIDE DEF Statuses
<1>2. Case(row) \in Profile
  BY <1>1, NewProfileType DEF Case, Profile
<1>3. Identity(row) \in Profile
  BY <1>1, NewProfileType DEF Identity, Profile
<1> QED
  BY <1>2, <1>3, NewProfileType

LEMMA InitTInv == Init => TInv
<1> SUFFICES ASSUME Init PROVE TInv
  OBVIOUS
<1> USE DEF Init, ProfileInit
<1>1. profile \in Profile
  <2>1. "IN_PROGRESS" \in Statuses /\ AlreadyFilled \in SUBSET Sections
    BY DEF Statuses, Sections
  <2> QED
    BY <2>1, NewProfileType DEF Registered, Profile
<1>2. ctx \in [Handlers -> ProfileContext]
  BY NewProfileType
<1>3. event \in EventRow /\ basis \in [Handlers -> EventRow]
  BY DEF EventRow, NoEvent, EventStatuses
<1> QED
  BY <1>1, <1>2, <1>3 DEF TInv, TypeOK, RefsInv

\* An edit of the application leaves a profile.
LEMMA EditType ==
  ASSUME NEW row \in Profile, NEW section \in Sections, row.content < MaxEdits
  PROVE  NextEdit(row, section) \in Profile /\ InProgress(NextEdit(row, section)) \in Profile
<1>1. row.content + 1 \in 0..MaxEdits /\ row.filled \union {section} \in SUBSET Sections
  BY DEF Profile
<1>2. NextEdit(row, section) \in Profile
  BY <1>1 DEF NextEdit, Profile
<1>3. "IN_PROGRESS" \in Statuses
  BY DEF Statuses
<1> QED
  BY <1>2, <1>3 DEF InProgress, Profile

\* Creating, editing and deleting an event leaves one of its rows.
LEMMA EventType ==
  /\ NoEvent \in EventRow
  /\ [NoEvent EXCEPT !.status = "DRAFT", !.content = 1] \in EventRow
  /\ [NoEvent EXCEPT !.status = "DELETED"] \in EventRow
  /\ \A row \in EventRow, s \in EventStatuses :
       row.content < MaxVersions
         => [row EXCEPT !.content = @ + 1, !.status = s] \in EventRow
<1>1. 0 \in 0..MaxVersions /\ 1 \in 0..MaxVersions
  OBVIOUS
<1>2. {"NONE", "DRAFT", "DELETED"} \subseteq EventStatuses
  BY DEF EventStatuses
<1>3. NoEvent \in EventRow
  BY <1>1, <1>2 DEF NoEvent, EventRow
<1>4. ASSUME NEW row \in EventRow, NEW s \in EventStatuses, row.content < MaxVersions
      PROVE  [row EXCEPT !.content = @ + 1, !.status = s] \in EventRow
  <2>1. row.content + 1 \in 0..MaxVersions
    BY <1>4 DEF EventRow
  <2> QED
    BY <2>1 DEF EventRow
<1> QED
  BY <1>1, <1>2, <1>3, <1>4 DEF EventRow

\* The edits and status writes of the application.
LEMMA ReviewTInv ==
  ASSUME TInv, NEW h \in Handlers,
         \/ \E label \in {"edit", "upload"} : StartEdit(h, label)
         \/ WriteSection(h) \/ WriteDocument(h) \/ TouchProfile(h)
         \/ StartSubmit(h) \/ Submit(h)
         \/ \E label \in {"mark", "approve"} : StartReview(h, label)
         \/ MarkUnderReview(h) \/ Approve(h),
         UNCHANGED <<eventVars, basis>>
  PROVE  TInv'
<1> USE DEF TInv, TypeOK, RefsInv, eventVars, profileVars, persona, ProfileLabels, Begin,
        Finish, Note
<1>1. /\ Case(profile) \in Profile /\ NoContext \in ProfileContext
  BY SeenType
<1>2. ASSUME NEW label \in {"edit", "upload"}, StartEdit(h, label) PROVE TInv'
  BY <1>1, <1>2 DEF StartEdit, ProfileContext
<1>3. CASE WriteSection(h)
  BY <1>1, <1>3, EditType DEF WriteSection, Sections
<1>4. CASE WriteDocument(h)
  <2>1. profile' \in Profile
    BY <1>4, EditType DEF WriteDocument, Sections
  <2>2. Case(profile') \in Profile
    BY <2>1, SeenType
  <2> QED
    BY ZenonT(40), <1>4, <2>1, <2>2 DEF WriteDocument, ProfileContext
<1>5. CASE TouchProfile(h)
  BY <1>1, <1>5 DEF TouchProfile, InProgress, Profile, Statuses
<1>6. CASE StartSubmit(h)
  BY <1>1, <1>6 DEF StartSubmit, ProfileContext
<1>7. CASE Submit(h)
  BY <1>1, <1>7 DEF Submit, Profile, Statuses
<1>8. ASSUME NEW label \in {"mark", "approve"}, StartReview(h, label) PROVE TInv'
  BY <1>1, <1>8 DEF StartReview, ProfileContext
<1>9. CASE MarkUnderReview(h)
  BY <1>1, <1>9 DEF MarkUnderReview, Profile, Statuses
<1>10. CASE Approve(h)
  <2>1. ctx[h].seen.content \in 0..MaxEdits
    BY DEF ProfileContext, Profile
  <2> QED
    BY <1>1, <1>10, <2>1 DEF Approve, Profile, Statuses
<1> QED
  BY <1>2, <1>3, <1>4, <1>5, <1>6, <1>7, <1>8, <1>9, <1>10

\* The identity check.
LEMMA IdentityTInv ==
  ASSUME TInv, NEW h \in Handlers,
         \/ StartInquiry(h) \/ CreateInquiry(h) \/ StoreInquiry(h)
         \/ StartRefresh(h) \/ FetchInquiry(h) \/ Refresh(h)
         \/ \E d \in 1..MaxDecisions : StartWebhook(h, d)
         \/ ApplyWebhook(h)
         \/ Interrupted(h),
         UNCHANGED <<eventVars, basis>>
  PROVE  TInv'
<1> USE DEF TInv, TypeOK, RefsInv, eventVars, profileVars, persona, ProfileLabels, Begin,
        Finish, Note
<1>1. Identity(profile) \in Profile /\ NoContext \in ProfileContext
  BY SeenType
<1>2. CASE StartInquiry(h)
  BY <1>1, <1>2 DEF StartInquiry, ProfileContext
<1>3. CASE CreateInquiry(h)
  <2>1. ctx' = [ctx EXCEPT ![h].ref = inquiries + 1] /\ inquiries' = inquiries + 1
    BY <1>3 DEF CreateInquiry
  <2>2. inquiries' \in 0..MaxInquiries /\ inquiries' \in 0..MaxDecisions + MaxInquiries
    BY <1>3, <2>1 DEF CreateInquiry
  <2>3. ctx' \in [Handlers -> ProfileContext]
    BY ZenonT(40), <2>1, <2>2 DEF ProfileContext
  <2>4. /\ pc' = [pc EXCEPT ![h] = "store"]
        /\ UNCHANGED <<profile, known, decisions, processed, reviewed, raced>>
    BY <1>3 DEF CreateInquiry
  <2>5. \A g \in Handlers : pc'[g] = "store" => ctx'[g].ref \in 1..inquiries'
    BY <2>1, <2>2, <2>4 DEF ProfileContext
  <2> QED
    BY <2>1, <2>2, <2>3, <2>4, <2>5
<1>4. CASE StoreInquiry(h)
  <2>1. ctx[h].ref \in 1..inquiries /\ ctx[h].ref \in 0..MaxInquiries
    BY <1>4 DEF StoreInquiry
  <2>2. profile' \in Profile
    BY <1>4, <2>1 DEF StoreInquiry, Profile
  <2> QED
    BY <1>1, <1>4, <2>1, <2>2 DEF StoreInquiry
<1>5. CASE StartRefresh(h)
  BY <1>1, <1>5 DEF StartRefresh, ProfileContext
<1>6. CASE FetchInquiry(h)
  <2>1. StatusOf(ctx[h].seen.inquiry, decisions) \in BOOLEAN
    BY DEF StatusOf
  <2> QED
    BY <1>6, <2>1, ZenonT(40) DEF FetchInquiry, ProfileContext
<1>7. CASE Refresh(h)
  BY <1>1, <1>7 DEF Refresh, Profile, ProfileContext
<1>8. ASSUME NEW d \in 1..MaxDecisions, StartWebhook(h, d) PROVE TInv'
  <2>1. d \in 0..MaxDecisions + MaxInquiries
    OBVIOUS
  <2>2. ctx' = [ctx EXCEPT ![h].seen = Identity(profile), ![h].ref = d]
    BY <1>8 DEF StartWebhook
  <2>3. ctx' \in [Handlers -> ProfileContext]
    BY <1>1, <2>1, <2>2 DEF ProfileContext
  <2>4. \A g \in Handlers : ctx'[g].ref = IF g = h THEN d ELSE ctx[g].ref
    BY <2>2 DEF ProfileContext
  <2> QED
    BY <1>8, <2>3, <2>4 DEF StartWebhook
<1>9. CASE ApplyWebhook(h)
  <2> DEFINE d == ctx[h].ref
  <2>1. d \in DOMAIN decisions /\ d \in 1..MaxDecisions
    BY <1>9 DEF ApplyWebhook
  <2>2. profile' \in Profile
    <3>1. d \in 0..MaxDecisions
      BY <2>1
    <3> HIDE DEF d
    <3>3. \A b \in BOOLEAN : [profile EXCEPT !.lastEvent = d, !.identity = b] \in Profile
      BY <3>1 DEF Profile
    <3>2. profile.identity \in BOOLEAN
      BY DEF Profile
    <3> QED
      BY <1>9, <3>2, <3>3 DEF ApplyWebhook, d
  <2>3. raced' \subseteq {"review", "identity", "event"}
    BY <1>9 DEF ApplyWebhook
  <2> QED
    BY <1>1, <1>9, <2>1, <2>2, <2>3 DEF ApplyWebhook
<1>10. CASE Interrupted(h)
  BY <1>1, <1>10 DEF Interrupted
<1> QED
  BY <1>2, <1>3, <1>4, <1>5, <1>6, <1>7, <1>8, <1>9, <1>10

\* What admins and Persona do in one step.
LEMMA AloneTInv ==
  ASSUME TInv, UNCHANGED <<eventVars, basis>>,
         \/ \E status \in {"CHANGES_REQUIRED", "REJECTED"} : SendBack(status)
         \/ \E i \in 1..MaxInquiries, name \in Verdicts : PersonaDecides(i, name)
  PROVE  TInv'
<1> USE DEF TInv, TypeOK, RefsInv, eventVars, persona
<1>1. ASSUME NEW status \in {"CHANGES_REQUIRED", "REJECTED"}, SendBack(status) PROVE TInv'
  BY <1>1 DEF SendBack, Profile, Statuses
<1>2. ASSUME NEW i \in 1..MaxInquiries, NEW name \in Verdicts, PersonaDecides(i, name)
      PROVE TInv'
  <2> DEFINE new == [inquiry |-> i, name |-> name,
                     approved |-> name = "approved"
                                    \/ (name = "other" /\ StatusOf(i, decisions))]
  <2>1. new \in Decision
    BY DEF Decision, StatusOf, Verdicts
  <2>2. /\ decisions' = Append(decisions, new) /\ Len(decisions) < MaxDecisions
        /\ UNCHANGED <<profile, inquiries, known, processed, reviewed, pc, ctx, raced>>
    BY <1>2 DEF PersonaDecides
  <2>3. name = "approved" => new.approved
    OBVIOUS
  <2> HIDE DEF new
  <2>4. /\ decisions' \in Seq(Decision) /\ Len(decisions') = Len(decisions) + 1
        /\ DOMAIN decisions \subseteq DOMAIN decisions'
        /\ \A d \in DOMAIN decisions : decisions'[d] = decisions[d]
        /\ decisions'[Len(decisions) + 1] = new
    BY <2>1, <2>2, SMTT(30)
  <2>5. ASSUME NEW d \in DOMAIN decisions', decisions'[d].name = "approved"
        PROVE  decisions'[d].approved
    <3>1. new.name = name
      BY DEF new
    <3>2. CASE d \in DOMAIN decisions
      BY <2>4, <2>5, <3>2
    <3>3. CASE d = Len(decisions) + 1
      BY <2>3, <2>4, <2>5, <3>1, <3>3
    <3>4. DOMAIN decisions = 1..Len(decisions) /\ DOMAIN decisions' = 1..Len(decisions')
      BY <2>4
    <3> QED
      BY <2>4, <3>2, <3>3, <3>4
  <2>6. Len(decisions') <= MaxDecisions
    BY <2>2, <2>4
  <2> QED
    BY <2>2, <2>4, <2>5, <2>6
<1> QED
  BY <1>1, <1>2

\* The write of an event request ends it and touches no other row.
LEMMA WriteTInv ==
  ASSUME TInv, NEW h \in Handlers, NEW row \in EventRow, WriteEvent(h, row),
         approved' \in 0..MaxVersions
  PROVE  TInv'
<1> USE DEF TInv
<1>1. event' \in EventRow /\ UNCHANGED <<profileVars, ctx>>
  BY DEF WriteEvent
<1>2. basis' \in [Handlers -> EventRow]
  BY EventType DEF WriteEvent, TypeOK
<1>3. /\ pc' \in [Handlers -> {"idle"} \union ProfileLabels \union EventLabels]
      /\ \A g \in Handlers : pc'[g] \in {pc[g], "idle"}
  BY DEF WriteEvent, TypeOK
<1>4. raced' \subseteq {"review", "identity", "event"}
  BY DEF WriteEvent, Note, TypeOK
<1>5. TypeOK'
  BY <1>1, <1>2, <1>3, <1>4 DEF TypeOK, profileVars, persona
<1>6. RefsInv'
  BY <1>1, <1>3 DEF RefsInv, profileVars, persona
<1> QED
  BY <1>5, <1>6

\* Events.
LEMMA EventTInv == TInv /\ EventNext => TInv'
<1> SUFFICES ASSUME TInv, EventNext PROVE TInv'
  OBVIOUS
<1> USE DEF TInv, TypeOK, RefsInv, eventVars, profileVars, persona, EventLabels, EventRow,
        EventStatuses
<1>1. CASE CreateEvent
  BY ZenonT(40), <1>1, EventType DEF CreateEvent
<1>2. CASE SuspendEvent
  BY <1>2 DEF SuspendEvent
<1>3. CASE CreateOrder
  BY <1>3 DEF CreateOrder
<1>4. ASSUME NEW h \in Handlers, NEW label \in EventLabels, StartEventRequest(h, label)
      PROVE TInv'
  BY <1>4 DEF StartEventRequest
<1>5. ASSUME NEW h \in Handlers, NEW row \in EventRow, WriteEvent(h, row), approved' = approved
      PROVE TInv'
  BY <1>5, WriteTInv
<1>6. ASSUME NEW h \in Handlers, Update(h) PROVE TInv'
  <2>1. [event EXCEPT !.content = @ + 1, !.status = StatusAfterUpdate(basis[h])] \in EventRow
    <3>1. StatusAfterUpdate(basis[h]) \in EventStatuses
      BY DEF StatusAfterUpdate
    <3> QED
      BY ZenonT(40), <1>6, <3>1, EventType DEF Update
  <2> QED
    BY <1>6, <2>1, <1>5 DEF Update
<1>7. ASSUME NEW h \in Handlers, Remove(h) PROVE TInv'
  <2>1. [NoEvent EXCEPT !.status = "DELETED"] \in EventRow
    BY EventType
  <2> QED
    BY <1>7, <2>1, <1>5 DEF Remove
<1>8. ASSUME NEW h \in Handlers, SubmitForApproval(h) \/ Cancel(h) \/ Reject(h) PROVE TInv'
  <2>1. /\ [event EXCEPT !.status = "PENDING_APPROVAL"] \in EventRow
        /\ [event EXCEPT !.status = "CANCELLED"] \in EventRow
        /\ [event EXCEPT !.status = "REJECTED"] \in EventRow
    OBVIOUS
  <2> QED
    BY <1>8, <2>1, <1>5 DEF SubmitForApproval, Cancel, Reject
<1>9. ASSUME NEW h \in Handlers, Publish(h) PROVE TInv'
  <2>1. [event EXCEPT !.status = "PUBLISHED"] \in EventRow /\ basis[h].content \in 0..MaxVersions
    OBVIOUS
  <2>2. approved' \in 0..MaxVersions
    BY <1>9, <2>1 DEF Publish
  <2> QED
    BY <1>9, <2>1, <2>2, WriteTInv DEF Publish
<1>10. ASSUME NEW h \in Handlers, EventRequestLost(h) PROVE TInv'
  <2> HIDE DEF EventRow
  <2>1. basis' \in [Handlers -> EventRow]
    BY <1>10, EventType DEF EventRequestLost
  <2> QED
    BY <1>10, <2>1 DEF EventRequestLost
<1> QED
  BY SMTT(30), <1>1, <1>2, <1>3, <1>4, <1>6, <1>7, <1>8, <1>9, <1>10 DEF EventNext

LEMMA StepTInv == TInv /\ [Next]_vars => TInv'
<1>1. TInv /\ UNCHANGED vars => TInv'
  BY DEF TInv, TypeOK, RefsInv, vars, eventVars, profileVars, persona
<1> QED
  BY <1>1, ReviewTInv, IdentityTInv, AloneTInv, EventTInv DEF Next, ProfileNext

\* Every variable keeps its type, for any number of requests, edits and webhooks.
THEOREM TypeCorrect == Spec => []TypeOK
<1>1. TInv => TypeOK
  BY DEF TInv
<1> QED
  BY InitTInv, StepTInv, <1>1, PTL DEF Spec

-----------------------------------------------------------------------------
(* Entitlement *)

LEMMA InitEntitled == Init => EntitledInv
BY DEF Init, ProfileInit, EntitledInv, Registered, NewProfile, NoEvent, NoContext, InReview,
       Entitled, OnTheWay

\* Nothing decided at Persona is forgotten.
LEMMA EvidenceStays == TInv /\ [Next]_vars /\ Evidence => Evidence'
<1> SUFFICES ASSUME TInv, [Next]_vars, Evidence PROVE Evidence'
  OBVIOUS
<1>1. \/ UNCHANGED decisions
      \/ \E i \in 1..MaxInquiries, name \in Verdicts : PersonaDecides(i, name)
  BY DEF Next, ProfileNext, EventNext, vars, profileVars, persona, StartEdit, WriteSection,
    WriteDocument, TouchProfile, StartSubmit, Submit, StartReview, MarkUnderReview, Approve,
    StartInquiry, CreateInquiry, StoreInquiry, StartRefresh, FetchInquiry, Refresh,
    StartWebhook, ApplyWebhook, Interrupted, SendBack, CreateEvent, SuspendEvent, CreateOrder,
    StartEventRequest, Update, Remove, SubmitForApproval, Cancel, Publish, Reject, WriteEvent,
    EventRequestLost
<1>2. CASE UNCHANGED decisions
  BY <1>2 DEF Evidence
<1>3. ASSUME NEW i \in 1..MaxInquiries, NEW name \in Verdicts, PersonaDecides(i, name)
      PROVE  Evidence'
  BY <1>3 DEF PersonaDecides, Evidence, TInv, TypeOK
<1> QED
  BY <1>1, <1>2, <1>3

\* While Persona has approved nothing, nothing is on the way.
Untouched ==
  /\ ~profile.identity /\ ~profile.isVerified /\ profile.status \notin InReview
  /\ ~event.ordered /\ event.status \notin OnTheWay
  /\ \A h \in Handlers : /\ ~ctx[h].approved
                         /\ pc[h] \notin Entitled
                         /\ basis[h].status # "PUBLISHED"

LEMMA ReviewUntouched ==
  ASSUME TypeOK, Untouched, PersonaConfigured, NEW h \in Handlers,
         \/ \E label \in {"edit", "upload"} : StartEdit(h, label)
         \/ WriteSection(h) \/ WriteDocument(h) \/ TouchProfile(h)
         \/ StartSubmit(h) \/ Submit(h)
         \/ \E label \in {"mark", "approve"} : StartReview(h, label)
         \/ MarkUnderReview(h) \/ Approve(h),
         UNCHANGED <<eventVars, basis>>
  PROVE  Untouched'
<1> USE DEF Untouched, TypeOK, eventVars, profileVars, Begin, Finish, InReview, Entitled,
        NoContext, Profile, ProfileContext, InProgress, NextEdit
<1>1. ASSUME NEW label \in {"edit", "upload"}, StartEdit(h, label) PROVE Untouched'
  BY ZenonT(40), <1>1 DEF StartEdit
<1>2. CASE WriteSection(h)
  BY <1>2 DEF WriteSection
<1>3. CASE WriteDocument(h)
  BY <1>3, SMTT(20) DEF WriteDocument
<1>4. CASE TouchProfile(h)
  BY <1>4 DEF TouchProfile
<1>5. CASE StartSubmit(h)
  BY <1>5 DEF StartSubmit, CanSubmit
<1>6. CASE Submit(h) \/ MarkUnderReview(h) \/ Approve(h)
  BY <1>6 DEF Submit, MarkUnderReview, Approve
<1>7. ASSUME NEW label \in {"mark", "approve"}, StartReview(h, label) PROVE Untouched'
  BY <1>7 DEF StartReview
<1> QED
  BY <1>1, <1>2, <1>3, <1>4, <1>5, <1>6, <1>7

LEMMA IdentityUntouched ==
  ASSUME TInv, Untouched, ~Evidence, NEW h \in Handlers,
         \/ StartInquiry(h) \/ CreateInquiry(h) \/ StoreInquiry(h)
         \/ StartRefresh(h) \/ FetchInquiry(h) \/ Refresh(h)
         \/ \E d \in 1..MaxDecisions : StartWebhook(h, d)
         \/ ApplyWebhook(h)
         \/ Interrupted(h),
         UNCHANGED <<eventVars, basis>>
  PROVE  Untouched'
<1> USE DEF Untouched, TInv, TypeOK, eventVars, profileVars, Begin, Finish, InReview, Entitled,
        NoContext, Profile, ProfileContext
<1>1. CASE StartInquiry(h)
  <2>1. \A g \in Handlers : ctx'[g].approved = ctx[g].approved
    BY <1>1 DEF StartInquiry
  <2> QED
    BY <1>1, <2>1 DEF StartInquiry
<1>2. CASE StartRefresh(h)
  <2>1. \A g \in Handlers : ctx'[g].approved = ctx[g].approved
    BY <1>2 DEF StartRefresh
  <2> QED
    BY <1>2, <2>1 DEF StartRefresh
<1>3. CASE CreateInquiry(h)
  <2>1. \A g \in Handlers : ctx'[g].approved = ctx[g].approved
    BY <1>3 DEF CreateInquiry
  <2> QED
    BY <1>3, <2>1 DEF CreateInquiry
<1>4. CASE StoreInquiry(h)
  BY <1>4 DEF StoreInquiry
<1>5. CASE FetchInquiry(h)
  <2>1. ~StatusOf(ctx[h].seen.inquiry, decisions)
    BY DEF StatusOf, Evidence
  <2> QED
    BY <1>5, <2>1 DEF FetchInquiry
<1>6. CASE Refresh(h)
  BY <1>6 DEF Refresh
<1>7. ASSUME NEW d \in 1..MaxDecisions, StartWebhook(h, d) PROVE Untouched'
  <2>1. \A g \in Handlers : ctx'[g].approved = ctx[g].approved
    BY ZenonT(40), <1>7 DEF StartWebhook
  <2> QED
    BY <1>7, <2>1 DEF StartWebhook
<1>8. CASE ApplyWebhook(h)
  <2>1. decisions[ctx[h].ref].name # "approved"
    BY <1>8 DEF ApplyWebhook, RefsInv, Evidence
  <2>2. /\ ~profile'.identity /\ profile'.isVerified = profile.isVerified
        /\ profile'.status = profile.status
    BY <1>8, <2>1 DEF ApplyWebhook
  <2> QED
    BY <1>8, <2>2 DEF ApplyWebhook
<1>9. CASE Interrupted(h)
  BY <1>9 DEF Interrupted
<1> QED
  BY <1>1, <1>4, <1>5, <1>6, <1>7, <1>8, <1>9, <1>3, <1>2

LEMMA EventUntouched ==
  ASSUME TypeOK, Untouched, EventNext
  PROVE  Untouched'
<1> USE DEF Untouched, TypeOK, eventVars, profileVars, InReview, Entitled, OnTheWay, NoEvent,
        EventRow
<1>1. CASE CreateEvent \/ SuspendEvent \/ CreateOrder
  BY <1>1 DEF CreateEvent, SuspendEvent, CreateOrder, OnSale
<1>2. ASSUME NEW h \in Handlers, NEW label \in EventLabels, StartEventRequest(h, label)
      PROVE  Untouched'
  BY <1>2 DEF StartEventRequest, Admitted, MaySubmit, MayPublish, EventLabels
<1>3. ASSUME NEW h \in Handlers, Update(h) PROVE Untouched'
  BY <1>3 DEF Update, WriteEvent, StatusAfterUpdate
<1>4. ASSUME NEW h \in Handlers, Remove(h) \/ Cancel(h) \/ Reject(h) PROVE Untouched'
  <2>1. ~event'.ordered /\ event'.status \notin OnTheWay
    BY <1>4 DEF Remove, Cancel, Reject, WriteEvent
  <2>2. /\ UNCHANGED <<profile, ctx>> /\ pc' = [pc EXCEPT ![h] = "idle"]
        /\ basis' = [basis EXCEPT ![h] = NoEvent]
    BY <1>4 DEF Remove, Cancel, Reject, WriteEvent
  <2> QED
    BY <2>1, <2>2
<1>5. ASSUME NEW h \in Handlers, SubmitForApproval(h) \/ Publish(h) PROVE Untouched'
  BY <1>5 DEF SubmitForApproval, Publish
<1>6. ASSUME NEW h \in Handlers, EventRequestLost(h) PROVE Untouched'
  BY <1>6 DEF EventRequestLost
<1> QED
  BY <1>1, <1>2, <1>3, <1>4, <1>5, <1>6 DEF EventNext

LEMMA StepEntitled == TInv /\ EntitledInv /\ [Next]_vars => EntitledInv'
<1> SUFFICES ASSUME TInv, EntitledInv, [Next]_vars, PersonaConfigured, ~Evidence'
             PROVE  EntitledInv'
  BY EvidenceStays DEF EntitledInv
<1>1. ~Evidence /\ Untouched
  BY EvidenceStays DEF EntitledInv, Untouched
<1> SUFFICES Untouched'
  BY DEF Untouched, EntitledInv
<1>2. CASE UNCHANGED vars
  BY <1>1, <1>2 DEF Untouched, vars, profileVars, eventVars
<1>3. CASE EventNext
  BY <1>1, <1>3, EventUntouched DEF TInv
<1>4. CASE ProfileNext /\ UNCHANGED <<eventVars, basis>>
  <2>1. ASSUME NEW status \in {"CHANGES_REQUIRED", "REJECTED"}, SendBack(status)
        PROVE  Untouched'
    BY <1>1, <1>4, <2>1 DEF SendBack, Untouched, TInv, TypeOK, Profile, eventVars, InReview
  <2>2. ASSUME NEW i \in 1..MaxInquiries, NEW name \in Verdicts, PersonaDecides(i, name)
        PROVE  Untouched'
    BY <1>1, <1>4, <2>2 DEF PersonaDecides, Untouched, eventVars
  <2> QED
    BY <1>1, <1>4, <2>1, <2>2, ReviewUntouched, IdentityUntouched DEF ProfileNext, TInv
<1> QED
  BY <1>2, <1>3, <1>4 DEF Next

\* Whatever requests, edits, reviews and webhooks race, and whatever they overwrite, no
\* organizer is verified, no event published and no order taken before Persona has
\* approved an inquiry of the organizer.
THEOREM NoSaleWithoutIdentity == Spec => []SoldNeedsIdentity
<1>1. Init => IInv
  BY InitTInv, InitEntitled DEF IInv
<1>2. IInv /\ [Next]_vars => IInv'
  BY StepTInv, StepEntitled DEF IInv
<1>3. IInv => SoldNeedsIdentity
  BY DEF IInv, EntitledInv, SoldNeedsIdentity, OnTheWay
<1> QED
  BY <1>1, <1>2, <1>3, PTL DEF Spec

-----------------------------------------------------------------------------
(* Reviews.  While no request has written over a change it had not seen, what a handler *)
(* has read is what stands when it writes.                                              *)

\* What PublishedAsReviewed needs is itself inductive: a write that changes the status or
\* the version is made on the event as it was read, or leaves it unpublished.
LEMMA StepPublished == TInv /\ PublishedAsReviewed /\ [Next]_vars => PublishedAsReviewed'
<1> SUFFICES ASSUME TInv, PublishedAsReviewed, [Next]_vars, "event" \notin raced',
                    event'.status = "PUBLISHED"
             PROVE  event'.content = approved'
  BY DEF PublishedAsReviewed
<1> USE DEF PublishedAsReviewed, TInv, TypeOK, EventRow
<1>1. CASE UNCHANGED vars
  BY <1>1 DEF vars, eventVars
<1>2. CASE ProfileNext /\ UNCHANGED <<eventVars, basis>>
  <2>1. raced \subseteq raced'
    BY <1>2 DEF ProfileNext, StartEdit, WriteSection, WriteDocument, TouchProfile, StartSubmit,
      Submit, StartReview, MarkUnderReview, Approve, StartInquiry, CreateInquiry, StoreInquiry,
      StartRefresh, FetchInquiry, Refresh, StartWebhook, ApplyWebhook, Interrupted, SendBack,
      PersonaDecides, Note
  <2> QED
    BY <1>2, <2>1 DEF eventVars
<1>3. CASE CreateEvent \/ SuspendEvent \/ CreateOrder
  BY <1>3 DEF CreateEvent, SuspendEvent, CreateOrder, NoEvent
<1>4. ASSUME NEW h \in Handlers,
             \/ \E label \in EventLabels : StartEventRequest(h, label)
             \/ EventRequestLost(h)
      PROVE  event'.content = approved'
  BY <1>4 DEF StartEventRequest, EventRequestLost, eventVars
<1>5. ASSUME NEW h \in Handlers, NEW row, WriteEvent(h, row)
      PROVE  event = basis[h] /\ event' = row
  BY <1>5 DEF WriteEvent, Note
<1>6. ASSUME NEW h \in Handlers, Update(h) PROVE FALSE
  <2>1. event = basis[h]
    BY <1>5, <1>6 DEF Update
  <2>2. event' = [event EXCEPT !.content = @ + 1, !.status = StatusAfterUpdate(basis[h])]
    BY <1>5, <1>6 DEF Update
  <2>3. event'.status = StatusAfterUpdate(basis[h])
    BY <2>2
  <2> QED
    BY <2>1, <2>3 DEF StatusAfterUpdate
<1>7. ASSUME NEW h \in Handlers, Remove(h) \/ SubmitForApproval(h) \/ Cancel(h) \/ Reject(h)
      PROVE  FALSE
  BY <1>5, <1>7 DEF Remove, SubmitForApproval, Cancel, Reject, NoEvent
<1>8. ASSUME NEW h \in Handlers, Publish(h) PROVE event'.content = approved'
  BY <1>5, <1>8 DEF Publish
<1> QED
  BY <1>1, <1>2, <1>3, <1>4, <1>6, <1>7, <1>8 DEF Next, EventNext

\* As long as no request has written over a change of the event it had not seen, what is
\* published is the version an admin approved, however edits, submissions, approvals and
\* suspensions interleave.
THEOREM OnlyApprovedIsPublished == Spec => []PublishedAsReviewed
<1>1. Init => PublishedAsReviewed
  BY DEF Init, PublishedAsReviewed, NoEvent
<1> QED
  BY <1>1, InitTInv, StepTInv, StepPublished, PTL DEF Spec

\* A document is uploaded to an application that could be edited, and only a submitted one
\* is marked as under review.
ReviewInv ==
  /\ \A h \in Handlers :
       /\ pc[h] = "upload" => ctx[h].seen.status \in Editable
       /\ pc[h] = "mark" => ctx[h].seen.status = "SUBMITTED"
  /\ VerifiedAsReviewed

\* A step that leaves the columns of the review alone, and begins no upload and no mark.
LEMMA ReviewKeep ==
  ASSUME ReviewInv, raced \subseteq raced', reviewed' = reviewed,
         profile'.status = profile.status, profile'.isVerified = profile.isVerified,
         profile'.content = profile.content,
         \A g \in Handlers : pc'[g] \in {"upload", "mark"}
                               => pc'[g] = pc[g] /\ ctx'[g].seen = ctx[g].seen
  PROVE  ReviewInv'
BY DEF ReviewInv, VerifiedAsReviewed

LEMMA ReviewStep ==
  ASSUME TInv, ReviewInv, NEW h \in Handlers,
         \/ \E label \in {"edit", "upload"} : StartEdit(h, label)
         \/ WriteSection(h) \/ WriteDocument(h) \/ TouchProfile(h)
         \/ StartSubmit(h) \/ Submit(h)
         \/ \E label \in {"mark", "approve"} : StartReview(h, label)
         \/ MarkUnderReview(h) \/ Approve(h)
  PROVE  ReviewInv'
<1>1. /\ Case(profile).status = profile.status
      /\ Case(profile).isVerified = profile.isVerified
      /\ Case(profile).content = profile.content
  BY DEF Case, NewProfile
<1>2. pc \in [Handlers -> {"idle"} \union ProfileLabels \union EventLabels]
      /\ ctx \in [Handlers -> ProfileContext] /\ profile \in Profile
  BY DEF TInv, TypeOK
<1>3. ASSUME NEW label, NEW seen, Begin(h, label, seen), UNCHANGED <<profileVars, raced>>,
             label = "upload" => seen.status \in Editable,
             label = "mark" => seen.status = "SUBMITTED"
      PROVE  ReviewInv'
  <2>1. \A g \in Handlers : IF g = h THEN pc'[g] = label /\ ctx'[g].seen = seen
                                     ELSE pc'[g] = pc[g] /\ ctx'[g] = ctx[g]
    BY <1>2, <1>3 DEF Begin, ProfileContext
  <2> QED
    BY <1>3, <2>1 DEF ReviewInv, VerifiedAsReviewed, profileVars
<1>4. ASSUME NEW label, label \in {"edit", "upload"}, StartEdit(h, label) PROVE ReviewInv'
  BY <1>1, <1>3, <1>4 DEF StartEdit, AssertEditable
<1>5. CASE StartSubmit(h)
  BY <1>1, <1>3, <1>5 DEF StartSubmit
<1>6. ASSUME NEW label, label \in {"mark", "approve"}, StartReview(h, label) PROVE ReviewInv'
  BY <1>1, <1>3, <1>6 DEF StartReview
<1>7. ASSUME NEW label \in {"idle", "touch"}, pc' = [pc EXCEPT ![h] = label],
             \A g \in Handlers \ {h} : ctx'[g] = ctx[g], VerifiedAsReviewed'
      PROVE  ReviewInv'
  <2>1. \A g \in Handlers : pc'[g] \in {"upload", "mark"} => pc'[g] = pc[g] /\ ctx'[g] = ctx[g]
    BY <1>2, <1>7
  <2> QED
    BY <1>7, <2>1 DEF ReviewInv
<1>8. ASSUME Note("review", Case(profile) # ctx[h].seen), "review" \notin raced'
      PROVE  "review" \notin raced /\ ctx[h].seen = Case(profile)
  BY <1>8 DEF Note
<1>9. Finish(h) => pc' = [pc EXCEPT ![h] = "idle"] /\ \A g \in Handlers \ {h} : ctx'[g] = ctx[g]
  BY <1>2 DEF Finish
<1>10. CASE WriteSection(h) \/ TouchProfile(h) \/ Submit(h)
  <2>1. ~profile'.isVerified
    BY <1>2, <1>10 DEF WriteSection, TouchProfile, Submit, InProgress, NextEdit, Profile
  <2> QED
    BY <1>7, <1>9, <1>10, <2>1 DEF WriteSection, TouchProfile, Submit, VerifiedAsReviewed
<1>11. CASE WriteDocument(h)
  <2>1. profile'.isVerified = profile.isVerified
    BY <1>2, <1>11 DEF WriteDocument, NextEdit, Profile
  <2>2. "review" \notin raced' => profile.status \in Editable /\ "review" \notin raced
    BY <1>1, <1>8, <1>11 DEF WriteDocument, ReviewInv
  <2>3. VerifiedAsReviewed'
    BY <2>1, <2>2 DEF ReviewInv, VerifiedAsReviewed, Editable
  <2>4. pc' = [pc EXCEPT ![h] = "touch"] /\ \A g \in Handlers \ {h} : ctx'[g] = ctx[g]
    BY <1>2, <1>11 DEF WriteDocument
  <2> QED
    BY <1>7, <2>3, <2>4
<1>12. CASE MarkUnderReview(h)
  <2>1. profile'.isVerified = profile.isVerified
    BY <1>2, <1>12 DEF MarkUnderReview, Profile
  <2>2. "review" \notin raced' => profile.status = "SUBMITTED" /\ "review" \notin raced
    BY <1>1, <1>8, <1>12 DEF MarkUnderReview, ReviewInv
  <2> QED
    BY <1>7, <1>9, <1>12, <2>1, <2>2 DEF MarkUnderReview, ReviewInv, VerifiedAsReviewed
<1>13. CASE Approve(h)
  <2>1. profile'.status = "VERIFIED" /\ profile'.content = profile.content
    BY <1>2, <1>13 DEF Approve, Profile
  <2>2. "review" \notin raced' => reviewed' = profile.content
    BY <1>1, <1>8, <1>13 DEF Approve
  <2> QED
    BY <1>7, <1>9, <1>13, <2>1, <2>2 DEF Approve, VerifiedAsReviewed
<1> QED
  BY <1>4, <1>5, <1>6, <1>10, <1>11, <1>12, <1>13

LEMMA StepReview == TInv /\ ReviewInv /\ [Next]_vars => ReviewInv'
<1> SUFFICES ASSUME TInv, ReviewInv, [Next]_vars PROVE ReviewInv'
  OBVIOUS
<1>0. pc \in [Handlers -> {"idle"} \union ProfileLabels \union EventLabels]
      /\ ctx \in [Handlers -> ProfileContext] /\ profile \in Profile
  BY DEF TInv, TypeOK
<1>1. CASE UNCHANGED vars
  BY <1>1 DEF vars, profileVars, ReviewInv, VerifiedAsReviewed
<1>2. ASSUME NEW h \in Handlers, NEW label, label \notin {"upload", "mark"},
             pc' = [pc EXCEPT ![h] = label],
             \A g \in Handlers \ {h} : ctx'[g] = ctx[g],
             raced \subseteq raced', reviewed' = reviewed,
             profile'.status = profile.status, profile'.isVerified = profile.isVerified,
             profile'.content = profile.content
      PROVE  ReviewInv'
  <2>1. \A g \in Handlers : pc'[g] \in {"upload", "mark"}
                              => pc'[g] = pc[g] /\ ctx'[g].seen = ctx[g].seen
    BY <1>0, <1>2
  <2> QED
    BY <1>2, <2>1, ReviewKeep
<1>3. ASSUME NEW h \in Handlers,
             \/ StartInquiry(h) \/ CreateInquiry(h) \/ StartRefresh(h) \/ FetchInquiry(h)
             \/ \E d \in 1..MaxDecisions : StartWebhook(h, d)
             \/ Interrupted(h)
      PROVE  ReviewInv'
  <2>1. PICK label \in {"inquiry", "store", "fetch", "refresh", "webhook", "idle"} :
          pc' = [pc EXCEPT ![h] = label]
    BY <1>3 DEF StartInquiry, CreateInquiry, StartRefresh, FetchInquiry, StartWebhook,
      Interrupted, Begin, Finish
  <2>2. /\ \A g \in Handlers \ {h} : ctx'[g] = ctx[g]
        /\ UNCHANGED <<profile, reviewed, raced>>
    BY <1>0, <1>3 DEF StartInquiry, CreateInquiry, StartRefresh, FetchInquiry, StartWebhook,
      Interrupted, Begin, Finish, profileVars
  <2> QED
    BY <1>2, <2>1, <2>2
<1>4. ASSUME NEW h \in Handlers, StoreInquiry(h) \/ Refresh(h) \/ ApplyWebhook(h)
      PROVE  ReviewInv'
  <2>1. /\ profile'.status = profile.status /\ profile'.isVerified = profile.isVerified
        /\ profile'.content = profile.content
    BY <1>0, <1>4 DEF StoreInquiry, Refresh, ApplyWebhook, Profile
  <2>2. /\ pc' = [pc EXCEPT ![h] = "idle"] /\ reviewed' = reviewed /\ raced \subseteq raced'
        /\ \A g \in Handlers \ {h} : ctx'[g] = ctx[g]
    BY <1>0, <1>4 DEF StoreInquiry, Refresh, ApplyWebhook, Finish, Note
  <2> QED
    BY <1>2, <2>1, <2>2
<1>5. ASSUME NEW status \in {"CHANGES_REQUIRED", "REJECTED"}, SendBack(status)
      PROVE  ReviewInv'
  BY <1>0, <1>5 DEF SendBack, ReviewInv, VerifiedAsReviewed, Profile
<1>6. ASSUME NEW i \in 1..MaxInquiries, NEW name \in Verdicts, PersonaDecides(i, name)
      PROVE  ReviewInv'
  BY <1>6 DEF PersonaDecides, ReviewInv, VerifiedAsReviewed
<1>7. CASE ProfileNext
  BY <1>3, <1>4, <1>5, <1>6, <1>7, ReviewStep DEF ProfileNext
<1>8. CASE CreateEvent \/ SuspendEvent \/ CreateOrder
  BY <1>8 DEF CreateEvent, SuspendEvent, CreateOrder, profileVars, ReviewInv,
    VerifiedAsReviewed
<1>9. ASSUME NEW h \in Handlers, NEW row, WriteEvent(h, row) PROVE ReviewInv'
  BY <1>2, <1>9 DEF WriteEvent, Note, profileVars
<1>10. ASSUME NEW h \in Handlers,
              \/ Update(h) \/ Remove(h) \/ SubmitForApproval(h)
              \/ Cancel(h) \/ Publish(h) \/ Reject(h)
       PROVE  ReviewInv'
  BY <1>9, <1>10 DEF Update, Remove, SubmitForApproval, Cancel, Publish, Reject
<1>11. ASSUME NEW h \in Handlers, NEW label \in EventLabels, StartEventRequest(h, label)
       PROVE  ReviewInv'
  BY <1>2, <1>11 DEF StartEventRequest, profileVars, EventLabels
<1>12. ASSUME NEW h \in Handlers, EventRequestLost(h) PROVE ReviewInv'
  BY <1>2, <1>12 DEF EventRequestLost, profileVars
<1> QED
  BY <1>1, <1>7, <1>8, <1>10, <1>11, <1>12 DEF Next, EventNext

\* As long as no request has written over a change of the application it had not seen, a
\* verified organizer is one whose application stands as the admin approved it, however
\* uploads, submissions, reviews and decisions of both desks interleave.
THEOREM ReviewedIsVerified == Spec => []VerifiedAsReviewed
<1>1. Init => ReviewInv
  BY DEF Init, ProfileInit, ReviewInv, VerifiedAsReviewed, Registered, NewProfile
<1>2. ReviewInv => VerifiedAsReviewed
  BY DEF ReviewInv
<1> QED
  BY <1>1, <1>2, InitTInv, StepTInv, StepReview, PTL DEF Spec

-----------------------------------------------------------------------------
(* The identity check.  CalmInv holds while no two of its writes have crossed: the *)
(* organizer has answered the inquiry of the profile only; lastEvent is the newest *)
(* decision that was processed; and what a handler has read or fetched is no newer, *)
(* and as new as it says.                                                          *)

PlainInv ==
  /\ \A d \in DOMAIN decisions :
       /\ decisions[d].inquiry \in known
       /\ decisions[d].name # "other"
            => decisions[d].approved = (decisions[d].name = "approved")
  /\ profile.lastEvent \in processed \union {0}
  /\ \A h \in Handlers :
       /\ pc[h] \in {"inquiry", "store"} => ctx[h].seen.inquiry = 0
       /\ pc[h] = "fetch" => ctx[h].seen.inquiry # 0

\* What a handler knows of the identity check.
Informed(h) ==
  LET last == Len(decisions)
      seen == ctx[h].seen
  IN /\ seen.lastEvent <= profile.lastEvent
     /\ pc[h] = "fetch" => seen.inquiry = profile.inquiry
     /\ pc[h] = "webhook" => seen.inquiry = decisions[ctx[h].ref].inquiry
     /\ pc[h] = "refresh" /\ last > 0 /\ seen.lastEvent = last
          => ctx[h].approved = decisions[last].approved

\* The profile says what the newest decision said, once that has been processed.
UpToDate ==
  LET last == Len(decisions) IN
  last > 0 /\ profile.lastEvent = last /\ decisions[last].name # "other"
    => profile.identity = decisions[last].approved

CalmInv ==
  /\ known \subseteq {profile.inquiry}
  /\ \A d \in processed : d <= profile.lastEvent
  /\ \A h \in Handlers : Informed(h)
  /\ UpToDate

IdentityInv == PlainInv /\ ("identity" \notin raced => CalmInv)

IdentityLabels == {"inquiry", "store", "fetch", "refresh", "webhook"}

\* A step that leaves the identity check alone: whoever it moves is not in it afterwards.
LEMMA IdentityKeep ==
  ASSUME IdentityInv, raced \subseteq raced', UNCHANGED <<persona, processed>>,
         profile'.inquiry = profile.inquiry, profile'.identity = profile.identity,
         profile'.lastEvent = profile.lastEvent, profile'.lastEvent >= 0,
         \A g \in Handlers :
           \/ pc'[g] = pc[g] /\ ctx'[g] = ctx[g]
           \/ pc'[g] \notin IdentityLabels /\ ctx'[g].seen.lastEvent = 0
  PROVE  IdentityInv'
<1>1. PlainInv'
  BY DEF IdentityInv, PlainInv, persona, IdentityLabels
<1>2. ASSUME "identity" \notin raced' PROVE CalmInv'
  <2>1. CalmInv
    BY <1>2 DEF IdentityInv
  <2>2. ASSUME NEW g \in Handlers PROVE Informed(g)'
    BY <2>1 DEF CalmInv, Informed, persona, IdentityLabels
  <2>3. UpToDate'
    BY <2>1 DEF CalmInv, UpToDate, persona
  <2> QED
    BY <2>1, <2>2, <2>3 DEF CalmInv, persona
<1> QED
  BY <1>1, <1>2 DEF IdentityInv

\* The requests about the application, those about the event, and those that end early.
LEMMA OthersIdentity ==
  ASSUME TInv, IdentityInv, NEW h \in Handlers,
         \/ \E label \in {"edit", "upload"} : StartEdit(h, label)
         \/ WriteSection(h) \/ WriteDocument(h) \/ TouchProfile(h)
         \/ StartSubmit(h) \/ Submit(h)
         \/ \E label \in {"mark", "approve"} : StartReview(h, label)
         \/ MarkUnderReview(h) \/ Approve(h) \/ Interrupted(h)
  PROVE  IdentityInv'
<1>1. /\ pc \in [Handlers -> {"idle"} \union ProfileLabels \union EventLabels]
      /\ ctx \in [Handlers -> ProfileContext] /\ profile \in Profile
  BY DEF TInv, TypeOK
<1>2. \A row : Case(row).lastEvent = 0
  BY DEF Case, NewProfile
<1>3. /\ profile'.inquiry = profile.inquiry /\ profile'.identity = profile.identity
      /\ profile'.lastEvent = profile.lastEvent /\ profile'.lastEvent >= 0
  <2> USE <1>1 DEF Profile, InProgress, NextEdit
  <2>1. profile.lastEvent >= 0
    OBVIOUS
  <2>2. CASE profile' = profile
    BY <2>1, <2>2
  <2>3. CASE WriteSection(h)
    BY <2>1, <2>3 DEF WriteSection
  <2>4. CASE WriteDocument(h)
    BY <2>1, <2>4 DEF WriteDocument
  <2>5. CASE TouchProfile(h) \/ Submit(h)
    BY <2>1, <2>5 DEF TouchProfile, Submit
  <2>6. CASE MarkUnderReview(h) \/ Approve(h)
    BY <2>1, <2>6 DEF MarkUnderReview, Approve
  <2>7. CASE \/ \E label \in {"edit", "upload"} : StartEdit(h, label)
             \/ StartSubmit(h) \/ Interrupted(h)
             \/ \E label \in {"mark", "approve"} : StartReview(h, label)
    BY <2>2, <2>7 DEF StartEdit, StartSubmit, StartReview, Interrupted, profileVars
  <2> QED
    BY <2>3, <2>4, <2>5, <2>6, <2>7
<1>4. raced \subseteq raced' /\ UNCHANGED <<persona, processed>>
  BY DEF StartEdit, WriteSection, WriteDocument, TouchProfile, StartSubmit, Submit,
    StartReview, MarkUnderReview, Approve, Interrupted, Note, profileVars
<1>5. PICK label \in {"idle", "edit", "upload", "touch", "submit", "mark", "approve"} :
        pc' = [pc EXCEPT ![h] = label]
  BY DEF StartEdit, WriteSection, WriteDocument, TouchProfile, StartSubmit, Submit,
    StartReview, MarkUnderReview, Approve, Interrupted, Begin, Finish
<1>6. /\ \A g \in Handlers \ {h} : ctx'[g] = ctx[g]
      /\ ctx'[h].seen.lastEvent = 0
  <2>1. \/ \E row : ctx' = [ctx EXCEPT ![h].seen = Case(row)]
        \/ ctx' = [ctx EXCEPT ![h] = NoContext]
    BY DEF StartEdit, WriteSection, WriteDocument, TouchProfile, StartSubmit, Submit,
      StartReview, MarkUnderReview, Approve, Interrupted, Begin, Finish
  <2> QED
    BY <1>1, <1>2, <2>1 DEF ProfileContext, NoContext, NewProfile
<1>7. \A g \in Handlers : \/ pc'[g] = pc[g] /\ ctx'[g] = ctx[g]
                          \/ pc'[g] \notin IdentityLabels /\ ctx'[g].seen.lastEvent = 0
  BY <1>1, <1>5, <1>6 DEF IdentityLabels
<1> QED
  BY <1>3, <1>4, <1>7, IdentityKeep

\* A step of one handler within the identity check: the facts that say what it may change.
LEMMA IdentityMoves ==
  ASSUME TInv, TInv', IdentityInv, NEW h \in Handlers, NEW label,
         pc' = [pc EXCEPT ![h] = label], \A g \in Handlers \ {h} : ctx'[g] = ctx[g],
         raced \subseteq raced', UNCHANGED decisions, known \subseteq known',
         profile'.lastEvent \in processed' \union {0},
         label \in {"inquiry", "store"} => ctx'[h].seen.inquiry = 0,
         label = "fetch" => ctx'[h].seen.inquiry # 0,
         "identity" \notin raced' /\ CalmInv =>
           /\ known' \subseteq {profile'.inquiry}
           /\ \A d \in processed' : d <= profile'.lastEvent
           /\ profile.lastEvent <= profile'.lastEvent
           /\ \A g \in Handlers : pc[g] = "fetch" => profile'.inquiry = profile.inquiry
           /\ Informed(h)' /\ UpToDate'
  PROVE  IdentityInv'
<1>0. /\ pc \in [Handlers -> {"idle"} \union ProfileLabels \union EventLabels]
      /\ ctx \in [Handlers -> ProfileContext]
      /\ \A g \in Handlers : ctx[g].seen.lastEvent \in Nat
  <2>1. /\ pc \in [Handlers -> {"idle"} \union ProfileLabels \union EventLabels]
        /\ ctx \in [Handlers -> ProfileContext]
    BY DEF TInv, TypeOK
  <2> QED
    BY <2>1 DEF ProfileContext, Profile
<1>1. /\ pc'[h] = label
      /\ \A g \in Handlers \ {h} : pc'[g] = pc[g] /\ ctx'[g] = ctx[g]
  BY <1>0
<1>2. PlainInv'
  BY <1>1 DEF IdentityInv, PlainInv
<1>3. ASSUME "identity" \notin raced' PROVE CalmInv'
  <2>1. CalmInv
    BY <1>3 DEF IdentityInv
  <2>2. /\ known' \subseteq {profile'.inquiry}
        /\ \A d \in processed' : d <= profile'.lastEvent
        /\ profile.lastEvent <= profile'.lastEvent
        /\ \A g \in Handlers : pc[g] = "fetch" => profile'.inquiry = profile.inquiry
        /\ Informed(h)' /\ UpToDate'
    BY <1>3, <2>1
  <2>3. ASSUME NEW g \in Handlers PROVE Informed(g)'
    <3>1. CASE g = h
      BY <2>2, <3>1
    <3>2. CASE g # h
      <4>1. profile.lastEvent \in Int /\ profile'.lastEvent \in Int
        BY DEF TInv, TypeOK, Profile
      <4> QED
        BY <1>0, <1>1, <2>1, <2>2, <3>2, <4>1 DEF CalmInv, Informed
    <3> QED
      BY <3>1, <3>2
  <2> QED
    BY <2>2, <2>3 DEF CalmInv
<1> QED
  BY <1>2, <1>3 DEF IdentityInv

\* One that writes nothing: all that matters is what the handler knows.
LEMMA IdentityWaits ==
  ASSUME TInv, TInv', IdentityInv, NEW h \in Handlers, NEW label,
         pc' = [pc EXCEPT ![h] = label], \A g \in Handlers \ {h} : ctx'[g] = ctx[g],
         UNCHANGED <<profile, known, decisions, processed, raced>>,
         label \in {"inquiry", "store"} => ctx'[h].seen.inquiry = 0,
         label = "fetch" => ctx'[h].seen.inquiry # 0,
         CalmInv => Informed(h)'
  PROVE  IdentityInv'
<1>1. "identity" \notin raced' /\ CalmInv =>
        /\ known' \subseteq {profile'.inquiry}
        /\ \A d \in processed' : d <= profile'.lastEvent
        /\ profile.lastEvent <= profile'.lastEvent
        /\ \A g \in Handlers : pc[g] = "fetch" => profile'.inquiry = profile.inquiry
        /\ Informed(h)' /\ UpToDate'
  <2>1. profile.lastEvent \in Int
    BY DEF TInv, TypeOK, Profile
  <2> QED
    BY <2>1 DEF CalmInv, UpToDate
<1>2. /\ raced \subseteq raced' /\ UNCHANGED decisions /\ known \subseteq known'
      /\ profile'.lastEvent \in processed' \union {0}
  BY DEF IdentityInv, PlainInv
<1> QED
  BY <1>1, <1>2, IdentityMoves

LEMMA IdentityStep ==
  ASSUME TInv, TInv', IdentityInv, NEW h \in Handlers,
         \/ StartInquiry(h) \/ CreateInquiry(h) \/ StoreInquiry(h)
         \/ StartRefresh(h) \/ FetchInquiry(h) \/ Refresh(h)
         \/ \E d \in 1..MaxDecisions : StartWebhook(h, d)
         \/ ApplyWebhook(h)
  PROVE  IdentityInv'
<1>1. /\ pc \in [Handlers -> {"idle"} \union ProfileLabels \union EventLabels]
      /\ ctx \in [Handlers -> ProfileContext] /\ profile \in Profile
      /\ ctx[h] \in ProfileContext /\ decisions \in Seq(Decision)
      /\ processed \subseteq DOMAIN decisions
  BY DEF TInv, TypeOK
<1>2. /\ profile.inquiry \in Nat /\ profile.lastEvent \in Nat /\ profile.identity \in BOOLEAN
      /\ ctx[h].seen.lastEvent \in Nat /\ ctx[h].seen.inquiry \in Nat
  BY <1>1 DEF Profile, ProfileContext
<1>3. /\ Identity(profile).inquiry = profile.inquiry
      /\ Identity(profile).identity = profile.identity
      /\ Identity(profile).lastEvent = profile.lastEvent
  BY DEF Identity, NewProfile
<1>4. /\ profile.lastEvent \in processed \union {0}
      /\ \A d \in DOMAIN decisions :
           /\ decisions[d].inquiry \in known
           /\ decisions[d].name # "other"
                => decisions[d].approved = (decisions[d].name = "approved")
      /\ pc[h] \in {"inquiry", "store"} => ctx[h].seen.inquiry = 0
      /\ pc[h] = "fetch" => ctx[h].seen.inquiry # 0
  BY DEF IdentityInv, PlainInv
<1>5. NoContext.seen.lastEvent = 0
  BY DEF NoContext, NewProfile
<1>6. DOMAIN decisions = 1..Len(decisions) /\ Len(decisions) \in Nat
  BY <1>1
\* The profile knows of nothing that has not been decided.
<1>7. profile.lastEvent <= Len(decisions)
  BY <1>1, <1>2, <1>4, <1>6
<1>8. CASE StartInquiry(h)
  <2>1. ctx' = [ctx EXCEPT ![h].seen = Identity(profile)] /\ pc' = [pc EXCEPT ![h] = "inquiry"]
    BY <1>8 DEF StartInquiry, Begin
  <2>2. ctx'[h].seen = Identity(profile) /\ pc'[h] = "inquiry"
    BY <1>1, <2>1 DEF ProfileContext
  <2>3. UNCHANGED <<profile, known, decisions, processed, raced>> /\ profile.inquiry = 0
    BY <1>8 DEF StartInquiry, profileVars, persona
  <2>4. CalmInv => Informed(h)'
    BY <1>2, <1>3, <2>2, <2>3 DEF Informed, CalmInv
  <2>5. \A g \in Handlers \ {h} : ctx'[g] = ctx[g]
    BY <1>1, <2>1
  <2>6. ctx'[h].seen.inquiry = 0
    BY <1>3, <1>4, <2>2, <2>3
  <2> QED
    BY <2>1, <2>3, <2>4, <2>5, <2>6, IdentityWaits
<1>9. CASE CreateInquiry(h)
  <2>1. ctx' = [ctx EXCEPT ![h].ref = inquiries + 1] /\ pc' = [pc EXCEPT ![h] = "store"]
    BY <1>9 DEF CreateInquiry
  <2>2. ctx'[h].seen = ctx[h].seen /\ pc'[h] = "store" /\ pc[h] = "inquiry"
    BY <1>1, <1>9, <2>1 DEF ProfileContext, CreateInquiry
  <2>3. UNCHANGED <<profile, known, decisions, processed, raced>>
    BY <1>9 DEF CreateInquiry
  <2>4. CalmInv => Informed(h)'
    BY <1>2, <1>3, <2>2, <2>3 DEF Informed, CalmInv
  <2>5. \A g \in Handlers \ {h} : ctx'[g] = ctx[g]
    BY <1>1, <2>1
  <2>6. ctx'[h].seen.inquiry = 0
    BY <1>3, <1>4, <2>2, <2>3
  <2> QED
    BY <2>1, <2>3, <2>4, <2>5, <2>6, IdentityWaits
<1>10. CASE StoreInquiry(h)
  <2>1. /\ pc[h] = "store" /\ ctx' = [ctx EXCEPT ![h] = NoContext]
        /\ pc' = [pc EXCEPT ![h] = "idle"] /\ known' = known \union {ctx[h].ref}
        /\ UNCHANGED <<decisions, processed>>
    BY <1>10 DEF StoreInquiry, Finish
  <2>2. ctx'[h] = NoContext /\ pc'[h] = "idle" /\ \A g \in Handlers \ {h} : ctx'[g] = ctx[g]
    BY <1>1, <2>1
  <2>3. profile'.inquiry = ctx[h].ref /\ profile'.lastEvent = profile.lastEvent
    BY <1>1, <1>10 DEF StoreInquiry, Profile
  <2>4. raced \subseteq raced'
    BY <1>10 DEF StoreInquiry, Note
  <2>5. ASSUME "identity" \notin raced', CalmInv
        PROVE  /\ known' \subseteq {profile'.inquiry}
               /\ \A g \in Handlers : pc[g] # "fetch"
               /\ Informed(h)' /\ UpToDate'
    <3>1. profile.inquiry = 0
      BY <1>3, <1>4, <1>10, <2>1, <2>5 DEF StoreInquiry, Note
    <3>2. known = {}
      BY <2>5, <3>1 DEF CalmInv, TInv, TypeOK
    <3>3. Len(decisions) = 0
      <4>1. \A d \in 1..Len(decisions) : decisions[d].inquiry \in {}
        BY <1>4, <1>6, <3>2
      <4>2. Len(decisions) >= 1 => 1 \in 1..Len(decisions)
        BY <1>6
      <4> QED
        BY <1>6, <4>1, <4>2
    <3>4. ASSUME NEW g \in Handlers PROVE pc[g] # "fetch"
      BY <2>5, <3>1 DEF CalmInv, Informed, IdentityInv, PlainInv
    <3>5. Informed(h)' /\ UpToDate'
      BY <1>2, <1>5, <2>1, <2>2, <2>3, <3>3 DEF Informed, UpToDate
    <3> QED
      BY <2>1, <2>3, <3>2, <3>4, <3>5
  <2>6. ASSUME "identity" \notin raced', CalmInv
        PROVE  /\ \A d \in processed' : d <= profile'.lastEvent
               /\ profile.lastEvent <= profile'.lastEvent
    BY <1>2, <2>1, <2>3, <2>6 DEF CalmInv
  <2>7. profile'.lastEvent \in processed' \union {0} /\ known \subseteq known'
    BY <1>4, <2>1, <2>3
  <2> QED
    BY <2>1, <2>2, <2>4, <2>5, <2>6, <2>7, IdentityMoves
<1>11. CASE StartRefresh(h)
  <2>1. ctx' = [ctx EXCEPT ![h].seen = Identity(profile)] /\ pc' = [pc EXCEPT ![h] = "fetch"]
    BY <1>11 DEF StartRefresh, Begin
  <2>2. ctx'[h].seen = Identity(profile) /\ pc'[h] = "fetch"
    BY <1>1, <2>1 DEF ProfileContext
  <2>3. UNCHANGED <<profile, known, decisions, processed, raced>> /\ profile.inquiry # 0
    BY <1>11 DEF StartRefresh, profileVars, persona
  <2>4. CalmInv => Informed(h)'
    BY <1>2, <1>3, <2>2, <2>3 DEF Informed, CalmInv
  <2>5. \A g \in Handlers \ {h} : ctx'[g] = ctx[g]
    BY <1>1, <2>1
  <2>6. ctx'[h].seen.inquiry # 0
    BY <1>3, <1>4, <2>2, <2>3
  <2> QED
    BY <2>1, <2>3, <2>4, <2>5, <2>6, IdentityWaits
<1>12. CASE FetchInquiry(h)
  <2>1. /\ ctx' = [ctx EXCEPT ![h].approved = StatusOf(ctx[h].seen.inquiry, decisions)]
        /\ pc' = [pc EXCEPT ![h] = "refresh"] /\ pc[h] = "fetch"
        /\ UNCHANGED <<profile, known, decisions, processed, raced>>
    BY <1>12 DEF FetchInquiry, profileVars, persona
  <2>2. /\ ctx'[h].seen = ctx[h].seen /\ pc'[h] = "refresh"
        /\ ctx'[h].approved = StatusOf(ctx[h].seen.inquiry, decisions)
    BY <1>1, <2>1 DEF ProfileContext
  <2>3. ASSUME CalmInv PROVE Informed(h)'
    <3>1. ctx[h].seen.inquiry = profile.inquiry /\ ctx[h].seen.lastEvent <= profile.lastEvent
      BY <2>1, <2>3 DEF CalmInv, Informed
    <3>2. \A d \in DOMAIN decisions : decisions[d].inquiry = profile.inquiry
      BY <1>4, <2>3 DEF CalmInv
    <3>3. ASSUME Len(decisions) > 0
          PROVE  StatusOf(profile.inquiry, decisions) = decisions[Len(decisions)].approved
      <4>1. decisions[Len(decisions)].approved \in BOOLEAN
        <5>1. Len(decisions) \in DOMAIN decisions
          BY <1>6, <3>3
        <5>2. decisions[Len(decisions)] \in Decision
          BY <1>1, <5>1
        <5> QED
          BY <5>2 DEF Decision
      <4>2. StatusOf(profile.inquiry, decisions)
              <=> decisions[Len(decisions)].approved
        BY <1>6, <3>2, <3>3 DEF StatusOf
      <4>3. StatusOf(profile.inquiry, decisions) \in BOOLEAN
        BY DEF StatusOf
      <4> QED
        BY <4>1, <4>2, <4>3
    <3> QED
      BY <2>1, <2>2, <3>1, <3>3 DEF Informed
  <2>4. \A g \in Handlers \ {h} : ctx'[g] = ctx[g]
    BY <1>1, <2>1
  <2> QED
    BY <2>1, <2>3, <2>4, IdentityWaits
<1>13. CASE Refresh(h)
  <2>1. /\ pc[h] = "refresh" /\ ctx' = [ctx EXCEPT ![h] = NoContext]
        /\ pc' = [pc EXCEPT ![h] = "idle"] /\ UNCHANGED <<known, decisions, processed>>
    BY <1>13 DEF Refresh, Finish, persona
  <2>2. ctx'[h] = NoContext /\ pc'[h] = "idle" /\ \A g \in Handlers \ {h} : ctx'[g] = ctx[g]
    BY <1>1, <2>1
  <2>3. /\ profile'.inquiry = profile.inquiry /\ profile'.lastEvent = profile.lastEvent
        /\ profile'.identity = ctx[h].approved
    BY <1>1, <1>13 DEF Refresh, Profile
  <2>4. raced \subseteq raced'
    BY <1>13 DEF Refresh, Note
  <2>5. ASSUME "identity" \notin raced', CalmInv PROVE Informed(h)' /\ UpToDate'
    <3>1. ctx[h].seen.lastEvent = profile.lastEvent
      BY <1>3, <1>13, <2>5 DEF Refresh, Note
    <3>2. Informed(h)'
      BY <1>2, <1>5, <2>1, <2>2, <2>3 DEF Informed
    <3>3. UpToDate'
      BY <2>1, <2>3, <2>5, <3>1 DEF CalmInv, Informed, UpToDate
    <3> QED
      BY <3>2, <3>3
  <2>6. CalmInv => /\ known' \subseteq {profile'.inquiry}
                   /\ \A d \in processed' : d <= profile'.lastEvent
                   /\ profile.lastEvent <= profile'.lastEvent
    BY <1>2, <2>1, <2>3 DEF CalmInv
  <2>7. profile'.lastEvent \in processed' \union {0} /\ known \subseteq known'
    BY <1>4, <2>1, <2>3
  <2> QED
    BY <2>1, <2>2, <2>3, <2>4, <2>5, <2>6, <2>7, IdentityMoves
<1>14. ASSUME NEW d \in 1..MaxDecisions, StartWebhook(h, d) PROVE IdentityInv'
  <2>1. /\ ctx' = [ctx EXCEPT ![h].seen = Identity(profile), ![h].ref = d]
        /\ pc' = [pc EXCEPT ![h] = "webhook"] /\ d \in DOMAIN decisions
        /\ UNCHANGED <<profile, known, decisions, processed, raced>>
    BY <1>14 DEF StartWebhook, profileVars, persona
  <2>2. ctx'[h].seen = Identity(profile) /\ ctx'[h].ref = d /\ pc'[h] = "webhook"
    BY <1>1, <2>1 DEF ProfileContext
  <2>3. ASSUME CalmInv PROVE Informed(h)'
    <3>1. decisions[d].inquiry = profile.inquiry
      BY <1>4, <2>1, <2>3 DEF CalmInv
    <3> QED
      BY <1>2, <1>3, <2>1, <2>2, <3>1 DEF Informed
  <2>4. \A g \in Handlers \ {h} : ctx'[g] = ctx[g]
    BY <1>1, <2>1
  <2> QED
    BY <2>1, <2>3, <2>4, IdentityWaits
<1>15. CASE ApplyWebhook(h)
  <2> DEFINE d == ctx[h].ref
             writes == FirstDelivery(d) /\ Applies(ctx[h].seen, d)
  <2>1. /\ pc[h] = "webhook" /\ ctx' = [ctx EXCEPT ![h] = NoContext]
        /\ pc' = [pc EXCEPT ![h] = "idle"] /\ UNCHANGED <<known, decisions>>
        /\ processed' = processed \union {d}
    BY <1>15 DEF ApplyWebhook, Finish, persona
  <2>2. ctx'[h] = NoContext /\ pc'[h] = "idle" /\ \A g \in Handlers \ {h} : ctx'[g] = ctx[g]
    BY <1>1, <2>1
  <2>3. d \in DOMAIN decisions /\ d \in Nat /\ d <= Len(decisions)
    BY <1>6, <2>1 DEF TInv, RefsInv
  <2>4. /\ ~writes => profile' = profile
        /\ writes => /\ profile'.inquiry = profile.inquiry /\ profile'.lastEvent = d
                     /\ decisions[d].name # "other"
                          => profile'.identity = (decisions[d].name = "approved")
    BY <1>1, <1>15 DEF ApplyWebhook, Profile
  <2>5. raced \subseteq raced'
    BY <1>15 DEF ApplyWebhook, Note
  <2>6. profile'.inquiry = profile.inquiry /\ profile'.lastEvent \in processed' \union {0}
    BY <1>4, <2>1, <2>4
  <2>7. ASSUME "identity" \notin raced', CalmInv
        PROVE  /\ \A e \in processed' : e <= profile'.lastEvent
               /\ profile.lastEvent <= profile'.lastEvent
               /\ Informed(h)' /\ UpToDate'
    <3>1. ctx[h].seen.lastEvent <= profile.lastEvent
          /\ ctx[h].seen.inquiry = decisions[d].inquiry
      BY <2>1, <2>7 DEF CalmInv, Informed
    <3>2. \A e \in processed : e <= profile.lastEvent /\ e \in Nat
      BY <1>1, <1>6, <2>7 DEF CalmInv
    <3>3. writes => ctx[h].seen.lastEvent = profile.lastEvent
      BY <1>3, <1>15, <2>7 DEF ApplyWebhook, Note
    <3>4. CASE writes
      <4>1. profile.lastEvent <= d
        BY <3>3, <3>4 DEF Applies
      <4>2. \A e \in processed' : e <= d
        BY <1>2, <2>1, <2>3, <3>2, <4>1
      <4>3. UpToDate'
        BY <1>4, <2>1, <2>3, <2>4, <3>4 DEF UpToDate
      <4>4. Informed(h)'
        BY <1>5, <2>1, <2>2, <2>3, <2>4, <3>4 DEF Informed
      <4> QED
        BY <2>4, <3>4, <4>1, <4>2, <4>3, <4>4
    <3>5. CASE ~writes
      <4>1. d <= profile.lastEvent
        BY <1>2, <2>3, <3>1, <3>2, <3>5 DEF FirstDelivery, Applies
      <4>2. UpToDate'
        BY <2>1, <2>4, <2>7, <3>5 DEF CalmInv, UpToDate
      <4>3. Informed(h)'
        BY <1>2, <1>5, <2>1, <2>2, <2>4, <3>5 DEF Informed
      <4> QED
        BY <1>2, <2>1, <2>4, <3>2, <3>5, <4>1, <4>2, <4>3
    <3> QED
      BY <3>4, <3>5
  <2>8. CalmInv => known' \subseteq {profile'.inquiry}
    BY <2>1, <2>6 DEF CalmInv
  <2> QED
    BY <2>1, <2>2, <2>5, <2>6, <2>7, <2>8, IdentityMoves
<1> QED
  BY <1>8, <1>9, <1>10, <1>11, <1>12, <1>13, <1>14, <1>15

\* A decision at Persona is newer than all that anyone has seen.
LEMMA DecisionIdentity ==
  ASSUME TInv, TInv', IdentityInv, NEW i \in 1..MaxInquiries, NEW name \in Verdicts,
         PersonaDecides(i, name)
  PROVE  IdentityInv'
<1> DEFINE new == [inquiry |-> i, name |-> name,
                   approved |-> name = "approved"
                                  \/ (name = "other" /\ StatusOf(i, decisions))]
<1>1. /\ decisions' = Append(decisions, new) /\ i \in known
      /\ UNCHANGED <<profile, known, processed, pc, ctx, raced>>
  BY DEF PersonaDecides
<1>2. /\ new.inquiry = i /\ new.name = name
      /\ name # "other" => new.approved = (name = "approved")
  BY DEF Verdicts
<1> HIDE DEF new
<1>3. /\ decisions \in Seq(Decision) /\ processed \subseteq DOMAIN decisions
      /\ profile.lastEvent \in Nat
      /\ \A h \in Handlers : /\ ctx[h].seen.lastEvent \in Nat
                             /\ pc[h] = "webhook" => ctx[h].ref \in DOMAIN decisions
  <2>1. profile \in Profile /\ ctx \in [Handlers -> ProfileContext]
    BY DEF TInv, TypeOK
  <2>2. profile.lastEvent \in Nat /\ \A h \in Handlers : ctx[h].seen.lastEvent \in Nat
    BY <2>1 DEF Profile, ProfileContext
  <2> QED
    BY <2>2 DEF TInv, TypeOK, RefsInv
<1>4. decisions' \in Seq(Decision)
  BY DEF TInv, TypeOK
<1>5. /\ Len(decisions') = Len(decisions) + 1 /\ Len(decisions) \in Nat
      /\ DOMAIN decisions = 1..Len(decisions) /\ DOMAIN decisions' = 1..Len(decisions')
      /\ \A d \in DOMAIN decisions : decisions'[d] = decisions[d]
      /\ decisions'[Len(decisions')] = new
  BY <1>1, <1>3, <1>4
<1>6. PlainInv'
  <2>1. ASSUME NEW d \in DOMAIN decisions'
        PROVE  /\ decisions'[d].inquiry \in known
               /\ decisions'[d].name # "other"
                    => decisions'[d].approved = (decisions'[d].name = "approved")
    <3>1. CASE d \in DOMAIN decisions
      BY <1>5, <3>1 DEF IdentityInv, PlainInv
    <3>2. CASE d = Len(decisions')
      BY <1>1, <1>2, <1>5, <3>2
    <3> QED
      BY <1>5, <3>1, <3>2
  <2> QED
    BY <1>1, <2>1 DEF IdentityInv, PlainInv
<1>7. profile.lastEvent < Len(decisions')
  BY <1>3, <1>5 DEF IdentityInv, PlainInv
<1>8. ASSUME "identity" \notin raced' PROVE CalmInv'
  <2>1. CalmInv
    BY <1>1, <1>8 DEF IdentityInv
  <2>2. ASSUME NEW h \in Handlers PROVE Informed(h)'
    <3>1. ctx[h].seen.lastEvent <= profile.lastEvent /\ ctx[h].seen.lastEvent \in Nat
      BY <1>3, <2>1 DEF CalmInv, Informed
    <3>2. ctx[h].seen.lastEvent # Len(decisions')
      BY <1>3, <1>5, <1>7, <3>1
    <3>3. pc[h] = "webhook" => decisions'[ctx[h].ref] = decisions[ctx[h].ref]
      BY <1>3, <1>5
    <3> QED
      BY <1>1, <2>1, <3>1, <3>2, <3>3 DEF CalmInv, Informed
  <2>3. UpToDate'
    BY <1>1, <1>3, <1>5, <1>7 DEF UpToDate
  <2> QED
    BY <1>1, <2>1, <2>2, <2>3 DEF CalmInv
<1> QED
  BY <1>6, <1>8 DEF IdentityInv

LEMMA EventIdentity == TInv /\ IdentityInv /\ EventNext => IdentityInv'
<1> SUFFICES ASSUME TInv, IdentityInv, EventNext PROVE IdentityInv'
  OBVIOUS
<1>1. /\ pc \in [Handlers -> {"idle"} \union ProfileLabels \union EventLabels]
      /\ ctx \in [Handlers -> ProfileContext] /\ profile.lastEvent >= 0
  BY SMTT(30) DEF TInv, TypeOK, Profile
<1>2. UNCHANGED <<profileVars, ctx>> /\ raced \subseteq raced'
  BY ZenonT(60) DEF EventNext, CreateEvent, SuspendEvent, CreateOrder, StartEventRequest, Update, Remove,
    SubmitForApproval, Cancel, Publish, Reject, WriteEvent, EventRequestLost, Note
<1>3. \/ pc' = pc
      \/ \E h \in Handlers, label \in EventLabels \union {"idle"} :
           /\ pc' = [pc EXCEPT ![h] = label]
           /\ pc[h] \in EventLabels \union {"idle"}
  BY DEF EventNext, CreateEvent, SuspendEvent, CreateOrder, StartEventRequest, Update, Remove,
    SubmitForApproval, Cancel, Publish, Reject, WriteEvent, EventRequestLost, EventLabels
<1>4. IdentityLabels \intersect (EventLabels \union {"idle"}) = {}
  BY DEF IdentityLabels, EventLabels
<1>5. PlainInv'
  <2>1. \A h \in Handlers : pc'[h] \in IdentityLabels => pc[h] = pc'[h]
    BY <1>1, <1>3, <1>4
  <2> QED
    BY <1>2, <2>1 DEF IdentityInv, PlainInv, IdentityLabels, profileVars, persona
<1>6. ASSUME "identity" \notin raced' PROVE CalmInv'
  <2>1. CalmInv
    BY <1>2, <1>6 DEF IdentityInv
  <2>2. \A h \in Handlers : pc'[h] \in IdentityLabels => pc[h] = pc'[h]
    BY <1>1, <1>3, <1>4
  <2>3. \A h \in Handlers : Informed(h)'
    BY <1>2, <2>1, <2>2 DEF CalmInv, Informed, IdentityLabels, profileVars, persona
  <2> QED
    BY <1>2, <2>1, <2>3 DEF CalmInv, UpToDate, profileVars, persona
<1> QED
  BY <1>5, <1>6 DEF IdentityInv

LEMMA StepIdentity == TInv /\ IdentityInv /\ [Next]_vars => IdentityInv'
<1> SUFFICES ASSUME TInv, IdentityInv, [Next]_vars PROVE IdentityInv'
  OBVIOUS
<1>1. TInv'
  BY StepTInv
<1>2. CASE UNCHANGED vars
  BY <1>2 DEF vars, profileVars, persona, IdentityInv, PlainInv, CalmInv, Informed, UpToDate
<1>3. ASSUME NEW status \in {"CHANGES_REQUIRED", "REJECTED"}, SendBack(status)
      PROVE  IdentityInv'
  <2>1. /\ profile'.inquiry = profile.inquiry /\ profile'.identity = profile.identity
        /\ profile'.lastEvent = profile.lastEvent /\ profile'.lastEvent >= 0
    BY <1>3 DEF SendBack, TInv, TypeOK, Profile
  <2>2. UNCHANGED <<persona, processed, pc, ctx, raced>>
    BY <1>3 DEF SendBack
  <2> QED
    BY <2>1, <2>2, IdentityKeep
<1>4. CASE ProfileNext
  BY <1>1, <1>3, <1>4, OthersIdentity, IdentityStep, DecisionIdentity DEF ProfileNext
<1> QED
  BY <1>2, <1>4, EventIdentity DEF Next

\* Once every webhook has come, in whatever order and however often, and no two writes of
\* the identity check have crossed, the identity is what Persona last decided: a late
\* webhook never undoes a newer one, for any number of inquiries, decisions and polls.
THEOREM LastDecisionStands == Spec => []IdentitySettles
<1>1. Init => IdentityInv
  <2> SUFFICES ASSUME Init PROVE IdentityInv
    OBVIOUS
  <2>1. /\ decisions = <<>> /\ known = {} /\ processed = {} /\ profile.lastEvent = 0
        /\ \A h \in Handlers : pc[h] = "idle" /\ ctx[h].seen.lastEvent = 0
    BY DEF Init, ProfileInit, Registered, NewProfile, NoContext
  <2> QED
    BY <2>1 DEF IdentityInv, PlainInv, CalmInv, Informed, UpToDate
<1>2. TInv /\ IdentityInv => IdentitySettles
  <2> SUFFICES ASSUME TInv, IdentityInv, "identity" \notin raced, Len(decisions) > 0,
                      processed = DOMAIN decisions, decisions[Len(decisions)].name # "other"
               PROVE  profile.identity = decisions[Len(decisions)].approved
    BY DEF IdentitySettles
  <2>1. decisions \in Seq(Decision)
    BY DEF TInv, TypeOK
  <2>2. Len(decisions) \in processed /\ DOMAIN decisions = 1..Len(decisions)
    BY <2>1
  <2>3. profile.lastEvent = Len(decisions)
    BY <2>1, <2>2 DEF IdentityInv, PlainInv, CalmInv
  <2> QED
    BY <2>3 DEF IdentityInv, CalmInv, UpToDate
<1> QED
  BY <1>1, <1>2, InitTInv, StepTInv, StepIdentity, PTL DEF Spec
=============================================================================
