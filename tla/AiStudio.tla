------------------------------- MODULE AiStudio -------------------------------
(***************************************************************************)
(* What organisers and admins do with AI text.  Two pages write drafts:    *)
(* the assistant beside the event form, and the marketing studio; the      *)
(* server keeps each draft and the decision on it (ai-drafts.service.ts).  *)
(* Two pages have figures explained: the insights of an event and the      *)
(* operating report of a period.  All of them wait many seconds for an     *)
(* answer while the reader goes on pressing buttons.                       *)
(***************************************************************************)
EXTENDS Naturals, FiniteSets

CONSTANTS
    AiDrafts,       \* bound: drafts ever written
    Shows,          \* the events of the organiser
    Periods         \* of the operating report

ASSUME AiStudioAssumption == Periods # {}

Writers == {"assistant", "studio"}
Explainers == {"insights", "ops"}

VARIABLES
    draft,          \* the AiDraft rows: status, event
    audited,        \* drafts with an AI_DRAFT_ACCEPTED entry
    board,           \* per writing page: the event chosen, the draft on screen and whether it shows as open, editing
    writing,        \* per writing page, the generation under way
    asking,         \* per writing page, the edits and decisions under way
    description,    \* whose text the event form's description is
    overtook,       \* history: drafts that came on the assistant's screen while the acceptance of
                    \* another was under way, as long as they may enter the form by it or did
    reading         \* per explaining page: topic, figures, question, text

form == <<description, overtook>>
studiovars == <<draft, audited, board, writing, asking, form, reading>>
draftvars == <<draft, audited>>

Topics == [insights |-> Shows, ops |-> Periods]
DraftCalls == {"edit", "accept", "discard"}
DraftDecisions == [accept |-> "ACCEPTED", discard |-> "DISCARDED"]
Silent == [step |-> "idle", about |-> {}]

-----------------------------------------------------------------------------
(* The two explaining pages. *)

(* Another topic: its figures are fetched anew, or were kept; the text and *)
(* the question under way are dropped with the mutation's observer.        *)
Turn(p, t) ==
    /\ t \in Topics[p] /\ reading[p].topic # {t}
    /\ \E kept \in {{}, {t}} :
         reading' = [reading EXCEPT ![p] = [topic |-> {t}, figures |-> kept, asked |-> {}, text |-> {}]]
    /\ UNCHANGED <<draftvars, board, writing, asking, form>>

(* The first event of the list is chosen for the reader. *)
SelectShow(e) == Turn("insights", e)

SelectPeriod(v) == Turn("ops", v)

FiguresArrive(p) ==
    /\ reading[p].topic # {} /\ reading[p].figures = {}
    /\ reading' = [reading EXCEPT ![p].figures = reading[p].topic]
    /\ UNCHANGED <<draftvars, board, writing, asking, form>>

(* The insights offer an explanation below the figures ... *)
InsightsView == reading["insights"].figures # {}

(* ... the operations page beside them. *)
OpsView == reading["ops"].topic # {}

Ask(p) ==
    /\ reading[p].asked = {}
    /\ reading' = [reading EXCEPT ![p].asked = reading[p].topic, ![p].text = {}]
    /\ UNCHANGED <<draftvars, board, writing, asking, form>>

Explain == InsightsView /\ Ask("insights")
Report == OpsView /\ Ask("ops")

(* explainSales: figures computed anew, explained, or no AI just now.      *)
ExplainSales ==
    /\ reading["insights"].asked # {}
    /\ \E text \in {reading["insights"].asked, {}} :
         reading' = [reading EXCEPT !["insights"].asked = {}, !["insights"].text = text]
    /\ UNCHANGED <<draftvars, board, writing, asking, form>>

OpsReport ==
    /\ reading["ops"].asked # {}
    /\ \E text \in {reading["ops"].asked, {}} :
         reading' = [reading EXCEPT !["ops"].asked = {}, !["ops"].text = text]
    /\ UNCHANGED <<draftvars, board, writing, asking, form>>

-----------------------------------------------------------------------------
(* The drafts on the server. *)

(* A draft is stored with the event it is about, none for the assistant's. *)
Created(p, d) ==
    /\ draft[d].status = "NONE"
    /\ draft' = [draft EXCEPT ![d] = [status |-> "DRAFT", about |-> writing[p].about]]
    /\ writing' = [writing EXCEPT ![p] = [step |-> "done", about |-> {d}]]

EventAssistant(d) ==
    /\ writing["assistant"].step = "sent" /\ Created("assistant", d)
    /\ UNCHANGED <<audited, board, asking, form, reading>>

Marketing(d) ==
    /\ writing["studio"].step = "sent" /\ Created("studio", d)
    /\ UNCHANGED <<audited, board, asking, form, reading>>

To(p, kind, step) == asking' = [asking EXCEPT ![p][kind].step = step]

(* edit and decide look at the draft's status first ... *)
OnlyOpen(p, kind) ==
    /\ asking[p][kind].step = "sent"
    /\ \E d \in asking[p][kind].about : To(p, kind, IF draft[d].status = "DRAFT" THEN "checked" ELSE "refused")
    /\ UNCHANGED <<draftvars, board, writing, form, reading>>

(* ... an edit then replaces the text whatever has become of it since ...  *)
DraftEdited(p) ==
    /\ asking[p]["edit"].step = "checked"
    /\ To(p, "edit", "done")
    /\ UNCHANGED <<draftvars, board, writing, form, reading>>

(* Mutant: the acceptance is answered before it is audited. *)
DraftDecidedUnaudited(p, kind) ==
    /\ kind \in DOMAIN DraftDecisions
    /\ asking[p][kind].step = "checked"
    /\ \E d \in asking[p][kind].about : draft' = [draft EXCEPT ![d].status = DraftDecisions[kind]]
    /\ To(p, kind, "done")
    /\ UNCHANGED <<audited, board, writing, form, reading>>

(* ... and a decision the status.  Acceptance is audited before it answers.*)
DraftDecided(p, kind) ==
    /\ kind \in DOMAIN DraftDecisions
    /\ asking[p][kind].step = "checked"
    /\ \E d \in asking[p][kind].about : draft' = [draft EXCEPT ![d].status = DraftDecisions[kind]]
    /\ To(p, kind, IF kind = "accept" THEN "audit" ELSE "done")
    /\ UNCHANGED <<audited, board, writing, form, reading>>

Audited(p) ==
    /\ asking[p]["accept"].step = "audit"
    /\ audited' = audited \union asking[p]["accept"].about
    /\ To(p, "accept", "done")
    /\ UNCHANGED <<draft, board, writing, form, reading>>

-----------------------------------------------------------------------------
(* The writing pages. *)

(* The studio offers to edit and decide only what it shows as undecided.   *)
StudioView == board["studio"].open

AskForDraft(p) ==
    /\ writing[p].step = "idle"
    /\ writing' = [writing EXCEPT ![p] = [step |-> "sent", about |-> board[p].show]]
    /\ UNCHANGED <<draftvars, board, asking, form, reading>>

AssistantGenerate == AskForDraft("assistant")
StudioGenerate == board["studio"].show # {} /\ AskForDraft("studio")

(* The assistant's screen is taken while an acceptance is under way.       *)
Overtakes(p, new) ==
    /\ overtook' = overtook \cup IF p = "assistant" /\ asking[p]["accept"].step # "idle"
                                THEN new \ asking[p]["accept"].about ELSE {}
    /\ UNCHANGED description

(* The new draft takes the screen, whatever was on it or was chosen since. *)
Generated(p) ==
    /\ writing[p].step = "done"
    /\ Overtakes(p, writing[p].about)
    /\ board' = [board EXCEPT ![p].draft = writing[p].about, ![p].open = TRUE, ![p].editing = FALSE]
    /\ writing' = [writing EXCEPT ![p] = Silent]
    /\ UNCHANGED <<draftvars, asking, reading>>

(* No AI just now, or the answer is lost and the draft stays behind.       *)
GenerateFails(p) ==
    /\ writing[p].step # "idle"
    /\ writing' = [writing EXCEPT ![p] = Silent]
    /\ UNCHANGED <<draftvars, board, asking, form, reading>>

StartEdit(p) ==
    /\ ~board[p].editing
    /\ board[p].draft # {}
    /\ p = "studio" => StudioView
    /\ board' = [board EXCEPT ![p].editing = TRUE]
    /\ UNCHANGED <<draftvars, writing, asking, form, reading>>

CancelEdit(p) ==
    /\ board[p].editing
    /\ board' = [board EXCEPT ![p].editing = FALSE]
    /\ UNCHANGED <<draftvars, writing, asking, form, reading>>

SendDraft(p, kind) ==
    /\ asking[p][kind].step = "idle"
    /\ board[p].draft # {}
    /\ asking' = [asking EXCEPT ![p][kind] = [step |-> "sent", about |-> board[p].draft]]
    /\ UNCHANGED <<draftvars, board, writing, form, reading>>

SaveEdit(p) == board[p].editing /\ SendDraft(p, "edit")

DecideDraft(p, kind) ==
    /\ kind # "edit"
    /\ p = "studio" => StudioView
    /\ SendDraft(p, kind)

Quiet(p, kind) == asking' = [asking EXCEPT ![p][kind] = Silent]

EditSaved(p) ==
    /\ asking[p]["edit"].step = "done"
    /\ board' = [board EXCEPT ![p].draft = asking[p]["edit"].about, ![p].editing = FALSE,
                            ![p].open = \A d \in asking[p]["edit"].about : draft[d].status = "DRAFT"]
    /\ Overtakes(p, asking[p]["edit"].about)
    /\ Quiet(p, "edit")
    /\ UNCHANGED <<draftvars, writing, reading>>

AcceptanceEnds(p, kind) ==
    overtook' = IF p = "assistant" /\ kind = "accept" THEN overtook \cap description' ELSE overtook

(* The assistant's decision is in: the handler of the latest render runs,  *)
(* so the text it takes into the form is that of the draft now on screen.  *)
UseDescription(kind) ==
    /\ kind # "edit"
    /\ asking["assistant"][kind].step = "done"
    /\ description' = IF kind = "accept" /\ board["assistant"].draft # {} THEN board["assistant"].draft ELSE description
    /\ board' = [board EXCEPT !["assistant"].draft = {}]
    /\ AcceptanceEnds("assistant", kind)
    /\ Quiet("assistant", kind)
    /\ UNCHANGED <<draftvars, writing, reading>>

(* The studio keeps an approved set on screen and drops a discarded one.   *)
Approved(kind) ==
    /\ kind # "edit"
    /\ asking["studio"][kind].step = "done"
    /\ board' = [board EXCEPT !["studio"].draft = IF kind = "accept" THEN asking["studio"][kind].about ELSE {},
                            !["studio"].open = FALSE]
    /\ Quiet("studio", kind)
    /\ UNCHANGED <<draftvars, writing, form, reading>>

(* Refused, or the answer is lost. *)
AnswerFails(p, kind) ==
    /\ asking[p][kind].step # "idle"
    /\ Quiet(p, kind)
    /\ UNCHANGED <<draftvars, board, writing, description, reading>>
    /\ AcceptanceEnds(p, kind)

(* Choosing an event clears the draft, though not what is being written    *)
(* for the event before.                                                   *)
ChooseEvent(e) ==
    /\ board["studio"].show # {e}
    /\ board' = [board EXCEPT !["studio"].show = {e}, !["studio"].draft = {}]
    /\ UNCHANGED <<draftvars, writing, asking, form, reading>>

(* A draft from the list; an edit that was open stays open on it.          *)
OpenPrevious(d) ==
    /\ draft[d].status # "NONE" /\ draft[d].about = board["studio"].show
    /\ board["studio"].show # {} /\ board["studio"].draft # {d}
    /\ board' = [board EXCEPT !["studio"].draft = {d}, !["studio"].open = draft[d].status = "DRAFT"]
    /\ UNCHANGED <<draftvars, writing, asking, form, reading>>

-----------------------------------------------------------------------------
StudioInit ==
    /\ draft = [d \in AiDrafts |-> [status |-> "NONE", about |-> {}]]
    /\ audited = {}
    /\ board = [p \in Writers |-> [show |-> {}, draft |-> {}, open |-> FALSE, editing |-> FALSE]]
    /\ writing = [p \in Writers |-> Silent]
    /\ asking = [p \in Writers |-> [kind \in DraftCalls |-> Silent]]
    /\ description = {} /\ overtook = {}
    /\ reading = [p \in Explainers |-> [topic |-> IF p = "ops" THEN {CHOOSE v \in Periods : TRUE} ELSE {},
                                        figures |-> {}, asked |-> {}, text |-> {}]]

Writes(p) ==
    \/ Generated(p) \/ GenerateFails(p) \/ StartEdit(p) \/ CancelEdit(p) \/ SaveEdit(p) \/ EditSaved(p) \/ DraftEdited(p) \/ Audited(p)
    \/ \E kind \in DraftCalls : OnlyOpen(p, kind) \/ DraftDecided(p, kind) \/ DecideDraft(p, kind) \/ AnswerFails(p, kind)

AssistantNext ==
    \/ AssistantGenerate \/ Writes("assistant")
    \/ \E d \in AiDrafts : EventAssistant(d)
    \/ \E kind \in DraftCalls : UseDescription(kind)

MarketingNext ==
    \/ StudioGenerate \/ Writes("studio")
    \/ \E d \in AiDrafts : Marketing(d) \/ OpenPrevious(d)
    \/ \E kind \in DraftCalls : Approved(kind)
    \/ \E e \in Shows : ChooseEvent(e)

ExplainNext ==
    \/ \E e \in Shows : SelectShow(e)
    \/ \E v \in Periods : SelectPeriod(v)
    \/ \E p \in Explainers : FiguresArrive(p)
    \/ Explain \/ Report \/ ExplainSales \/ OpsReport

StudioSpec == StudioInit /\ [][AssistantNext \/ MarketingNext \/ ExplainNext]_studiovars

-----------------------------------------------------------------------------
(* Properties. *)

(* Every variable keeps its type. *)
StudioTypeOK ==
    /\ draft \in [AiDrafts -> [status : {"NONE", "DRAFT", "ACCEPTED", "DISCARDED"}, about : SUBSET Shows]]
    /\ audited \subseteq AiDrafts
    /\ board \in [Writers -> [show : SUBSET Shows, draft : SUBSET AiDrafts, open : BOOLEAN, editing : BOOLEAN]]
    /\ writing \in [Writers -> [step : {"idle", "sent", "done"}, about : SUBSET (Shows \union AiDrafts)]]
    /\ asking \in [Writers -> [DraftCalls -> [step : {"idle", "sent", "checked", "refused", "audit", "done"}, about : SUBSET AiDrafts]]]
    /\ description \subseteq AiDrafts /\ overtook \subseteq AiDrafts
    /\ \A p \in Explainers : \A f \in DOMAIN reading[p] : reading[p][f] \subseteq Topics[p]

(* EventAssistantPanel.tsx:27-29 and insights/page.tsx:189: AI text is      *)
(* advice in its place.  The text in the event form is that of a draft the *)
(* server has put the acceptance of on record, whatever is answered late,  *)
(* refused, lost or regenerated meanwhile; the one exception is a draft    *)
(* that took the screen while the acceptance of another was under way, for *)
(* the panel then takes over what it shows.  And an explanation is never   *)
(* shown beside figures of another event or period, however late it comes. *)
AdviceInPlace ==
    /\ description \subseteq audited \cup overtook
    /\ \A p \in Explainers : reading[p].text \subseteq reading[p].topic
=============================================================================
