----------------------------- MODULE SupportDesk -----------------------------
(***************************************************************************)
(* Customer support: the chat widget of one browser (SupportChat.tsx), the *)
(* conversations, answers and tickets behind it (support.service.ts) and   *)
(* the admins' support page.                                               *)
(* The widget stays in place while its reader signs in, out or in as       *)
(* somebody else, in this tab or in another one, and requests that are     *)
(* under way then finish as what they were sent as.  What an answer says   *)
(* is kept as what it claims, which events it cites and whose orders it    *)
(* draws on; the language model may say anything.                          *)
(***************************************************************************)
EXTENDS Naturals, Sequences, FiniteSets

CONSTANTS
    Readers,        \* users who may sign in on this browser
    Anon,           \* nobody: a visitor who is not signed in
    Convs,          \* conversations that may come to exist
    NoConv,
    Listed,         \* events that are published and still to come
    Drafts,         \* other events
    MaxDesk,        \* bound: support tickets
    MaxCalls        \* bound: requests of the browser under way

ASSUME SupportAssumption == Anon \notin Readers /\ NoConv \notin Convs /\ MaxDesk \in Nat /\ MaxCalls \in Nat

VARIABLES
    payers,         \* users with a PAID order
    owner,          \* SupportConversation.userId, Anon for a visitor's
    convStatus,     \* SupportConversation.status, or NONE before it exists and GONE after
    grounded,       \* conversations with an answer drawn from their owner's orders
    desk,           \* SupportTicket rows
    purging,        \* what the purge has read, while it is under way
    reader,         \* the user the page shows as signed in
    bearer,         \* whose access token is in localStorage
    widget,         \* conversationId, accessToken (by its conversation) and sending
    saved,          \* the conversation kept in sessionStorage with its token
    shown,          \* users whose orders the messages on screen draw on
    misdirected,    \* history: other users than the reader as whom a message was sent that is
                    \* answered into this screen
    calls           \* requests under way

convRows == <<owner, convStatus, grounded>>
screen == <<shown, misdirected>>
browser == <<reader, bearer, widget, saved, screen>>
supportvars == <<payers, convRows, desk, purging, browser, calls>>

Alive(c) == convStatus[c] \in {"OPEN", "ESCALATED"}
Plain == [claims |-> {}, cites |-> {}]

-----------------------------------------------------------------------------
(* What may be said. *)

FindEvents == Listed

(* Every answer the model may give that its schema lets through. *)
SupportAnswer == [claims : SUBSET {"paid", "refund", "cancel"}, cites : SUBSET (Listed \cup Drafts)]

FindUnsupportedClaims(answer, paid) ==
    \/ "paid" \in answer.claims /\ ~paid
    \/ "refund" \in answer.claims /\ "cancel" \notin answer.claims

(* The help centre speaks of no order and no event. *)
HelpArticles == {Plain}
FallbackAnswer == HelpArticles
StateChangeRefusal == {Plain}

(* The answers to a message: a refusal when it asks to change a payment,   *)
(* the help centre when the model is not available, and otherwise what the *)
(* model says, checked.                                                    *)
Answers(paid) ==
    StateChangeRefusal \cup FallbackAnswer
        \cup {IF FindUnsupportedClaims(a, paid) THEN Plain ELSE [a EXCEPT !.cites = @ \cap FindEvents] :
                a \in SupportAnswer}

-----------------------------------------------------------------------------
(* Access. *)

(* Mutant: whoever is signed in. *)
OwnsSignedIn(c, r) ==
    \/ owner[c] # Anon /\ r.as # Anon
    \/ owner[c] = Anon /\ r.token = c

(* loadConversation: its user, or whoever holds the token of a visitor's. *)
Owns(c, r) ==
    \/ owner[c] # Anon /\ r.as = owner[c]
    \/ owner[c] = Anon /\ r.token = c

Refused(r) == r.conv # NoConv /\ (~Alive(r.conv) \/ ~Owns(r.conv, r))

-----------------------------------------------------------------------------
(* The widget. *)

ResetChat(keep) == widget' = [conv |-> keep, token |-> keep, sending |-> widget.sending]

(* As whom the messages under way were sent, if not as the reader u.       *)
Strays(requests, u) == {r.as : r \in {s \in requests : s.kind = "chat"}} \ {u, Anon}

(* The account changes in this tab, or the page loads again after it has   *)
(* changed in another: the chat is reset, and a visitor's is resumed.      *)
AccountChanges(u) ==
    /\ u # reader
    /\ reader' = u /\ bearer' = u
    /\ IF u = Anon /\ saved # NoConv
       THEN ResetChat(saved) ELSE widget' = [widget EXCEPT !.conv = NoConv]
    /\ shown' = {} /\ misdirected' = Strays(calls, u)
    /\ UNCHANGED <<payers, convRows, desk, purging, saved, calls>>

OtherTabChanges(u) ==
    /\ u # bearer
    /\ bearer' = u
    /\ UNCHANGED <<payers, convRows, desk, purging, reader, widget, saved, screen, calls>>

(* What a request is sent as: signed out with the token of the widget, or  *)
(* with the bearer of that moment, if there is one.                        *)
Call(kind) ==
    [kind |-> kind, conv |-> widget.conv, as |-> IF reader = Anon THEN Anon ELSE bearer,
     token |-> IF reader = Anon THEN widget.token ELSE NoConv,
     at |-> "sent", paid |-> FALSE, fresh |-> FALSE, about |-> {}, answer |-> Plain]

(* The panel: a message is sent once the last one is answered, a person is *)
(* asked for at any time.                                                  *)
ChatPanel(kind) == kind = "chat" => ~widget.sending

Asks(kind) ==
    /\ ChatPanel(kind)
    /\ Cardinality(calls) < MaxCalls
    /\ calls' = calls \cup {Call(kind)}

Send ==
    /\ reader # Anon => bearer # Anon
    /\ widget' = [widget EXCEPT !.sending = TRUE]
    /\ Asks("chat")
    /\ misdirected' = misdirected \cup Strays(calls', reader)
    /\ UNCHANGED <<payers, convRows, desk, purging, reader, bearer, saved, shown>>

(* A visitor's transcript is fetched when it is resumed. *)
ResumeTranscript ==
    /\ reader = Anon /\ widget.conv # NoConv /\ ~\E r \in calls : r.kind = "resume"
    /\ Asks("resume")
    /\ UNCHANGED <<payers, convRows, desk, purging, browser>>

(* EscalateForm; it may be left and opened again while it is busy. *)
EscalateForm ==
    /\ reader # Anon => bearer # Anon
    /\ Asks("ticket")
    /\ UNCHANGED <<payers, convRows, desk, purging, browser>>

NewChat ==
    /\ saved' = NoConv
    /\ widget' = [widget EXCEPT !.conv = NoConv, !.token = NoConv]
    /\ shown' = {} /\ misdirected' = Strays(calls, reader)
    /\ UNCHANGED <<payers, convRows, desk, purging, reader, bearer, calls>>

Moved(r, s) == calls' = (calls \ {r}) \cup {s}

(* The reply is added to whatever chat is shown by now, to whoever reads   *)
(* it, and sets its conversation.                                          *)
ChatReplied(r) ==
    /\ r \in calls /\ r.kind = "chat" /\ r.at = "answered"
    /\ calls' = calls \ {r}
    /\ widget' = [conv |-> r.conv, token |-> IF r.fresh THEN r.conv ELSE widget.token, sending |-> FALSE]
    /\ saved' = IF r.fresh THEN r.conv ELSE saved
    /\ shown' = shown \cup r.about
    /\ UNCHANGED <<payers, convRows, desk, purging, reader, bearer, misdirected>>

TranscriptShown(r) ==
    /\ r \in calls /\ r.kind = "resume" /\ r.at = "answered"
    /\ calls' = calls \ {r}
    /\ shown' = r.about
    /\ UNCHANGED <<payers, convRows, desk, purging, reader, bearer, widget, saved, misdirected>>

(* Refused, failed or lost; a transcript that cannot be had is forgotten.  *)
CallFails(r) ==
    /\ r \in calls
    /\ calls' = calls \ {r}
    /\ widget' = [widget EXCEPT !.sending = @ /\ r.kind # "chat"]
    /\ saved' = IF r.kind = "resume" THEN NoConv ELSE saved
    /\ UNCHANGED <<payers, convRows, desk, purging, reader, bearer, screen>>

-----------------------------------------------------------------------------
(* The back end. *)

(* chat: the conversation is found or created, and the message stored. *)
ChatContinues(r) ==
    /\ r \in calls /\ r.kind = "chat" /\ r.at = "sent" /\ r.conv # NoConv
    /\ ~Refused(r)
    /\ Moved(r, [r EXCEPT !.at = "stored"])
    /\ UNCHANGED <<payers, convRows, desk, purging, browser>>

ChatOpens(r) ==
    /\ r \in calls /\ r.kind = "chat" /\ r.at = "sent" /\ r.conv = NoConv
    /\ \E c \in Convs :
        /\ convStatus[c] = "NONE"
        /\ convStatus' = [convStatus EXCEPT ![c] = "OPEN"]
        /\ owner' = [owner EXCEPT ![c] = r.as]
        /\ Moved(r, [r EXCEPT !.at = "stored", !.conv = c, !.fresh = (r.as = Anon)])
    /\ UNCHANGED <<payers, grounded, desk, purging, browser>>

(* The history of the conversation and, for a user, their own orders. *)
FindOwnOrders(r) ==
    /\ r \in calls /\ r.kind = "chat" /\ r.at = "stored"
    /\ LET c == r.conv
           history == IF grounded[c] THEN {owner[c]} ELSE {}
           orders == IF r.as # Anon THEN {r.as} ELSE {}
       IN Moved(r, [r EXCEPT !.at = "read", !.paid = (r.as \in payers), !.about = history \cup orders])
    /\ UNCHANGED <<payers, convRows, desk, purging, browser>>

(* The answer is stored, unless the conversation has been purged. *)
ChatAnswered(r) ==
    /\ r \in calls /\ r.kind = "chat" /\ r.at = "read"
    /\ Alive(r.conv)
    /\ \E a \in Answers(r.paid) : Moved(r, [r EXCEPT !.at = "answered", !.paid = FALSE, !.answer = a])
    /\ grounded' = [grounded EXCEPT ![r.conv] = @ \/ r.as # Anon]
    /\ UNCHANGED <<payers, owner, convStatus, desk, purging, browser>>

GetConversation(r) ==
    /\ r \in calls /\ r.kind = "resume" /\ r.at = "sent"
    /\ ~Refused(r)
    /\ Moved(r, [r EXCEPT !.at = "answered", !.about = IF grounded[r.conv] THEN {owner[r.conv]} ELSE {}])
    /\ UNCHANGED <<payers, convRows, desk, purging, browser>>

(* createTicket: an existing ticket of the conversation is returned ... *)
CreateTicketChecks(r) ==
    /\ r \in calls /\ r.kind = "ticket" /\ r.at = "sent"
    /\ ~Refused(r)
    /\ IF r.conv # NoConv /\ \E i \in DOMAIN desk : desk[i].conv = r.conv
       THEN calls' = calls \ {r} ELSE Moved(r, [r EXCEPT !.at = "checked"])
    /\ UNCHANGED <<payers, convRows, desk, purging, browser>>

(* ... or one is created; its conversation may be gone by then, and the    *)
(* request then fails after the ticket was made.                           *)
CreateTicket(r) ==
    /\ r \in calls /\ r.kind = "ticket" /\ r.at = "checked"
    /\ Len(desk) < MaxDesk
    /\ desk' = Append(desk, [conv |-> r.conv, status |-> "OPEN", note |-> FALSE])
    /\ convStatus' = [c \in Convs |-> IF c = r.conv /\ Alive(c) THEN "ESCALATED" ELSE convStatus[c]]
    /\ calls' = calls \ {r}
    /\ UNCHANGED <<payers, owner, grounded, purging, browser>>

(* An order that is paid stays paid. *)
OrderPaid(u) ==
    /\ u \notin payers
    /\ payers' = payers \cup {u}
    /\ UNCHANGED <<convRows, desk, purging, browser, calls>>

(* purgeOldConversations reads what open tickets need, and deletes what    *)
(* else is old; which conversations are is left open, and a ticket may be  *)
(* made in between.                                                        *)
PurgeReads ==
    /\ purging = {}
    /\ purging' = {{desk[i].conv : i \in {j \in DOMAIN desk : desk[j].status \in {"OPEN", "IN_PROGRESS"}}}}
    /\ UNCHANGED <<payers, convRows, desk, browser, calls>>

PurgeDeletes ==
    /\ \E linked \in purging, old \in SUBSET {c \in Convs : Alive(c)} :
        convStatus' = [c \in Convs |-> IF c \in old \ linked THEN "GONE" ELSE convStatus[c]]
    /\ purging' = {}
    /\ UNCHANGED <<payers, owner, grounded, desk, browser, calls>>

-----------------------------------------------------------------------------
(* The admins' page: a card per ticket, with its transcript. *)

Resolving(status) == status \in {"RESOLVED", "CLOSED"}

(* The card sends a note only when there is one. *)
TicketCard == [status : {"OPEN", "IN_PROGRESS", "RESOLVED", "CLOSED"}, note : BOOLEAN]

(* The row is read before it is written; a note is never taken back, so    *)
(* what was read of it stays true.                                         *)
AdminUpdateTicket(i, patch) ==
    /\ Resolving(patch.status) => patch.note \/ desk[i].note
    /\ desk' = [desk EXCEPT ![i].status = patch.status, ![i].note = @ \/ patch.note]
    /\ UNCHANGED <<payers, convRows, purging, browser, calls>>

-----------------------------------------------------------------------------
SupportInit ==
    /\ payers = {} /\ desk = <<>> /\ purging = {} /\ calls = {}
    /\ owner = [c \in Convs |-> Anon] /\ convStatus = [c \in Convs |-> "NONE"]
    /\ grounded = [c \in Convs |-> FALSE]
    /\ reader = Anon /\ bearer = Anon /\ saved = NoConv
    /\ shown = {} /\ misdirected = {}
    /\ widget = [conv |-> NoConv, token |-> NoConv, sending |-> FALSE]

SupportNext ==
    \/ \E u \in Readers \cup {Anon} : AccountChanges(u) \/ OtherTabChanges(u)
    \/ Send \/ ResumeTranscript \/ EscalateForm \/ NewChat
    \/ \E r \in calls :
        \/ ChatReplied(r) \/ TranscriptShown(r) \/ CallFails(r)
        \/ ChatContinues(r) \/ ChatOpens(r) \/ FindOwnOrders(r) \/ ChatAnswered(r)
        \/ GetConversation(r) \/ CreateTicketChecks(r) \/ CreateTicket(r)
    \/ \E u \in Readers : OrderPaid(u)
    \/ PurgeReads \/ PurgeDeletes
    \/ \E i \in DOMAIN desk, patch \in TicketCard : AdminUpdateTicket(i, patch)

SupportSpec == SupportInit /\ [][SupportNext]_supportvars

-----------------------------------------------------------------------------
SupportTypeOK ==
    /\ payers \subseteq Readers
    /\ owner \in [Convs -> Readers \cup {Anon}]
    /\ convStatus \in [Convs -> {"NONE", "OPEN", "ESCALATED", "GONE"}]
    /\ shown \subseteq Readers /\ misdirected \subseteq Readers
    /\ widget.conv \in Convs \cup {NoConv} /\ widget.token \in Convs \cup {NoConv}
    /\ Len(desk) <= MaxDesk
    /\ \A r \in calls : r.at \in {"sent", "stored", "read", "answered", "checked"}

(* "The assistant must never fabricate payment confirmation or refund      *)
(* eligibility", nor speak of anybody else's orders.  An answer draws on   *)
(* the orders of whoever the message was sent as, tells of a payment only  *)
(* who has paid, and of published events only; and the messages on screen  *)
(* draw on the orders of the user who is signed in there by now, however   *)
(* accounts change while requests and a slow model are under way.          *)
(* What the widget does not prevent is excepted, and no more: the reply to *)
(* a message that was under way when the account changed, or that went out *)
(* with the bearer of another tab, is shown to whoever reads it by then.   *)
ToldTheTruth ==
    /\ \A r \in calls :
        /\ r.at = "answered" => r.about \subseteq {r.as}
        /\ "paid" \in r.answer.claims => r.as \in payers
        /\ "refund" \in r.answer.claims => "cancel" \in r.answer.claims
        /\ r.answer.cites \subseteq Listed
    /\ shown \subseteq {reader} \cup misdirected
=============================================================================
