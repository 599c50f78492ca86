------------------------------ MODULE Admission ------------------------------
(***************************************************************************)
(* The gates of an event: the scanner page each gate has open              *)
(* (organizer/scan/page.tsx) and the check-in it asks the back end for     *)
(* (checkins.service.ts).  A gate first verifies a code, shows what it     *)
(* found, and commits the entry when the steward confirms; verifications   *)
(* and entries are answered in any order, late, or never.                  *)
(* An order that has tickets is PAID and stays so, and no code cancels or  *)
(* refunds a ticket: those refusals cannot be met and are left out.        *)
(***************************************************************************)
EXTENDS Naturals, FiniteSets, Functions

CONSTANTS
    Tickets,    \* codes of issued tickets
    Events,     \* the organizer's published events
    EventOf,    \* the event of each ticket
    Gates,      \* scanner pages open at once
    Nobody,     \* nothing selected, typed, scanned or shown
    MaxAsked    \* bound: verifications, and entries, of a gate under way

ASSUME AdmissionAssumption ==
    /\ Nobody \notin Tickets \cup Events
    /\ EventOf \in [Tickets -> Events]
    /\ MaxAsked \in Nat \ {0}

VARIABLES
    ticket,     \* Ticket.status: ACTIVE or USED
    checkIns,   \* CheckIn rows: the ticket, the event it was used at, and the proof it came with
    page,       \* the scanner page of each gate
    verifying,  \* verifications under way
    entries,    \* entries asked for and not finished
    admitted    \* per ticket, how often a steward was told "Checked in"

rows == <<ticket, checkIns>>
gatevars == <<rows, page, verifying, entries, admitted>>

-----------------------------------------------------------------------------
(* What a visitor holds.  Both the PDF and the page of the ticket carry    *)
(* the code and the stored QR image, which holds code and signature; a QR  *)
(* made by someone who only knows the code has no valid signature.         *)
Genuine(t) == [code |-> t, signed |-> TRUE]
PdfTicket(t) == {[code |-> t, qr |-> q] : q \in {Genuine(t), Nobody}}
ETicketContent(t) == {[code |-> t, qr |-> Genuine(t)]}
Presented ==
    ({p.qr : p \in UNION {PdfTicket(t) \cup ETicketContent(t) : t \in Tickets}} \ {Nobody})
        \cup [code : Tickets, signed : {FALSE}]

-----------------------------------------------------------------------------
(* The scanner page. *)

Blank(event) == [event |-> event, typed |-> Nobody, qr |-> Nobody, shown |-> Nobody]

(* reset: the event stays selected. *)
ResetGate(g) == page' = [page EXCEPT ![g] = Blank(@.event)]

SelectEvent(g, e) ==
    /\ page' = [page EXCEPT ![g] = Blank(e)]
    /\ UNCHANGED <<rows, verifying, entries, admitted>>

(* The camera and the manual lookup are there while no result is shown;    *)
(* switching the camera on and off is part of a scan.                      *)
Lookup(g) == page[g].event # Nobody /\ page[g].shown = Nobody
ResultView(g) == page[g].shown # Nobody

(* A verification asked for later is the pending one of the form. *)
VerifyMutation(g, code) ==
    /\ Cardinality({v \in verifying : v.gate = g}) < MaxAsked
    /\ verifying' = {[v EXCEPT !.last = @ /\ v.gate # g] : v \in verifying}
                    \cup {[gate |-> g, code |-> code, last |-> TRUE]}

HandleQrScan(g, q) ==
    /\ Lookup(g)
    /\ page' = [page EXCEPT ![g].qr = q]
    /\ VerifyMutation(g, q.code)
    /\ UNCHANGED <<rows, entries, admitted>>

TypeCode(g, code) ==
    /\ Lookup(g)
    /\ page' = [page EXCEPT ![g].typed = code]
    /\ UNCHANGED <<rows, verifying, entries, admitted>>

ManualLookup(g) ==
    /\ Lookup(g) /\ page[g].typed # Nobody
    /\ ~\E v \in verifying : v.gate = g /\ v.last
    /\ page' = [page EXCEPT ![g].qr = Nobody]
    /\ VerifyMutation(g, page[g].typed)
    /\ UNCHANGED <<rows, entries, admitted>>

UsedAsRead(t) == ticket[t] = "USED" \/ \E c \in checkIns : c.ticket = t

VerifyTicket(code) ==
    IF UsedAsRead(code) THEN "USED" ELSE "VALID"

(* Whatever the page has come to since, the answer is shown.  A code that  *)
(* is no ticket's and a request that fails are shown as an invalid ticket. *)
VerifyAnswered(v) ==
    /\ v \in verifying
    /\ verifying' = verifying \ {v}
    /\ \E status \in {VerifyTicket(v.code), "INVALID"} :
            page' = [page EXCEPT ![v.gate].shown = [code |-> v.code, status |-> status]]
    /\ UNCHANGED <<rows, entries, admitted>>

(* Confirm entry sends the scanned QR, or the code that is in the manual   *)
(* field, for the event that is selected now.                              *)
ConfirmEntry(g) ==
    /\ ResultView(g) /\ page[g].shown.status = "VALID"
    /\ ~\E en \in entries : en.gate = g /\ en.awaited
    /\ Cardinality({en \in entries : en.gate = g}) < MaxAsked
    /\ LET q == page[g].qr
           code == IF q # Nobody THEN q.code ELSE page[g].typed
           proof == CASE q = Nobody -> "manual" [] q # Nobody -> IF q.signed THEN "signature" ELSE "none"
       IN entries' = entries \cup {[gate |-> g, code |-> code, event |-> page[g].event, proof |-> proof,
                                    at |-> "sent", awaited |-> TRUE]}
    /\ UNCHANGED <<rows, page, verifying, admitted>>

(* The button stays usable while an entry is being committed. *)
ScanAnother(g) ==
    /\ ResultView(g)
    /\ ResetGate(g)
    /\ UNCHANGED <<rows, verifying, entries, admitted>>

-----------------------------------------------------------------------------
(* The check-in: the ticket is read and judged, and claimed afterwards. *)

Moves(en, at) == entries' = (entries \ {en}) \cup {[en EXCEPT !.at = at]}

Admissible(en) ==
    /\ en.code \in Tickets
    /\ EventOf[en.code] = en.event
    /\ en.proof \in {"manual", "signature"}
    /\ ~UsedAsRead(en.code)

PerformCheckIn(en) ==
    /\ en \in entries /\ en.at = "sent"
    /\ Moves(en, IF Admissible(en) THEN "judged" ELSE "refused")
    /\ UNCHANGED <<rows, page, verifying, admitted>>

(* Mutant: the claim trusts what was read. *)
ClaimAsRead(en) ==
    /\ en \in entries /\ en.at = "judged"
    /\ ticket' = [ticket EXCEPT ![en.code] = "USED"]
    /\ checkIns' = checkIns \cup {[ticket |-> en.code, event |-> en.event, proof |-> en.proof]}
    /\ Moves(en, "done")
    /\ UNCHANGED <<page, verifying, admitted>>

(* One transaction: the ticket if it is still ACTIVE, and its only CheckIn. *)
Claim(en) ==
    /\ en \in entries /\ en.at = "judged"
    /\ \/ /\ ticket[en.code] = "ACTIVE"
          /\ ticket' = [ticket EXCEPT ![en.code] = "USED"]
          /\ checkIns' = checkIns \cup {[ticket |-> en.code, event |-> en.event, proof |-> en.proof]}
          /\ Moves(en, "done")
       \/ /\ ticket[en.code] # "ACTIVE"
          /\ Moves(en, "refused")
          /\ UNCHANGED rows
    /\ UNCHANGED <<page, verifying, admitted>>

(* The answer counts and clears the page even when it shows another ticket *)
(* by now.                                                                 *)
EntryConfirmed(en) ==
    /\ en \in entries /\ en.at = "done" /\ en.awaited
    /\ entries' = entries \ {en}
    /\ admitted' = [admitted EXCEPT ![en.code] = @ + 1]
    /\ ResetGate(en.gate)
    /\ UNCHANGED <<rows, verifying>>

EntryRefused(en) ==
    /\ en \in entries /\ en.at = "refused"
    /\ entries' = entries \ {en}
    /\ UNCHANGED <<rows, page, verifying, admitted>>

(* The connection breaks: the page reports an error and may ask again,     *)
(* while the back end works on.                                            *)
AnswerLost(en) ==
    /\ en \in entries /\ en.awaited
    /\ entries' = (entries \ {en})
                  \cup (IF en.at = "done" THEN {} ELSE {[en EXCEPT !.awaited = FALSE]})
    /\ UNCHANGED <<rows, page, verifying, admitted>>

WorkedOnAfterLoss(en) ==
    /\ en \in entries /\ en.at = "done" /\ ~en.awaited
    /\ entries' = entries \ {en}
    /\ UNCHANGED <<rows, page, verifying, admitted>>

-----------------------------------------------------------------------------
GateInit ==
    /\ ticket = [t \in Tickets |-> "ACTIVE"]
    /\ checkIns = {}
    /\ page = [g \in Gates |-> Blank(Nobody)]
    /\ verifying = {} /\ entries = {}
    /\ admitted = [t \in Tickets |-> 0]

GateNext ==
    \/ \E g \in Gates :
        \/ \E e \in Events : SelectEvent(g, e)
        \/ ManualLookup(g) \/ ConfirmEntry(g) \/ ScanAnother(g)
        \/ \E q \in Presented : HandleQrScan(g, q)
        \/ \E code \in Tickets : TypeCode(g, code)
    \/ \E v \in verifying : VerifyAnswered(v)
    \/ \E en \in entries :
        \/ PerformCheckIn(en) \/ Claim(en) \/ EntryConfirmed(en) \/ EntryRefused(en)
        \/ AnswerLost(en) \/ WorkedOnAfterLoss(en)

GateSpec == GateInit /\ [][GateNext]_gatevars

-----------------------------------------------------------------------------
GateTypeOK ==
    /\ ticket \in [Tickets -> {"ACTIVE", "USED"}]
    /\ admitted \in [Tickets -> Nat]
    /\ \A c \in checkIns : c.ticket \in Tickets /\ c.event \in Events
    /\ \A g \in Gates : page[g].event \in Events \cup {Nobody} /\ page[g].typed \in Tickets \cup {Nobody}
    /\ \A en \in entries : en.at \in {"sent", "judged", "done", "refused"}

(* A ticket lets in one visitor, at its own event and on its signature or  *)
(* by hand: however many gates read the same ticket at the same instant,   *)
(* lost answers are asked again and pages move on, at most one steward is  *)
(* told "Checked in" for it, and only for a ticket that is spent.          *)
AdmittedOnce ==
    \A t \in Tickets :
        /\ admitted[t] + Cardinality({en \in entries : en.code = t /\ en.at = "done"}) <= 1
        /\ admitted[t] = 1 => ticket[t] = "USED"
        /\ ticket[t] = "USED" <=> \E c \in checkIns : c.ticket = t
        /\ \A c \in checkIns : c.ticket = t => c.event = EventOf[t] /\ c.proof # "none"
=============================================================================
