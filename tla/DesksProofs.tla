----------------------------- MODULE DesksProofs -----------------------------
(***************************************************************************)
(* Proofs about the desks at which people and requests meet, for any       *)
(* number of requests, tickets, gates, runs, admins, readers, callers and  *)
(* drafts: the gate, the representative's identity check, the alerts, the  *)
(* pages that write, support, the AI gateway, the password reset, and all  *)
(* of them side by side.                                                   *)
(***************************************************************************)
EXTENDS MCDesks, SumTheorems, TLAPS

-----------------------------------------------------------------------------
(* Admission: a ticket lets in one visitor.                                 *)

Codes == [code : Tickets, signed : BOOLEAN]
Pages == [event : Events \cup {Nobody}, typed : Tickets \cup {Nobody},
          qr : Codes \cup {Nobody}, shown : [code : Tickets, status : {"USED", "VALID", "INVALID"}] \cup {Nobody}]
Verifications == [gate : Gates, code : Tickets, last : BOOLEAN]
Entries == [gate : Gates, code : Tickets \cup {Nobody}, event : Events \cup {Nobody},
            proof : {"manual", "signature", "none"}, at : {"sent", "judged", "done", "refused"},
            awaited : BOOLEAN]

GateTypes ==
  /\ ticket \in [Tickets -> {"ACTIVE", "USED"}]
  /\ admitted \in [Tickets -> Nat]
  /\ checkIns \subseteq [ticket : Tickets, event : Events, proof : {"manual", "signature"}]
  /\ page \in [Gates -> Pages]
  /\ verifying \subseteq Verifications
  /\ entries \subseteq Entries

\* An entry that was judged is of a ticket, at its event and with a proof.
JudgedSound == \A en \in entries : en.at \in {"judged", "done"} =>
                 en.code \in Tickets /\ en.event = EventOf[en.code] /\ en.proof # "none"

\* A ticket is spent by its only check-in; whoever is let in, or about to be, came with a
\* spent ticket, and nobody else comes with the same.
SpentOnce ==
  /\ \A t \in Tickets : ticket[t] = "USED" <=> \E c \in checkIns : c.ticket = t
  /\ \A c \in checkIns : c.event = EventOf[c.ticket]
  /\ \A en \in entries : en.at = "done" => ticket[en.code] = "USED" /\ admitted[en.code] = 0
  /\ \A a, b \in entries : a.at = "done" /\ b.at = "done" /\ a.code = b.code => a = b
  /\ \A t \in Tickets : admitted[t] \in {0, 1} /\ (admitted[t] = 1 => ticket[t] = "USED")

GateInv == GateTypes /\ JudgedSound /\ SpentOnce

LEMMA PresentedTypes == Presented \subseteq Codes
<1> DEFINE Held == UNION {PdfTicket(t) \cup ETicketContent(t) : t \in Tickets}
<1>1. ASSUME NEW p \in Held PROVE p.qr \in Codes \cup {Nobody}
  <2>1. PICK t \in Tickets : p \in PdfTicket(t) \cup ETicketContent(t)
    OBVIOUS
  <2>2. Genuine(t) \in Codes
    BY DEF Genuine, Codes
  <2>3. p.qr \in {Genuine(t), Nobody}
    BY <2>1 DEF PdfTicket, ETicketContent
  <2> QED
    BY <2>2, <2>3
<1>2. {p.qr : p \in Held} \ {Nobody} \subseteq Codes
  BY <1>1
<1>3. [code : Tickets, signed : {FALSE}] \subseteq Codes
  BY DEF Codes
<1> QED
  BY <1>2, <1>3 DEF Presented

LEMMA GateInitInv == GateInit => GateInv
BY DEF GateInit, GateInv, GateTypes, JudgedSound, SpentOnce, Blank, Pages

\* Steps of a page or a verification: rows, entries and admissions stay.
LEMMA PageStep ==
  ASSUME GateInv, UNCHANGED <<rows, entries, admitted>>, page' \in [Gates -> Pages],
         verifying' \subseteq Verifications
  PROVE GateInv'
BY DEF GateInv, GateTypes, JudgedSound, SpentOnce, rows

LEMMA VerifyTypes ==
  ASSUME GateInv, NEW g \in Gates, NEW code \in Tickets, VerifyMutation(g, code)
  PROVE verifying' \subseteq Verifications
<1>1. \A v \in verifying : [v EXCEPT !.last = @ /\ v.gate # g] \in Verifications
  <2> SUFFICES ASSUME NEW v \in verifying
               PROVE [v EXCEPT !.last = @ /\ v.gate # g] \in Verifications
    OBVIOUS
  <2>1. v \in Verifications /\ (v.last /\ v.gate # g) \in BOOLEAN
    BY DEF GateInv, GateTypes
  <2> QED
    BY <2>1 DEF Verifications
<1>2. [gate |-> g, code |-> code, last |-> TRUE] \in Verifications
  BY DEF Verifications
<1> QED
  BY <1>1, <1>2 DEF VerifyMutation

\* Steps of an entry that admit nobody: en gives way to its next state, or to nothing.
LEMMA EntryStep ==
  ASSUME GateInv, NEW en, UNCHANGED <<rows, page, verifying, admitted>>,
         \/ entries' = entries \ {en}
         \/ \E next \in Entries :
              /\ entries' = (entries \ {en}) \cup {next} \/ entries' = entries \cup {next}
              /\ next.at # "done"
              /\ next.at = "judged" => /\ next.code \in Tickets
                                       /\ next.event = EventOf[next.code]
                                       /\ next.proof # "none"
  PROVE GateInv'
<1>1. entries' \subseteq Entries /\ JudgedSound'
  BY DEF GateInv, GateTypes, JudgedSound
<1>2. \A x \in entries' : x.at = "done" => x \in entries
  OBVIOUS
<1> QED
  BY <1>1, <1>2 DEF GateInv, GateTypes, SpentOnce, rows

LEMMA GateStep == GateInv /\ [GateNext]_gatevars => GateInv'
<1> SUFFICES ASSUME GateInv, [GateNext]_gatevars PROVE GateInv'
  OBVIOUS
<1> USE AdmissionAssumption
<1>1. CASE UNCHANGED gatevars
  BY <1>1 DEF gatevars, rows, GateInv, GateTypes, JudgedSound, SpentOnce
<1>2. ASSUME NEW g \in Gates, NEW e \in Events, SelectEvent(g, e) PROVE GateInv'
  <2>1. Blank(e) \in Pages
    BY DEF Blank, Pages
  <2> QED
    BY <1>2, <2>1, PageStep DEF SelectEvent, GateInv, GateTypes
<1>3. ASSUME NEW g \in Gates, NEW q \in Presented, HandleQrScan(g, q) PROVE GateInv'
  <2>1. q \in Codes /\ q.code \in Tickets
    BY PresentedTypes DEF Codes
  <2>2. page' \in [Gates -> Pages]
    BY <1>3, <2>1 DEF HandleQrScan, GateInv, GateTypes, Pages
  <2> QED
    BY <1>3, <2>1, <2>2, PageStep, VerifyTypes DEF HandleQrScan
<1>4. ASSUME NEW g \in Gates, NEW code \in Tickets, TypeCode(g, code) PROVE GateInv'
  <2>1. page' \in [Gates -> Pages]
    BY <1>4 DEF TypeCode, GateInv, GateTypes, Pages
  <2> QED
    BY <1>4, <2>1, PageStep DEF TypeCode, GateInv, GateTypes
<1>5. ASSUME NEW g \in Gates, ManualLookup(g) PROVE GateInv'
  <2>1. page[g].typed \in Tickets /\ page' \in [Gates -> Pages]
    BY <1>5 DEF ManualLookup, GateInv, GateTypes, Pages
  <2> QED
    BY <1>5, <2>1, PageStep, VerifyTypes DEF ManualLookup
<1>6. ASSUME NEW g \in Gates, ScanAnother(g) PROVE GateInv'
  <2>1. Blank(page[g].event) \in Pages
    BY DEF Blank, Pages, GateInv, GateTypes
  <2> QED
    BY <1>6, <2>1, PageStep DEF ScanAnother, ResetGate, GateInv, GateTypes
<1>7. ASSUME NEW v \in verifying, VerifyAnswered(v) PROVE GateInv'
  <2>1. v.gate \in Gates /\ v.code \in Tickets
    BY DEF GateInv, GateTypes, Verifications
  <2>2. PICK status \in {"USED", "VALID", "INVALID"} :
          page' = [page EXCEPT ![v.gate].shown = [code |-> v.code, status |-> status]]
    BY <1>7 DEF VerifyAnswered, VerifyTicket
  <2>3. page' \in [Gates -> Pages]
    BY <2>1, <2>2, SMTT(30) DEF GateInv, GateTypes, Pages
  <2> QED
    BY <1>7, <2>3, PageStep DEF VerifyAnswered, GateInv, GateTypes
<1>8. ASSUME NEW g \in Gates, ConfirmEntry(g) PROVE GateInv'
  <2>1. page[g] \in Pages
    BY DEF GateInv, GateTypes
  <2> DEFINE q == page[g].qr
             code == IF q # Nobody THEN q.code ELSE page[g].typed
             proof == CASE q = Nobody -> "manual"
                        [] q # Nobody -> IF q.signed THEN "signature" ELSE "none"
             asked == [gate |-> g, code |-> code, event |-> page[g].event, proof |-> proof,
                       at |-> "sent", awaited |-> TRUE]
  <2>2. code \in Tickets \cup {Nobody} /\ proof \in {"manual", "signature", "none"}
    BY <2>1 DEF Pages, Codes
  <2>3. entries' = entries \cup {asked}
    BY <1>8 DEF ConfirmEntry
  <2>4. asked \in Entries /\ asked.at = "sent"
    <3> HIDE DEF code, proof
    <3> QED
      BY <2>1, <2>2 DEF Entries, Pages
  <2> QED
    <3> HIDE DEF asked
    <3> QED
      BY <1>8, <2>3, <2>4, EntryStep DEF ConfirmEntry
<1>9. ASSUME NEW en \in entries, PerformCheckIn(en) PROVE GateInv'
  <2> DEFINE next == [en EXCEPT !.at = IF Admissible(en) THEN "judged" ELSE "refused"]
  <2>1. en \in Entries
    BY DEF GateInv, GateTypes
  <2>2. /\ next \in Entries /\ next.code = en.code /\ next.event = en.event /\ next.proof = en.proof
        /\ next.at = IF Admissible(en) THEN "judged" ELSE "refused"
    BY <2>1 DEF Entries
  <2>3. next.at = "judged" => en.code \in Tickets /\ en.event = EventOf[en.code] /\ en.proof # "none"
    BY <2>2 DEF Admissible
  <2>4. entries' = (entries \ {en}) \cup {next}
    BY <1>9 DEF PerformCheckIn, Moves
  <2> HIDE DEF next
  <2> QED
    BY <1>9, <2>2, <2>3, <2>4, EntryStep DEF PerformCheckIn
<1>10. ASSUME NEW en \in entries, Claim(en) PROVE GateInv'
  <2>1. /\ en \in Entries /\ en.at = "judged" /\ en.code \in Tickets
        /\ en.event = EventOf[en.code] /\ en.proof # "none"
    BY <1>10 DEF Claim, GateInv, GateTypes, JudgedSound
  <2>2. CASE ticket[en.code] # "ACTIVE"
    <3> DEFINE next == [en EXCEPT !.at = "refused"]
    <3>1. next \in Entries /\ next.at = "refused"
      BY <2>1 DEF Entries
    <3>2. entries' = (entries \ {en}) \cup {next} /\ UNCHANGED <<rows, page, verifying, admitted>>
      BY <1>10, <2>2 DEF Claim, Moves
    <3> QED
      BY <3>1, <3>2, EntryStep
  <2>3. CASE ticket[en.code] = "ACTIVE"
    <3>1. PICK next : next = [en EXCEPT !.at = "done"]
      OBVIOUS
    <3>2. next \in Entries /\ next.at = "done" /\ next.code = en.code /\ next.event = en.event
          /\ next.proof = en.proof
      BY <2>1, <3>1 DEF Entries
    <3>3. PICK c : c = [ticket |-> en.code, event |-> en.event, proof |-> en.proof]
      OBVIOUS
    <3>4. /\ ticket' = [ticket EXCEPT ![en.code] = "USED"]
          /\ checkIns' = checkIns \cup {c}
          /\ entries' = (entries \ {en}) \cup {next}
          /\ UNCHANGED <<page, verifying, admitted>>
      BY <1>10, <2>3, <3>1, <3>3 DEF Claim, Moves
    <3>5. c.ticket = en.code /\ c.event = EventOf[en.code]
          /\ c \in [ticket : Tickets, event : Events, proof : {"manual", "signature"}]
      BY <2>1, <3>3 DEF Entries
    <3>6. GateTypes'
      BY <3>2, <3>4, <3>5 DEF GateInv, GateTypes
    <3>7. JudgedSound'
      BY <2>1, <3>2, <3>4 DEF GateInv, JudgedSound
    <3>8. \A x \in entries : x.at = "done" => x.code # en.code
      BY <2>3 DEF GateInv, SpentOnce
    <3>9. admitted[en.code] = 0
      BY <2>1, <2>3 DEF GateInv, SpentOnce
    <3>10. \A t \in Tickets : ticket'[t] = "USED" <=> \E d \in checkIns' : d.ticket = t
      BY <2>1, <3>4, <3>5 DEF GateInv, GateTypes, SpentOnce
    <3>11. \A d \in checkIns' : d.event = EventOf[d.ticket]
      BY <3>4, <3>5 DEF GateInv, SpentOnce
    <3>12. \A x \in entries' : x.at = "done" => ticket'[x.code] = "USED" /\ admitted'[x.code] = 0
      <4> SUFFICES ASSUME NEW x \in entries', x.at = "done"
                   PROVE ticket'[x.code] = "USED" /\ admitted'[x.code] = 0
        OBVIOUS
      <4>1. CASE x = next
        BY <2>1, <3>2, <3>4, <3>9, <4>1 DEF GateInv, GateTypes
      <4>2. CASE x # next
        BY <2>1, <3>4, <4>2 DEF GateInv, GateTypes, JudgedSound, SpentOnce
      <4> QED
        BY <4>1, <4>2
    <3>13. \A a, b \in entries' : a.at = "done" /\ b.at = "done" /\ a.code = b.code => a = b
      BY <3>2, <3>4, <3>8 DEF GateInv, SpentOnce
    <3>14. \A t \in Tickets : admitted'[t] \in {0, 1} /\ (admitted'[t] = 1 => ticket'[t] = "USED")
      BY <2>1, <3>4 DEF GateInv, GateTypes, SpentOnce
    <3> QED
      BY <3>6, <3>7, <3>10, <3>11, <3>12, <3>13, <3>14 DEF GateInv, SpentOnce
  <2> QED
    BY <2>2, <2>3
<1>11. ASSUME NEW en \in entries, EntryConfirmed(en) PROVE GateInv'
  <2>1. /\ en \in Entries /\ en.at = "done" /\ en.code \in Tickets /\ en.gate \in Gates
        /\ ticket[en.code] = "USED" /\ admitted[en.code] = 0
    BY <1>11 DEF EntryConfirmed, GateInv, GateTypes, JudgedSound, SpentOnce, Entries
  <2>2. /\ entries' = entries \ {en}
        /\ admitted' = [admitted EXCEPT ![en.code] = @ + 1]
        /\ page' = [page EXCEPT ![en.gate] = Blank(@.event)]
        /\ UNCHANGED <<ticket, checkIns, verifying>>
    BY <1>11 DEF EntryConfirmed, ResetGate, rows
  <2>3. admitted'[en.code] = 1 /\ \A t \in Tickets : t # en.code => admitted'[t] = admitted[t]
    BY <2>1, <2>2 DEF GateInv, GateTypes
  <2>4. Blank(page[en.gate].event) \in Pages
    BY <2>1 DEF Blank, Pages, GateInv, GateTypes
  <2>5. GateTypes'
    <3>1. page' \in [Gates -> Pages]
      BY <2>2, <2>4 DEF GateInv, GateTypes
    <3>2. admitted' \in [Tickets -> Nat]
      <4>1. admitted \in [Tickets -> Nat] /\ admitted' = [admitted EXCEPT ![en.code] = 1]
        BY <2>1, <2>2 DEF GateInv, GateTypes
      <4> QED
        BY <4>1
    <3>3. /\ ticket' \in [Tickets -> {"ACTIVE", "USED"}] /\ verifying' \subseteq Verifications
          /\ checkIns' \subseteq [ticket : Tickets, event : Events, proof : {"manual", "signature"}]
          /\ entries' \subseteq Entries
      BY <2>2 DEF GateInv, GateTypes
    <3> QED
      BY <3>1, <3>2, <3>3 DEF GateTypes
  <2>6. JudgedSound'
    BY <2>2 DEF GateInv, JudgedSound
  <2>7. \A x \in entries' : x.at = "done" =>
          x.code \in Tickets /\ x.code # en.code /\ ticket[x.code] = "USED" /\ admitted[x.code] = 0
    BY <2>1, <2>2 DEF GateInv, JudgedSound, SpentOnce
  <2>8. \A x \in entries' : x.at = "done" => ticket'[x.code] = "USED" /\ admitted'[x.code] = 0
    BY <2>2, <2>3, <2>7
  <2>9. \A t \in Tickets : admitted'[t] \in {0, 1} /\ (admitted'[t] = 1 => ticket'[t] = "USED")
    BY <2>1, <2>2, <2>3 DEF GateInv, SpentOnce
  <2>10. \A a, b \in entries' : a.at = "done" /\ b.at = "done" /\ a.code = b.code => a = b
    BY <2>2 DEF GateInv, SpentOnce
  <2>11. /\ \A t \in Tickets : ticket'[t] = "USED" <=> \E c \in checkIns' : c.ticket = t
         /\ \A c \in checkIns' : c.event = EventOf[c.ticket]
    BY <2>2 DEF GateInv, SpentOnce
  <2> QED
    BY <2>5, <2>6, <2>8, <2>9, <2>10, <2>11 DEF GateInv, SpentOnce
<1>12. ASSUME NEW en \in entries, EntryRefused(en) \/ WorkedOnAfterLoss(en) PROVE GateInv'
  BY <1>12, EntryStep DEF EntryRefused, WorkedOnAfterLoss
<1>13. ASSUME NEW en \in entries, AnswerLost(en) PROVE GateInv'
  <2>1. UNCHANGED <<rows, page, verifying, admitted>>
    BY <1>13 DEF AnswerLost
  <2>2. CASE en.at = "done"
    <3>1. entries' = entries \ {en}
      BY <1>13, <2>2 DEF AnswerLost
    <3> QED
      BY <2>1, <3>1, EntryStep
  <2>3. CASE en.at # "done"
    <3>1. PICK next : next = [en EXCEPT !.awaited = FALSE]
      OBVIOUS
    <3>2. /\ en \in Entries /\ next \in Entries /\ next.at = en.at /\ next.code = en.code
          /\ next.event = en.event /\ next.proof = en.proof
      BY <3>1 DEF GateInv, GateTypes, Entries
    <3>3. next.at = "judged" =>
            next.code \in Tickets /\ next.event = EventOf[next.code] /\ next.proof # "none"
      BY <3>2 DEF GateInv, JudgedSound
    <3>4. entries' = (entries \ {en}) \cup {next}
      BY <1>13, <2>3, <3>1 DEF AnswerLost
    <3> QED
      BY <2>1, <2>3, <3>2, <3>3, <3>4, EntryStep
  <2> QED
    BY <2>2, <2>3
<1> QED
  BY <1>1, <1>2, <1>3, <1>4, <1>5, <1>6, <1>7, <1>8, <1>9, <1>10, <1>11, <1>12, <1>13 DEF GateNext

LEMMA GateInductive == GateSpec => []GateInv
BY GateInitInv, GateStep, PTL DEF GateSpec

\* The gates' rows, pages and requests keep their types.
THEOREM GatesTyped == GateSpec => []GateTypeOK
<1>1. GateInv => GateTypeOK
  BY DEF GateInv, GateTypes, GateTypeOK, Pages, Entries
<1> QED
  BY <1>1, GateInductive, PTL

\* However many gates read a ticket at the same instant, and whatever is lost, asked again
\* or confirmed for another visitor: a steward is told "Checked in" once for a ticket, of
\* one that is spent, at its event and on its signature or by hand.
THEOREM OneVisitorPerTicket == GateSpec => []AdmittedOnce
<1>1. GateInv => AdmittedOnce
  <2> SUFFICES ASSUME GateInv, NEW t \in Tickets
               PROVE /\ admitted[t] + Cardinality({en \in entries : en.code = t /\ en.at = "done"}) <= 1
                     /\ admitted[t] = 1 => ticket[t] = "USED"
                     /\ ticket[t] = "USED" <=> \E c \in checkIns : c.ticket = t
                     /\ \A c \in checkIns : c.ticket = t => c.event = EventOf[t] /\ c.proof # "none"
    BY DEF AdmittedOnce
  <2> DEFINE S == {en \in entries : en.code = t /\ en.at = "done"}
  <2>1. CASE S = {}
    <3>1. Cardinality(S) = 0
      BY <2>1, FS_EmptySet
    <3> QED
      BY <3>1 DEF GateInv, GateTypes, SpentOnce
  <2>2. ASSUME NEW en \in S PROVE Cardinality(S) = 1 /\ admitted[t] = 0
    <3>1. S = {en} /\ admitted[t] = 0
      BY DEF GateInv, SpentOnce
    <3>2. Cardinality({en}) = 1
      BY FS_Singleton
    <3> QED
      BY <3>1, <3>2
  <2> QED
    BY <2>1, <2>2 DEF GateInv, GateTypes, SpentOnce
<1> QED
  BY <1>1, GateInductive, PTL

-----------------------------------------------------------------------------
(* The representative's page: what it reports as done is done.              *)

Captures ==
  {Nothing} \cup [kind : {"pose"}, stage : 1..3, frames : Seq(1..3), at : {"shown", "uploading"}]
            \cup [kind : {"front", "back"}, at : {"uploading", "scanning", "opening"}]

PageTypes == PageTypeOK /\ capture \in Captures /\ frames \in Seq(1..3)

\* The document is asked for, by a page or by a chain under way, once the selfie is stored.
SelfieFirst ==
  (\/ view \in {"document-choice", "document-front", "document-back", "scanning", "complete"}
   \/ choosing > 0 \/ "front" \in opening \/ "back" \in opening
   \/ capture.kind \in {"front", "back"})
  => "selfie" \in held

\* The back is asked for once the front is stored, and reported when it is itself.
FrontThenBack ==
  /\ (\/ view \in {"document-back", "complete"} \/ "back" \in opening \/ capture.kind = "back"
      \/ capture.kind = "front" /\ capture.at \in {"scanning", "opening"}) => "front" \in held
  /\ (view = "complete" \/ (capture.kind = "back" /\ capture.at = "scanning")) => "back" \in held

\* Persona's approval is final, and the backend and the page have it from Persona.
ApprovalFinal == verified \/ popup = "success" \/ chain = "confirming" => inquiry = "approved"

PageInv == PageTypes /\ SelfieFirst /\ FrontThenBack /\ ApprovalFinal

LEMMA PageInitInv == PageInit => PageInv
<1> SUFFICES ASSUME PageInit PROVE PageInv
  OBVIOUS
<1>1. capture = Nothing /\ capture.kind = "none" /\ frames = <<>> /\ frames \in Seq(1..3) /\ Len(frames) = 0
  BY DEF PageInit, Nothing
<1>2. PageTypeOK
  <2>1. Len(frames) <= MaxFrames /\ stage \in 1..3 /\ choosing \in 0..MaxChoosing /\ tries \in 0..MaxTries
    BY <1>1 DEF PageInit, MaxFrames, MaxChoosing, MaxTries
  <2>2. verified \in BOOLEAN /\ uploading \in BOOLEAN /\ held = {} /\ opening = {}
    BY DEF PageInit
  <2> QED
    BY <2>1, <2>2 DEF PageInit, PageTypeOK
<1>3. capture \in Captures
  BY <1>1 DEF Captures
<1>4. SelfieFirst /\ FrontThenBack /\ ApprovalFinal
  BY <1>1 DEF PageInit, SelfieFirst, FrontThenBack, ApprovalFinal
<1> QED
  BY <1>1, <1>2, <1>3, <1>4 DEF PageInv, PageTypes

\* A step of the component leaves the capture as it is.
LEMMA PersonaStep == PageInv /\ PersonaNext => PageInv'
<1> SUFFICES ASSUME PageInv, PersonaNext PROVE PageInv'
  OBVIOUS
<1>1. UNCHANGED <<held, capturing>>
  BY DEF PersonaNext, PersonaMoves, OpenIntro, NotNow, StartPersona, InquiryAnswered, StartFails,
         Confirmed, Declined, ClientReady, ClientCompletes, ClientCancelled, ClientFails,
         PollAnswered, PollFailed, PollEnds, persona
<1>2. /\ inquiry' \in {"none", "created", "pending", "approved"} \cup Passed \cup Over
      /\ verified' \in BOOLEAN
      /\ popup' \in {"idle", "intro", "launching", "processing", "success"}
      /\ tries' \in 0..MaxTries
  <2>1. CASE PersonaMoves \/ OpenIntro \/ NotNow \/ StartPersona \/ ClientReady \/ ClientFails
    BY <2>1 DEF PageInv, PageTypes, PageTypeOK, PersonaMoves, OpenIntro, NotNow, StartPersona,
                ClientReady, ClientFails, persona, Passed, Over
  <2>2. CASE InquiryAnswered \/ StartFails \/ ClientCompletes
    BY <2>2 DEF PageInv, PageTypes, PageTypeOK, InquiryAnswered, StartFails, ClientCompletes,
                Passed, Over, MaxTries
  <2>3. CASE Confirmed \/ Declined \/ ClientCancelled
    BY <2>3 DEF PageInv, PageTypes, PageTypeOK, Confirmed, Declined, ClientCancelled, RefreshStatus
  <2>4. CASE PollAnswered \/ PollFailed \/ PollEnds
    <3>1. inquiry' = inquiry /\ verified' \in BOOLEAN /\ popup' \in {popup, "success", "idle"}
      BY <2>4 DEF PageInv, PageTypes, PageTypeOK, PollAnswered, PollFailed, PollEnds, RefreshStatus
    <3>2. tries' \in 0..MaxTries
      BY <2>4 DEF PageInv, PageTypes, PageTypeOK, PollAnswered, PollFailed, PollEnds, MaxTries
    <3> QED
      BY <3>1, <3>2 DEF PageInv, PageTypes, PageTypeOK
  <2> QED
    BY <2>1, <2>2, <2>3, <2>4 DEF PersonaNext
<1>3. ApprovalFinal'
  <2>1. CASE PersonaMoves \/ OpenIntro \/ NotNow \/ StartPersona \/ ClientReady \/ ClientFails
    BY <2>1 DEF PageInv, PageTypes, PageTypeOK, ApprovalFinal, PersonaMoves, OpenIntro, NotNow,
                StartPersona, ClientReady, ClientFails, persona, Passed, Shown
  <2>2. CASE InquiryAnswered \/ StartFails \/ ClientCompletes
    BY <2>2 DEF PageInv, ApprovalFinal, InquiryAnswered, StartFails, ClientCompletes, Shown
  <2>3. CASE Confirmed \/ Declined \/ ClientCancelled
    BY <2>3 DEF PageInv, ApprovalFinal, Confirmed, Declined, ClientCancelled, RefreshStatus, Shown
  <2>4. CASE PollAnswered \/ PollFailed \/ PollEnds
    BY <2>4 DEF PageInv, ApprovalFinal, PollAnswered, PollFailed, PollEnds, RefreshStatus
  <2> QED
    BY <2>1, <2>2, <2>3, <2>4 DEF PersonaNext
<1> QED
  BY <1>1, <1>2, <1>3 DEF PageInv, PageTypes, PageTypeOK, SelfieFirst, FrontThenBack, capturing

\* A step of the capture leaves the component as it is.
LEMMA CaptureKeeps ==
  ASSUME PageInv, UNCHANGED <<inquiry, verified, persona>>, PageTypeOK', capture' \in Captures,
         frames' \in Seq(1..3), SelfieFirst', FrontThenBack'
  PROVE PageInv'
BY DEF PageInv, PageTypes, ApprovalFinal, persona

LEMMA CaptureStep == PageInv /\ CaptureNext => PageInv'
<1> SUFFICES ASSUME PageInv, CaptureNext PROVE PageInv'
  OBVIOUS
<1> USE DEF PageInv, PageTypes, PageTypeOK, SelfieFirst, FrontThenBack, ApprovalFinal
<1>1. ASSUME BeginSelfie \/ Restart \/ Continue PROVE PageInv'
  <2>1. <<>> \in Seq(1..3) /\ Len(<<>>) = 0
    OBVIOUS
  <2>2. frames' \in Seq(1..3) /\ Len(frames') <= MaxFrames /\ stage' \in 1..3
    <3>1. (frames' = <<>> /\ stage' = 1) \/ UNCHANGED <<frames, stage>>
      BY <1>1 DEF BeginSelfie, Restart, Continue
    <3>2. CASE frames' = <<>> /\ stage' = 1
      <4>1. frames' \in Seq(1..3)
        BY <2>1, <3>2
      <4>2. Len(frames') = 0
        BY <3>2
      <4> QED
        BY <3>2, <4>1, <4>2 DEF MaxFrames
    <3>3. CASE UNCHANGED <<frames, stage>>
      BY <3>3
    <3> QED
      BY <3>1, <3>2, <3>3
  <2>5. /\ held' = held /\ choosing' = choosing /\ uploading' = uploading /\ tracker' \in {tracker, "off"}
        /\ view' \in {"selfie", "ready"} /\ camera' = "off" /\ opening' \in {opening, opening \cup {"selfie"}}
    BY <1>1 DEF BeginSelfie, Restart, Continue, AskCamera
  <2>3. SelfieFirst' /\ FrontThenBack'
    BY <1>1 DEF BeginSelfie, Restart, Continue, AskCamera
  <2>4. UNCHANGED <<inquiry, verified, persona, capture>>
    BY <1>1 DEF BeginSelfie, Restart, Continue
  <2>6. PageTypeOK'
    BY <2>2, <2>4, <2>5 DEF persona, Kinds
  <2> QED
    BY <2>2, <2>3, <2>4, <2>6, CaptureKeeps
<1>2. ASSUME TrackerLoads \/ RetryFaceScanner PROVE PageInv'
  BY <1>2 DEF TrackerLoads, RetryFaceScanner, persona
<1>3. ASSUME CapturePose PROVE PageInv'
  <2>1. /\ frames' \in Seq(1..3) /\ Len(frames') <= MaxFrames
        /\ capture' = [kind |-> "pose", stage |-> stage, frames |-> frames', at |-> "shown"]
        /\ UNCHANGED <<held, inquiry, verified, view, stage, camera, opening, tracker, choosing,
                       uploading, popup, chain, tries>>
    BY <1>3 DEF CapturePose, persona, MaxFrames
  <2>2. capture' \in Captures /\ capture'.kind = "pose"
    BY <2>1 DEF Captures
  <2> QED
    BY <2>1, <2>2
<1>4. ASSUME PoseShown PROVE PageInv'
  <2>1. /\ capture \in [kind : {"pose"}, stage : 1..3, frames : Seq(1..3), at : {"shown", "uploading"}]
        /\ UNCHANGED <<held, inquiry, verified, view, frames, camera, opening, tracker, choosing,
                       popup, chain, tries>>
        /\ uploading' = (capture.stage = 3)
    BY <1>4 DEF PoseShown, Captures, Nothing, persona
  <2>2. CASE capture.stage < 3
    <3>1. stage' \in 1..3 /\ capture' = Nothing
      BY <1>4, <2>1, <2>2 DEF PoseShown
    <3>2. capture' \in Captures /\ capture'.kind = "none"
      BY <3>1 DEF Captures, Nothing
    <3> QED
      BY <2>1, <3>1, <3>2
  <2>3. CASE ~(capture.stage < 3)
    <3>1. stage' = stage /\ capture' = [capture EXCEPT !.at = "uploading"]
      BY <1>4, <2>3 DEF PoseShown
    <3>2. capture' \in Captures /\ capture'.kind = "pose"
      BY <2>1, <3>1 DEF Captures
    <3> QED
      BY <2>1, <3>1, <3>2
  <2> QED
    BY <2>2, <2>3
<1>5. Nothing \in Captures /\ Nothing.kind = "none"
  BY DEF Captures, Nothing
<1>6. ASSUME SelfieUploaded \/ SelfieFailed PROVE PageInv'
  <2>1. PageTypeOK'
    BY <1>6, ZenonT(90) DEF SelfieUploaded, SelfieFailed, persona, Kinds
  <2>2. SelfieFirst' /\ FrontThenBack'
    BY <1>5, <1>6 DEF SelfieUploaded, SelfieFailed
  <2>3. UNCHANGED <<inquiry, verified, persona, frames>> /\ capture' = Nothing
    BY <1>6 DEF SelfieUploaded, SelfieFailed
  <2> QED
    BY <1>5, <2>1, <2>2, <2>3, CaptureKeeps
<1>7. ASSUME NEW purpose \in Kinds, CameraOpens(purpose) \/ CameraRefused(purpose) PROVE PageInv'
  <2>1. PageTypeOK'
    BY <1>7, ZenonT(90) DEF CameraOpens, CameraRefused, CameraAnswered, persona, Kinds
  <2>2. /\ capture' \in {Nothing, capture}
        /\ purpose = "back" => capture' = Nothing
        /\ opening' = opening \ {purpose} /\ purpose \in opening
        /\ view' \in {view, "ready", "document-choice"}
        /\ view' = "document-choice" => view' = view \/ purpose # "selfie"
        /\ UNCHANGED <<inquiry, verified, persona, frames, held, choosing>>
    BY <1>7 DEF CameraOpens, CameraRefused, CameraAnswered, persona
  <2>3. SelfieFirst'
    BY <1>5, <2>2 DEF Kinds
  <2>4. FrontThenBack'
    BY <1>5, <2>2
  <2>5. capture' \in Captures /\ frames' \in Seq(1..3)
    BY <1>5, <2>2
  <2> QED
    BY <2>1, <2>2, <2>3, <2>4, <2>5, CaptureKeeps
<1>8. ASSUME ChooseDocument \/ DetailsSaved \/ DetailsRefused PROVE PageInv'
  <2>5. choosing' \in 0..MaxChoosing
    BY <1>8 DEF ChooseDocument, DetailsSaved, DetailsRefused, MaxChoosing
  <2>6. /\ UNCHANGED <<held, inquiry, verified, stage, frames, tracker, persona>>
        /\ view' \in {view, "document-front"} /\ camera' \in {camera, "off"}
        /\ opening' \in {opening, opening \cup {"front"}}
    BY <1>8 DEF ChooseDocument, DetailsSaved, DetailsRefused, AskCamera, persona
  <2>7. uploading' \in BOOLEAN
    BY <1>8, ZenonT(30) DEF ChooseDocument, DetailsSaved, DetailsRefused
  <2>1. PageTypeOK'
    BY <2>5, <2>6, <2>7 DEF persona, Kinds
  <2>2. SelfieFirst'
    BY <1>8 DEF ChooseDocument, DetailsSaved, DetailsRefused, AskCamera, ChoiceView
  <2>3. FrontThenBack'
    BY <1>8 DEF ChooseDocument, DetailsSaved, DetailsRefused, AskCamera
  <2>4. UNCHANGED <<inquiry, verified, persona, frames, capture>>
    BY <1>8 DEF ChooseDocument, DetailsSaved, DetailsRefused
  <2> QED
    BY <2>1, <2>2, <2>3, <2>4, CaptureKeeps
<1>9. ASSUME NEW side \in {"front", "back"}, CaptureDocumentSide(side) PROVE PageInv'
  <2>1. SideOf[side] = IF side = "front" THEN "document-front" ELSE "document-back"
    BY DEF SideOf
  <2>2. /\ capture' = [kind |-> side, at |-> "uploading"] /\ view = SideOf[side]
        /\ uploading' = TRUE
        /\ UNCHANGED <<held, inquiry, verified, view, stage, frames, camera, opening, tracker, choosing,
                       popup, chain, tries>>
    BY <1>9 DEF CaptureDocumentSide, persona
  <2>3. capture' \in Captures /\ capture'.kind = side /\ capture'.at = "uploading"
    BY <2>2 DEF Captures
  <2> QED
    BY <2>1, <2>2, <2>3
<1>10. ASSUME SideUploaded \/ SideFailed \/ SideScanned PROVE PageInv'
  <2>1. capture \in [kind : {"front", "back"}, at : {"uploading", "scanning", "opening"}]
    BY <1>10 DEF SideUploaded, SideFailed, SideScanned, SideOf, Captures, Nothing
  <2>2. CASE SideFailed
    <3>4. held' \in {held, held \cup {capture.kind}} /\ uploading' = FALSE
          /\ UNCHANGED <<inquiry, verified, view, stage, frames, camera, opening, tracker, choosing, persona>>
      BY <2>2 DEF SideFailed
    <3>5. held' \subseteq Kinds
      BY <2>1, <3>4 DEF Kinds
    <3>1. PageTypeOK'
      BY <3>4, <3>5, ZenonT(40) DEF persona
    <3>2. SelfieFirst' /\ FrontThenBack'
      BY <1>5, <2>2 DEF SideFailed
    <3>3. UNCHANGED <<inquiry, verified, persona, frames>> /\ capture' = Nothing
      BY <2>2 DEF SideFailed
    <3> QED
      BY <1>5, <3>1, <3>2, <3>3, CaptureKeeps
  <2>3. CASE SideUploaded
    <3>1. PICK next : next = [capture EXCEPT !.at = "scanning"]
      OBVIOUS
    <3>2. next \in Captures /\ next.kind = capture.kind /\ next.at = "scanning"
      BY <2>1, <3>1 DEF Captures
    <3>3. capture' = next
      BY <2>3, <3>1 DEF SideUploaded
    <3> QED
      BY <2>1, <2>3, <3>2, <3>3 DEF SideUploaded, persona, Kinds
  <2>4. CASE SideScanned
    <3>1. PICK next : next = [capture EXCEPT !.at = "opening"]
      OBVIOUS
    <3>2. next \in Captures /\ next.kind = capture.kind /\ next.at = "opening"
      BY <2>1, <3>1 DEF Captures
    <3>3. CASE capture.kind = "front"
      <4>1. /\ capture' = next /\ view' = "document-back" /\ opening' = opening \cup {"back"}
            /\ camera' = "off" /\ uploading' = uploading /\ capture.at = "scanning"
            /\ UNCHANGED <<held, inquiry, verified, stage, frames, tracker, choosing, persona>>
        BY <2>4, <3>1, <3>3 DEF SideScanned, AskCamera
      <4>2. PageTypeOK'
        BY <4>1 DEF persona, Kinds
      <4>3. SelfieFirst' /\ FrontThenBack'
        BY <2>1, <3>2, <3>3, <4>1
      <4> QED
        BY <3>2, <4>1, <4>2, <4>3, CaptureKeeps
    <3>4. CASE capture.kind = "back"
      <4>1. /\ capture' = Nothing /\ view' = "complete" /\ uploading' = FALSE /\ capture.at = "scanning"
            /\ UNCHANGED <<held, inquiry, verified, stage, frames, camera, opening, tracker, choosing,
                           persona>>
        BY <2>4, <3>4 DEF SideScanned
      <4>2. PageTypeOK'
        BY <4>1 DEF persona, Kinds
      <4>3. SelfieFirst' /\ FrontThenBack'
        BY <1>5, <2>1, <3>4, <4>1
      <4> QED
        BY <1>5, <4>1, <4>2, <4>3, CaptureKeeps
    <3> QED
      BY <2>1, <3>3, <3>4
  <2> QED
    BY <1>10, <2>2, <2>3, <2>4
<1>11. DOMAIN SideOf = {"front", "back"}
  BY DEF SideOf
<1> QED
  BY <1>1, <1>2, <1>3, <1>4, <1>6, <1>7, <1>8, <1>9, <1>10, <1>11 DEF CaptureNext

LEMMA PageInductive == ASSUME NEW CONSTANT configured PROVE PageSpec(configured) => []PageInv
<1>1. PageInv /\ [PageNext(configured)]_pagevars => PageInv'
  <2> SUFFICES ASSUME PageInv, [PageNext(configured)]_pagevars PROVE PageInv'
    OBVIOUS
  <2>1. CASE UNCHANGED pagevars
    BY <2>1 DEF pagevars, capturing, persona, PageInv, PageTypes, PageTypeOK, SelfieFirst,
                FrontThenBack, ApprovalFinal
  <2> QED
    BY <2>1, PersonaStep, CaptureStep DEF PageNext
<1> QED
  BY <1>1, PageInitInv, PTL DEF PageSpec

\* The page's state and the backend's keep their types, with Persona and without.
THEOREM PageTyped == ASSUME NEW CONSTANT configured PROVE PageSpec(configured) => []PageTypeOK
BY PageInductive, PTL DEF PageInv, PageTypes

\* Whatever is abandoned, retried, refused or answered late: "Identity evidence captured"
\* is shown when the backend holds the selfie and both sides of the document, and the
\* success screen when Persona approved.
THEOREM ReportedIsDone == ASSUME NEW CONSTANT configured PROVE PageSpec(configured) => []ReportsTrue
<1>1. PageInv => ReportsTrue
  BY DEF PageInv, PageTypes, PageTypeOK, SelfieFirst, FrontThenBack, ApprovalFinal, ReportsTrue,
         CompleteView, Shown, Kinds
<1> QED
  BY <1>1, PageInductive, PTL

-----------------------------------------------------------------------------
(* The alerts: a decision stands.                                           *)

AlertStatuses == {"NONE"} \cup Standing \cup Settled
AlertRuns == [todo : SUBSET Keys, key : SUBSET Keys, read : AlertStatuses]

AlertsInv ==
  /\ found \subseteq Keys
  /\ alert \in [Keys -> AlertStatuses]
  /\ seen \in [Keys -> 0..MaxSeen]
  /\ raising \in [Runs -> AlertRuns]
  /\ \A m \in Runs : raising[m].key = {} \/ \E k \in Keys : raising[m].key = {k}
  /\ deciding \in [Admins -> SUBSET (Keys \X Decisions)]
  /\ notice \in [Keys -> {"NONE", "QUEUED", "SENDING", "MAILED", "SKIPPED"}]

LEMMA AlertsInitInv == AlertsInit => AlertsInv
BY AlertsAssumption DEF AlertsInit, AlertsInv, AlertStatuses, AlertRuns, Resting

\* A run's part of its step: it goes on to a state of its own.
LEMMA RunMoves ==
  ASSUME AlertsInv, NEW m \in Runs, NEW next \in AlertRuns, raising' = [raising EXCEPT ![m] = next],
         next.key = {} \/ \E k \in Keys : next.key = {k}
  PROVE /\ raising' \in [Runs -> AlertRuns]
        /\ \A r \in Runs : raising'[r].key = {} \/ \E k \in Keys : raising'[r].key = {k}
BY DEF AlertsInv

\* A raise is over.
LEMMA RunDone ==
  ASSUME AlertsInv, NEW m \in Runs, Done(m)
  PROVE /\ raising' \in [Runs -> AlertRuns]
        /\ \A r \in Runs : raising'[r].key = {} \/ \E k \in Keys : raising'[r].key = {k}
<1>1. PICK next : next = [raising[m] EXCEPT !.key = {}, !.read = "NONE"]
  OBVIOUS
<1>2. raising[m] \in AlertRuns
  BY DEF AlertsInv
<1>3. next \in AlertRuns /\ next.key = {}
  BY <1>1, <1>2 DEF AlertRuns, AlertStatuses
<1>4. raising' = [raising EXCEPT ![m] = next]
  BY <1>1 DEF Done, AlertsInv
<1> QED
  BY <1>3, <1>4, RunMoves

LEMMA AlertsStep == AlertsInv /\ [AlertsNext]_alertvars => AlertsInv'
<1> SUFFICES ASSUME AlertsInv, [AlertsNext]_alertvars PROVE AlertsInv'
  OBVIOUS
<1> USE AlertsAssumption
<1>1. CASE UNCHANGED <<alert, seen, raising, deciding, notice>> /\ found' \subseteq Keys
  BY <1>1 DEF AlertsInv
<1>2. ASSUME NEW m \in Runs, RunEnds(m) PROVE AlertsInv'
  <2>1. Resting \in AlertRuns /\ Resting.key = {}
    BY DEF Resting, AlertRuns, AlertStatuses
  <2>2. raising' = [raising EXCEPT ![m] = Resting] /\ UNCHANGED <<found, alert, seen, deciding, notice>>
    BY <1>2 DEF RunEnds
  <2> QED
    BY <2>1, <2>2, RunMoves DEF AlertsInv
<1>3. ASSUME NEW m \in Runs, NEW rules \in Monitors, RunMonitor(m, rules)
      PROVE AlertsInv'
  <2>1. PICK next : next = [raising[m] EXCEPT !.todo = found \cap DOMAIN rules]
    OBVIOUS
  <2>2. next \in AlertRuns /\ next.key = raising[m].key
    BY <1>3, <2>1 DEF AlertsInv, AlertRuns
  <2>3. raising' = [raising EXCEPT ![m] = next] /\ UNCHANGED <<found, alert, seen, deciding, notice>>
    BY <1>3, <2>1 DEF RunMonitor, AlertsInv
  <2> QED
    BY <2>2, <2>3, RunMoves DEF AlertsInv
<1>4. ASSUME NEW m \in Runs, NEW k \in Keys, RaiseReads(m, k) PROVE AlertsInv'
  <2>1. PICK next : next = [todo |-> raising[m].todo \ {k}, key |-> {k}, read |-> alert[k]]
    OBVIOUS
  <2>2. next \in AlertRuns /\ next.key = {k}
    BY <2>1 DEF AlertsInv, AlertRuns
  <2>3. raising' = [raising EXCEPT ![m] = next] /\ UNCHANGED <<found, alert, seen, deciding, notice>>
    BY <1>4, <2>1 DEF RaiseReads, AlertsInv
  <2> QED
    BY <2>2, <2>3, RunMoves DEF AlertsInv
<1>5. ASSUME NEW m \in Runs, NEW k \in Keys, RaiseBumps(m, k) PROVE AlertsInv'
  <2>1. seen' \in [Keys -> 0..MaxSeen]
    BY <1>5 DEF RaiseBumps, AlertsInv
  <2> QED
    BY <1>5, <2>1, RunDone DEF RaiseBumps, AlertsInv
<1>6. ASSUME NEW m \in Runs, NEW k \in Keys, RaiseLeaves(m, k) PROVE AlertsInv'
  BY <1>6, RunDone DEF RaiseLeaves, AlertsInv
<1>7. ASSUME NEW m \in Runs, NEW k \in Keys, RaiseCreates(m, k) PROVE AlertsInv'
  <2>1. /\ alert' \in [Keys -> AlertStatuses] /\ seen' \in [Keys -> 0..MaxSeen]
        /\ notice' \in [Keys -> {"NONE", "QUEUED", "SENDING", "MAILED", "SKIPPED"}]
    BY <1>7 DEF RaiseCreates, AlertsInv, AlertStatuses, Standing
  <2> QED
    BY <1>7, <2>1, RunDone DEF RaiseCreates, AlertsInv
<1>8. ASSUME NEW k \in Keys, AlertMailRead(k) \/ AlertMailSent(k) PROVE AlertsInv'
  BY <1>8 DEF AlertMailRead, AlertMailSent, AlertsInv
<1>9. ASSUME NEW a \in Admins, NEW k \in Keys, NEW decision \in Decisions,
             Decide(a, k, decision) \/ Decided(a, k, decision)
      PROVE AlertsInv'
  BY <1>9 DEF Decide, Decided, Decisions, AlertsInv, AlertStatuses, Standing, Settled
<1>10. CASE Changes \/ UNCHANGED alertvars
  BY <1>1, <1>10 DEF Changes, alertvars, AlertsInv
<1> QED
  BY <1>2, <1>3, <1>4, <1>5, <1>6, <1>7, <1>8, <1>9, <1>10 DEF AlertsNext

LEMMA AlertsInductive == AlertsSpec => []AlertsInv
BY AlertsInitInv, AlertsStep, PTL DEF AlertsSpec

\* An alert, its count, the runs and the decisions keep their types.
THEOREM AlertsTyped == AlertsSpec => []AlertsTypeOK
<1>1. AlertsInv => AlertsTypeOK
  <2> SUFFICES ASSUME AlertsInv, NEW m \in Runs
               PROVE raising[m].todo \subseteq Keys /\ Cardinality(raising[m].key) <= 1
    BY DEF AlertsInv, AlertsTypeOK, AlertStatuses
  <2>1. ASSUME raising[m].key = {} PROVE Cardinality(raising[m].key) = 0
    BY <2>1, FS_EmptySet
  <2>2. ASSUME NEW k \in Keys, raising[m].key = {k} PROVE Cardinality(raising[m].key) = 1
    BY <2>2, FS_Singleton
  <2> QED
    BY <2>1, <2>2 DEF AlertsInv, AlertRuns
<1> QED
  BY <1>1, AlertsInductive, PTL

\* A raise that ends leaves the other runs where they are.
LEMMA OthersRaise ==
  ASSUME AlertsInv, NEW m \in Runs, Done(m), NEW r \in Runs, NEW k \in Keys, k \in raising'[r].key
  PROVE raising'[r] = raising[r]
<1>1. r = m => raising'[r].key = {}
  BY DEF Done, AlertsInv, AlertRuns
<1> QED
  BY <1>1 DEF Done, AlertsInv

\* Only the write of a decision changes the status of an alert that is not new, and nothing
\* mails one that was decided before its job read it.
LEMMA OnlyDecisions ==
  ASSUME AlertsInv, [AlertsNext]_alertvars, NEW k \in Keys, alert[k] # "NONE"
  PROVE /\ alert'[k] # alert[k]
             => \E a \in Admins : /\ alert'[k] \in Decisions /\ <<k, alert'[k]>> \in deciding[a]
                                 /\ deciding'[a] = {}
        /\ Unmailed(k) => Unmailed(k)'
<1> DEFINE Aim == /\ alert'[k] # alert[k]
                       => \E a \in Admins : /\ alert'[k] \in Decisions /\ <<k, alert'[k]>> \in deciding[a]
                                           /\ deciding'[a] = {}
                  /\ Unmailed(k) => Unmailed(k)'
<1>1. CASE UNCHANGED <<alert, notice>>
  BY <1>1 DEF Unmailed
<1>2. ASSUME NEW m \in Runs, NEW d \in Keys, RaiseCreates(m, d) PROVE Aim
  <2>1. alert'[k] = alert[k]
    BY <1>2 DEF RaiseCreates, AlertsInv
  <2>2. notice'[k] = notice[k] \/ (notice'[k] = "QUEUED" /\ alert[k] = "NONE")
    BY <1>2 DEF RaiseCreates, AlertsInv
  <2> QED
    BY <2>1, <2>2 DEF Unmailed
<1>3. ASSUME NEW d \in Keys, AlertMailRead(d) \/ AlertMailSent(d) PROVE Aim
  <2>1. alert' = alert
    BY <1>3 DEF AlertMailRead, AlertMailSent
  <2>2. alert[k] \in Decisions => alert[k] # "OPEN"
    BY DEF Decisions
  <2>3. ASSUME Unmailed(k) PROVE notice'[k] \in {"NONE", "QUEUED", "SKIPPED"}
    <3>1. CASE AlertMailRead(d)
      BY <3>1, <2>2, <2>3 DEF AlertMailRead, AlertsInv, Unmailed
    <3>2. CASE AlertMailSent(d)
      BY <3>2, <2>3 DEF AlertMailSent, AlertsInv, Unmailed
    <3> QED
      BY <1>3, <3>1, <3>2
  <2> QED
    BY <2>1, <2>3 DEF Unmailed
<1>4. ASSUME NEW a \in Admins, NEW d \in Keys, NEW decision \in Decisions, Decided(a, d, decision)
      PROVE Aim
  <2>1. /\ notice' = notice /\ deciding'[a] = {} /\ <<d, decision>> \in deciding[a]
        /\ alert' = [alert EXCEPT ![d] = decision]
    BY <1>4 DEF Decided, AlertsInv
  <2>2. alert'[k] = alert[k] \/ (k = d /\ alert'[k] = decision)
    BY <2>1 DEF AlertsInv
  <2> QED
    BY <2>1, <2>2 DEF Unmailed
<1> QED
  BY <1>1, <1>2, <1>3, <1>4 DEF AlertsNext, alertvars, Changes, RunEnds, RunMonitor, RaiseReads,
                                RaiseBumps, RaiseLeaves, Decide

\* Once an alert is closed and the writes begun before are through, no run counts another
\* occurrence, and neither a run nor an admin begins a write.
LEMMA ClosedStays ==
  ASSUME AlertsInv, [AlertsNext]_alertvars, NEW k \in Keys, Concluded(k)
  PROVE Concluded(k)' /\ alert'[k] = alert[k] /\ seen'[k] = seen[k]
<1>0. alert[k] \in Settled /\ alert[k] # "NONE" /\ alert[k] \notin Standing
  BY DEF Concluded, Settled, Standing
<1>1. alert'[k] = alert[k]
  BY <1>0, OnlyDecisions DEF Concluded
<1>2. \A a \in Admins, decision \in Decisions : <<k, decision>> \notin deciding'[a]
  <2>1. ASSUME NEW a \in Admins, NEW d \in Keys, NEW decision \in Decisions, Decide(a, d, decision)
        PROVE \A b \in Admins, other \in Decisions : <<k, other>> \notin deciding'[b]
    <3>1. d # k
      BY <2>1, <1>0 DEF Decide
    <3>2. deciding' = [deciding EXCEPT ![a] = {<<d, decision>>}]
      BY <2>1 DEF Decide
    <3> QED
      BY <3>1, <3>2 DEF Concluded, AlertsInv
  <2>2. ASSUME NEW a \in Admins, NEW d \in Keys, NEW decision \in Decisions, Decided(a, d, decision)
        PROVE \A b \in Admins, other \in Decisions : <<k, other>> \notin deciding'[b]
    BY <2>2 DEF Decided, Concluded, AlertsInv
  <2>3. CASE UNCHANGED deciding
    BY <2>3 DEF Concluded
  <2> QED
    BY <2>1, <2>2, <2>3 DEF AlertsNext, alertvars, Changes, RunEnds, RunMonitor, RaiseReads, RaiseCreates,
                            RaiseBumps, RaiseLeaves, AlertMailRead, AlertMailSent
<1>3. /\ \A r \in Runs : k \in raising'[r].key => raising'[r].read \notin Standing
      /\ seen'[k] = seen[k]
  <2> DEFINE Calm == /\ \A r \in Runs : k \in raising'[r].key => raising'[r].read \notin Standing
                     /\ seen'[k] = seen[k]
  <2>1. ASSUME NEW m \in Runs, RunEnds(m) PROVE Calm
    BY <2>1 DEF RunEnds, Resting, Concluded, AlertsInv
  <2>2. ASSUME NEW m \in Runs, NEW rules \in Monitors, RunMonitor(m, rules) PROVE Calm
    BY <2>2 DEF RunMonitor, Resting, Concluded, AlertsInv, AlertRuns
  <2>3. ASSUME NEW m \in Runs, NEW d \in Keys, RaiseReads(m, d) PROVE Calm
    <3>1. PICK next : next = [todo |-> raising[m].todo \ {d}, key |-> {d}, read |-> alert[d]]
      OBVIOUS
    <3>2. raising' = [raising EXCEPT ![m] = next] /\ seen' = seen
      BY <2>3, <3>1 DEF RaiseReads, AlertsInv
    <3> QED
      BY <1>0, <3>1, <3>2 DEF Concluded, AlertsInv
  <2>4. ASSUME NEW m \in Runs, Done(m) PROVE \A r \in Runs : k \in raising'[r].key => raising'[r].read \notin Standing
    BY <2>4, OthersRaise DEF Concluded
  <2>5. ASSUME NEW m \in Runs, NEW d \in Keys, RaiseBumps(m, d) PROVE Calm
    <3>1. d # k
      BY <2>5 DEF RaiseBumps, Concluded
    <3>2. seen'[k] = seen[k]
      BY <2>5, <3>1 DEF RaiseBumps, AlertsInv
    <3> QED
      BY <2>4, <2>5, <3>2 DEF RaiseBumps
  <2>6. ASSUME NEW m \in Runs, NEW d \in Keys, RaiseLeaves(m, d) PROVE Calm
    BY <2>4, <2>6 DEF RaiseLeaves
  <2>7. ASSUME NEW m \in Runs, NEW d \in Keys, RaiseCreates(m, d) PROVE Calm
    <3>1. seen'[k] = seen[k]
      BY <2>7, <1>0 DEF RaiseCreates, AlertsInv
    <3> QED
      BY <2>4, <2>7, <3>1 DEF RaiseCreates
  <2>8. CASE UNCHANGED <<raising, seen>>
    BY <2>8 DEF Concluded
  <2> QED
    BY <2>1, <2>2, <2>3, <2>5, <2>6, <2>7, <2>8 DEF AlertsNext, alertvars, Changes, AlertMailRead,
                                                    AlertMailSent, Decide, Decided
<1> QED
  BY <1>0, <1>1, <1>2, <1>3 DEF Concluded

\* However many raises, mails and decisions overlap: only the write of an admin's decision changes
\* a closed alert, none begun after the closing does, and an alert decided before its job reads it
\* is never mailed.
THEOREM DecisionsAreFinal == AlertsSpec => DecisionsStand
<1> DEFINE Stand(k) ==
      /\ alert[k] \in Settled /\ alert'[k] # alert[k]
            => \E a \in Admins : <<k, alert'[k]>> \in deciding[a] /\ deciding'[a] = {}
      /\ Concluded(k) => Concluded(k)' /\ alert'[k] = alert[k] /\ seen'[k] = seen[k]
      /\ Unmailed(k) => Unmailed(k)'
<1>1. AlertsInv /\ [AlertsNext]_alertvars => \A k \in Keys : Stand(k)
  <2> SUFFICES ASSUME AlertsInv, [AlertsNext]_alertvars, NEW k \in Keys PROVE Stand(k)
    OBVIOUS
  <2>1. alert[k] \in Settled \/ alert[k] \in Decisions => alert[k] # "NONE"
    BY DEF Settled, Decisions
  <2>2. Unmailed(k) => alert[k] \in Decisions
    BY DEF Unmailed
  <2>3. alert[k] # "NONE" =>
          /\ alert'[k] # alert[k]
               => \E a \in Admins : <<k, alert'[k]>> \in deciding[a] /\ deciding'[a] = {}
          /\ Unmailed(k) => Unmailed(k)'
    BY OnlyDecisions
  <2>4. Concluded(k) => Concluded(k)' /\ alert'[k] = alert[k] /\ seen'[k] = seen[k]
    BY ClosedStays
  <2> QED
    BY <2>1, <2>2, <2>3, <2>4
<1> QED
  BY <1>1, AlertsInductive, PTL DEF AlertsSpec, DecisionsStand

-----------------------------------------------------------------------------
(* The pages that write with AI: advice in its place.                       *)

AskSteps == {"idle", "sent", "checked", "refused", "audit", "done"}
Requested == [step : AskSteps, about : SUBSET AiDrafts]
Boards == [show : SUBSET Shows, draft : SUBSET AiDrafts, open : BOOLEAN, editing : BOOLEAN]
Readings(p) ==
  [topic : SUBSET Topics[p], figures : SUBSET Topics[p], asked : SUBSET Topics[p], text : SUBSET Topics[p]]

StudioTypes ==
  /\ draft \in [AiDrafts -> [status : {"NONE", "DRAFT", "ACCEPTED", "DISCARDED"}, about : SUBSET Shows]]
  /\ audited \subseteq AiDrafts
  /\ board \in [Writers -> Boards]
  /\ writing \in [Writers -> [step : {"idle", "sent", "done"}, about : SUBSET (Shows \union AiDrafts)]]
  /\ \A p \in Writers : /\ writing[p].step = "sent" => writing[p].about \subseteq Shows
                        /\ writing[p].step = "done" => writing[p].about \subseteq AiDrafts
  /\ asking \in [Writers -> [DraftCalls -> Requested]]
  /\ description \subseteq AiDrafts

\* Every request is about a draft, and an acceptance that is answered was put on record before.
OnRecord ==
  /\ \A p \in Writers, kind \in DraftCalls : asking[p][kind].step # "idle" => asking[p][kind].about # {}
  /\ \A p \in Writers : asking[p]["accept"].step = "done" => asking[p]["accept"].about \subseteq audited

\* A question, and its answer, are about the topic that is shown.
OnTopic ==
  \A p \in Explainers : /\ reading[p] \in Readings(p)
                        /\ reading[p].asked \subseteq reading[p].topic
                        /\ reading[p].text \subseteq reading[p].topic
OnTopicInv == DOMAIN reading = Explainers /\ reading = [p \in Explainers |-> reading[p]] /\ OnTopic

StudioInv == StudioTypes /\ OnRecord /\ OnTopicInv

LEMMA TopicsAre == Topics["insights"] = Shows /\ Topics["ops"] = Periods
BY DEF Topics

LEMMA StudioInitInv == StudioInit => StudioInv
<1> SUFFICES ASSUME StudioInit PROVE StudioInv
  OBVIOUS
<1>1. Silent \in Requested /\ Silent.step = "idle" /\ Silent.about = {}
  BY DEF Silent, Requested, AskSteps
<1>2. StudioTypes /\ OnRecord
  BY <1>1 DEF StudioInit, StudioTypes, OnRecord, Silent, Boards, DraftCalls
<1>3. (CHOOSE v \in Periods : TRUE) \in Periods
  BY AiStudioAssumption
<1>4. OnTopicInv
  BY <1>3, TopicsAre DEF StudioInit, OnTopicInv, OnTopic, Readings, Explainers
<1> QED
  BY <1>2, <1>4 DEF StudioInv

\* The page p comes to show next.
LEMMA ReadingTurns ==
  ASSUME StudioInv, NEW p \in Explainers, NEW next \in Readings(p), reading' = [reading EXCEPT ![p] = next],
         next.asked \subseteq next.topic, next.text \subseteq next.topic
  PROVE OnTopicInv'
BY DEF StudioInv, OnTopicInv, OnTopic

LEMMA ExplainStep == StudioInv /\ ExplainNext => StudioInv'
<1> SUFFICES ASSUME StudioInv, ExplainNext PROVE StudioInv'
  OBVIOUS
<1>1. UNCHANGED <<draftvars, board, writing, asking, form>>
  BY DEF ExplainNext, SelectShow, SelectPeriod, Turn, FiguresArrive, Explain, Report, Ask,
         ExplainSales, OpsReport
<1>2. \A p \in Explainers : reading[p] \in Readings(p)
  BY DEF StudioInv, OnTopicInv, OnTopic
<1>3. ASSUME NEW p \in Explainers, NEW t, Turn(p, t) PROVE OnTopicInv'
  <2>1. PICK kept \in {{}, {t}} :
          reading' = [reading EXCEPT ![p] = [topic |-> {t}, figures |-> kept, asked |-> {}, text |-> {}]]
    BY <1>3 DEF Turn
  <2>2. PICK next : next = [topic |-> {t}, figures |-> kept, asked |-> {}, text |-> {}]
    OBVIOUS
  <2>3. next \in Readings(p) /\ next.asked = {} /\ next.text = {}
    BY <1>3, <2>2 DEF Turn, Readings
  <2> QED
    BY <2>1, <2>2, <2>3, ReadingTurns
<1>4. ASSUME NEW p \in Explainers, FiguresArrive(p) PROVE OnTopicInv'
  <2>1. PICK next : next = [reading[p] EXCEPT !.figures = reading[p].topic]
    OBVIOUS
  <2>2. next \in Readings(p) /\ next.topic = reading[p].topic /\ next.asked = reading[p].asked
        /\ next.text = reading[p].text
    BY <1>2, <2>1 DEF Readings
  <2>3. reading' = [reading EXCEPT ![p] = next]
    BY <1>4, <2>1 DEF FiguresArrive, StudioInv, OnTopicInv
  <2> QED
    BY <2>2, <2>3, ReadingTurns DEF StudioInv, OnTopicInv, OnTopic
<1>5. ASSUME NEW p \in Explainers, Ask(p) PROVE OnTopicInv'
  <2>1. PICK next : next = [reading[p] EXCEPT !.asked = reading[p].topic, !.text = {}]
    OBVIOUS
  <2>2. next \in Readings(p) /\ next.topic = reading[p].topic /\ next.asked = reading[p].topic
        /\ next.text = {}
    BY <1>2, <2>1 DEF Readings
  <2>3. reading' = [reading EXCEPT ![p] = next]
    BY <1>5, <2>1 DEF Ask, StudioInv, OnTopicInv
  <2> QED
    BY <2>2, <2>3, ReadingTurns
<1>6. ASSUME NEW p \in Explainers, NEW text \in {reading[p].asked, {}},
             reading' = [reading EXCEPT ![p].asked = {}, ![p].text = text]
      PROVE OnTopicInv'
  <2>1. PICK next : next = [reading[p] EXCEPT !.asked = {}, !.text = text]
    OBVIOUS
  <2>2. next \in Readings(p) /\ next.topic = reading[p].topic /\ next.asked = {} /\ next.text = text
    BY <1>2, <2>1 DEF Readings
  <2>3. reading' = [reading EXCEPT ![p] = next]
    BY <1>6, <2>1 DEF StudioInv, OnTopicInv
  <2>4. text \subseteq reading[p].topic
    BY DEF StudioInv, OnTopicInv, OnTopic
  <2> QED
    BY <2>2, <2>3, <2>4, ReadingTurns
<1>7. OnTopicInv'
  <2>1. "insights" \in Explainers /\ "ops" \in Explainers
    BY DEF Explainers
  <2>2. CASE ExplainSales
    BY <1>6, <2>1, <2>2 DEF ExplainSales
  <2>3. CASE OpsReport
    BY <1>6, <2>1, <2>3 DEF OpsReport
  <2> QED
    BY <1>3, <1>4, <1>5, <2>1, <2>2, <2>3 DEF ExplainNext, SelectShow, SelectPeriod, Explain, Report
<1> QED
  BY <1>1, <1>7 DEF StudioInv, StudioTypes, OnRecord, draftvars, form

\* A request of page p goes on to next, and stays about the draft it is about.
LEMMA RequestMoves ==
  ASSUME StudioInv, NEW p \in Writers, NEW kind \in DraftCalls, NEW next \in Requested,
         asking' = [asking EXCEPT ![p][kind] = next],
         next.step # "idle" => next.about # {},
         kind = "accept" /\ next.step = "done" => next.about \subseteq audited',
         audited \subseteq audited'
  PROVE asking' \in [Writers -> [DraftCalls -> Requested]] /\ OnRecord'
<1>1. asking' \in [Writers -> [DraftCalls -> Requested]]
  BY DEF StudioInv, StudioTypes
<1>2. ASSUME NEW q \in Writers, NEW other \in DraftCalls
      PROVE asking'[q][other] = IF q = p /\ other = kind THEN next ELSE asking[q][other]
  BY DEF StudioInv, StudioTypes
<1>3. "accept" \in DraftCalls
  BY DEF DraftCalls
<1> QED
  BY <1>1, <1>2, <1>3 DEF StudioInv, OnRecord

\* The answer to a request of page p is in, or never comes.
LEMMA RequestQuiet ==
  ASSUME StudioInv, NEW p \in Writers, NEW kind \in DraftCalls, Quiet(p, kind),
         audited' = audited
  PROVE asking' \in [Writers -> [DraftCalls -> Requested]] /\ OnRecord'
<1>1. Silent \in Requested /\ Silent.step = "idle"
  BY DEF Silent, Requested, AskSteps
<1> QED
  BY <1>1, RequestMoves DEF Quiet

\* A request of page p is at another step.
LEMMA RequestTo ==
  ASSUME StudioInv, NEW p \in Writers, NEW kind \in DraftCalls, NEW to \in AskSteps, To(p, kind, to),
         asking[p][kind].step # "idle", kind = "accept" => to # "done",
         audited' = audited
  PROVE asking' \in [Writers -> [DraftCalls -> Requested]] /\ OnRecord'
<1>1. PICK next : next = [asking[p][kind] EXCEPT !.step = to]
  OBVIOUS
<1>2. asking[p][kind] \in Requested
  BY DEF StudioInv, StudioTypes
<1>3. next \in Requested /\ next.step = to /\ next.about = asking[p][kind].about
  BY <1>1, <1>2 DEF Requested
<1>4. asking' = [asking EXCEPT ![p][kind] = next]
  BY <1>1 DEF To, StudioInv, StudioTypes
<1>5. next.about # {}
  BY <1>3 DEF StudioInv, OnRecord
<1> QED
  BY <1>3, <1>4, <1>5, RequestMoves

\* A step that touches drafts, the screen or what is being written, and no request.
LEMMA ScreenStep ==
  ASSUME StudioInv, UNCHANGED <<audited, asking, description, reading>>,
         draft' \in [AiDrafts -> [status : {"NONE", "DRAFT", "ACCEPTED", "DISCARDED"}, about : SUBSET Shows]],
         board' \in [Writers -> Boards],
         \/ writing' = writing
         \/ \E p \in Writers, next \in [step : {"idle", "sent", "done"}, about : SUBSET (Shows \union AiDrafts)] :
              /\ writing' = [writing EXCEPT ![p] = next]
              /\ next.step = "sent" => next.about \subseteq Shows
              /\ next.step = "done" => next.about \subseteq AiDrafts
  PROVE StudioInv'
<1>1. writing' \in [Writers -> [step : {"idle", "sent", "done"}, about : SUBSET (Shows \union AiDrafts)]]
  BY DEF StudioInv, StudioTypes
<1>2. \A p \in Writers : /\ writing'[p].step = "sent" => writing'[p].about \subseteq Shows
                         /\ writing'[p].step = "done" => writing'[p].about \subseteq AiDrafts
  BY DEF StudioInv, StudioTypes
<1> QED
  BY <1>1, <1>2, ZenonT(150) DEF StudioInv, StudioTypes, OnRecord, OnTopicInv, OnTopic

\* A step that touches requests, the screen or the form.
LEMMA RequestStep ==
  ASSUME StudioInv, UNCHANGED <<writing, reading>>,
         asking' \in [Writers -> [DraftCalls -> Requested]], OnRecord',
         draft' \in [AiDrafts -> [status : {"NONE", "DRAFT", "ACCEPTED", "DISCARDED"}, about : SUBSET Shows]],
         board' \in [Writers -> Boards], audited' \subseteq AiDrafts, description' \subseteq AiDrafts
  PROVE StudioInv'
BY DEF StudioInv, StudioTypes, OnTopicInv, OnTopic

\* What a step may make of the screen of page p.
LEMMA BoardShows ==
  ASSUME StudioInv, NEW p \in Writers, NEW s \in SUBSET Shows, NEW d \in SUBSET AiDrafts,
         NEW o \in BOOLEAN, NEW e \in BOOLEAN
  PROVE /\ [board EXCEPT ![p].draft = d, ![p].open = o, ![p].editing = e] \in [Writers -> Boards]
        /\ [board EXCEPT ![p].draft = d, ![p].editing = e, ![p].open = o] \in [Writers -> Boards]
        /\ [board EXCEPT ![p].draft = d, ![p].open = o] \in [Writers -> Boards]
        /\ [board EXCEPT ![p].show = s, ![p].draft = d] \in [Writers -> Boards]
        /\ [board EXCEPT ![p].editing = e] \in [Writers -> Boards]
<1>1. board \in [Writers -> Boards]
  BY DEF StudioInv, StudioTypes
<1>2. [board EXCEPT ![p].draft = d, ![p].open = o, ![p].editing = e] \in [Writers -> Boards]
  BY <1>1, ZenonT(40) DEF Boards
<1>3. [board EXCEPT ![p].draft = d, ![p].editing = e, ![p].open = o] \in [Writers -> Boards]
  BY <1>1, ZenonT(40) DEF Boards
<1>4. [board EXCEPT ![p].draft = d, ![p].open = o] \in [Writers -> Boards]
  BY <1>1 DEF Boards
<1>5. [board EXCEPT ![p].show = s, ![p].draft = d] \in [Writers -> Boards]
  BY <1>1 DEF Boards
<1>6. [board EXCEPT ![p].editing = e] \in [Writers -> Boards]
  BY <1>1 DEF Boards
<1> QED
  BY <1>2, <1>3, <1>4, <1>5, <1>6

LEMMA WritesStep == ASSUME StudioInv, NEW p \in Writers, Writes(p) PROVE StudioInv'
<1> USE DEF StudioInv, StudioTypes
<1>1. ASSUME Generated(p) \/ GenerateFails(p) PROVE StudioInv'
  <2>1. PICK next : next = Silent
    OBVIOUS
  <2>2. /\ next \in [step : {"idle", "sent", "done"}, about : SUBSET (Shows \union AiDrafts)]
        /\ next.step = "idle" /\ writing' = [writing EXCEPT ![p] = next]
    BY <1>1, <2>1 DEF Silent, Generated, GenerateFails
  <2>3. board' \in [Writers -> Boards]
    <3>1. CASE Generated(p)
      <4>1. writing[p].about \in SUBSET AiDrafts
        BY <3>1 DEF Generated
      <4>2. board' = [board EXCEPT ![p].draft = writing[p].about, ![p].open = TRUE, ![p].editing = FALSE]
        BY <3>1 DEF Generated
      <4> QED
        BY <4>1, <4>2, BoardShows, ZenonT(40)
    <3>2. CASE GenerateFails(p)
      BY <3>2 DEF GenerateFails
    <3> QED
      BY <1>1, <3>1, <3>2
  <2> QED
    BY <1>1, <2>2, <2>3, ScreenStep DEF Generated, GenerateFails, Overtakes, draftvars, form
<1>2. ASSUME StartEdit(p) \/ CancelEdit(p) PROVE StudioInv'
  <2>1. board' \in [Writers -> Boards]
    <3>1. PICK e \in BOOLEAN : board' = [board EXCEPT ![p].editing = e]
      BY <1>2 DEF StartEdit, CancelEdit
    <3> QED
      BY <3>1, BoardShows
  <2> QED
    BY <1>2, <2>1, ScreenStep DEF StartEdit, CancelEdit, draftvars, form
<1>3. ASSUME NEW kind \in DraftCalls, SendDraft(p, kind) PROVE StudioInv'
  <2>1. PICK next : next = [step |-> "sent", about |-> board[p].draft]
    OBVIOUS
  <2>2. next \in Requested /\ next.step = "sent" /\ next.about # {}
    BY <1>3, <2>1 DEF SendDraft, Requested, AskSteps, Boards
  <2>3. asking' = [asking EXCEPT ![p][kind] = next] /\ UNCHANGED <<draft, audited, board, writing, description, reading>>
    BY <1>3, <2>1 DEF SendDraft, draftvars, form
  <2>4. asking' \in [Writers -> [DraftCalls -> Requested]] /\ OnRecord'
    BY <2>2, <2>3, RequestMoves DEF OnRecord
  <2> QED
    BY <2>3, <2>4, RequestStep
<1>4. ASSUME NEW kind \in DraftCalls, OnlyOpen(p, kind) PROVE StudioInv'
  <2>1. PICK d \in asking[p][kind].about : To(p, kind, IF draft[d].status = "DRAFT" THEN "checked" ELSE "refused")
    BY <1>4 DEF OnlyOpen
  <2>2. PICK to \in {"checked", "refused"} : To(p, kind, to)
    BY <2>1
  <2>3. to \in AskSteps /\ asking[p][kind].step # "idle"
        /\ UNCHANGED <<draft, audited, board, writing, description, reading>>
    BY <1>4 DEF OnlyOpen, AskSteps, draftvars, form
  <2>4. asking' \in [Writers -> [DraftCalls -> Requested]] /\ OnRecord'
    BY <2>2, <2>3, RequestTo
  <2> QED
    BY <2>3, <2>4, RequestStep
<1>5. ASSUME DraftEdited(p) PROVE StudioInv'
  <2>1. /\ To(p, "edit", "done") /\ asking[p]["edit"].step # "idle" /\ "edit" \in DraftCalls
        /\ "done" \in AskSteps /\ UNCHANGED <<draft, audited, board, writing, description, reading>>
    BY <1>5 DEF DraftEdited, AskSteps, draftvars, form, DraftCalls
  <2>2. asking' \in [Writers -> [DraftCalls -> Requested]] /\ OnRecord'
    BY <2>1, RequestTo
  <2> QED
    BY <2>1, <2>2, RequestStep
<1>6. ASSUME NEW kind \in DraftCalls, DraftDecided(p, kind) PROVE StudioInv'
  <2>1. PICK to \in {"audit", "done"} : To(p, kind, to) /\ (kind = "accept" => to = "audit")
    BY <1>6 DEF DraftDecided
  <2>2. PICK d \in asking[p][kind].about : draft' = [draft EXCEPT ![d].status = DraftDecisions[kind]]
    BY <1>6 DEF DraftDecided
  <2>3. DraftDecisions[kind] \in {"ACCEPTED", "DISCARDED"}
    BY <1>6 DEF DraftDecided, DraftDecisions
  <2>4. to \in AskSteps /\ asking[p][kind].step # "idle"
        /\ UNCHANGED <<audited, board, writing, description, reading>>
    BY <1>6 DEF DraftDecided, AskSteps, form
  <2>5. asking' \in [Writers -> [DraftCalls -> Requested]] /\ OnRecord'
    BY <2>1, <2>4, RequestTo
  <2>6. draft' \in [AiDrafts -> [status : {"NONE", "DRAFT", "ACCEPTED", "DISCARDED"}, about : SUBSET Shows]]
    BY <2>2, <2>3, ZenonT(40)
  <2> QED
    BY <2>4, <2>5, <2>6, RequestStep
<1>7. ASSUME Audited(p) PROVE StudioInv'
  <2>1. PICK next : next = [asking[p]["accept"] EXCEPT !.step = "done"]
    OBVIOUS
  <2>2. "accept" \in DraftCalls /\ asking[p]["accept"] \in Requested /\ asking[p]["accept"].about # {}
    BY <1>7 DEF Audited, DraftCalls, OnRecord
  <2>3. next \in Requested /\ next.step = "done" /\ next.about = asking[p]["accept"].about
    BY <2>1, <2>2 DEF Requested, AskSteps
  <2>4. /\ asking' = [asking EXCEPT ![p]["accept"] = next] /\ audited' = audited \union next.about
        /\ UNCHANGED <<draft, board, writing, description, reading>>
    BY <1>7, <2>1, <2>3 DEF Audited, To, form
  <2>5. asking' \in [Writers -> [DraftCalls -> Requested]] /\ OnRecord'
    BY <2>2, <2>3, <2>4, RequestMoves DEF OnRecord
  <2>6. audited' \subseteq AiDrafts
    BY <2>2, <2>3, <2>4 DEF Requested
  <2> QED
    BY <2>4, <2>5, <2>6, RequestStep
<1>8. ASSUME EditSaved(p) PROVE StudioInv'
  <2>1. "edit" \in DraftCalls /\ asking[p]["edit"] \in Requested
    BY DEF DraftCalls
  <2>2. board' \in [Writers -> Boards]
    <3>1. PICK o \in BOOLEAN : o = (\A d \in asking[p]["edit"].about : draft[d].status = "DRAFT")
      OBVIOUS
    <3>2. PICK d : d = asking[p]["edit"].about
      OBVIOUS
    <3>3. board' = [board EXCEPT ![p].draft = d, ![p].editing = FALSE, ![p].open = o]
      BY <1>8, <3>1, <3>2 DEF EditSaved
    <3>4. d \in SUBSET AiDrafts
      BY <2>1, <3>2 DEF Requested
    <3> QED
      BY <3>3, <3>4, BoardShows
  <2>3. asking' \in [Writers -> [DraftCalls -> Requested]] /\ OnRecord'
    BY <1>8, <2>1, RequestQuiet DEF EditSaved, draftvars, form, OnRecord
  <2> QED
    BY <1>8, <2>2, <2>3, RequestStep, SMTT(40) DEF EditSaved, Overtakes, draftvars, form
<1>9. ASSUME NEW kind \in DraftCalls, AnswerFails(p, kind) PROVE StudioInv'
  <2>1. asking' \in [Writers -> [DraftCalls -> Requested]] /\ OnRecord'
    BY <1>9, RequestQuiet DEF AnswerFails, draftvars, form, OnRecord
  <2> QED
    BY <1>9, <2>1, RequestStep DEF AnswerFails, draftvars, form
<1>10. "edit" \in DraftCalls
  BY DEF DraftCalls
<1> QED
  BY <1>1, <1>2, <1>3, <1>4, <1>5, <1>6, <1>7, <1>8, <1>9, <1>10 DEF Writes, SaveEdit, DecideDraft

\* A draft is written for page p.
LEMMA CreatedStep ==
  ASSUME StudioInv, NEW p \in Writers, NEW d \in AiDrafts, writing[p].step = "sent", Created(p, d),
         UNCHANGED <<audited, board, asking, description, reading>>
  PROVE StudioInv'
<1> USE DEF StudioInv, StudioTypes
<1>1. PICK next : next = [step |-> "done", about |-> {d}]
  OBVIOUS
<1>2. /\ next \in [step : {"idle", "sent", "done"}, about : SUBSET (Shows \union AiDrafts)]
      /\ next.step = "done" /\ next.about = {d} /\ writing' = [writing EXCEPT ![p] = next]
  BY <1>1 DEF Created
<1>3. draft' \in [AiDrafts -> [status : {"NONE", "DRAFT", "ACCEPTED", "DISCARDED"}, about : SUBSET Shows]]
  BY DEF Created
<1>4. {d} \subseteq AiDrafts /\ board' \in [Writers -> Boards]
  OBVIOUS
<1>5. \E q \in Writers, w \in [step : {"idle", "sent", "done"}, about : SUBSET (Shows \union AiDrafts)] :
        /\ writing' = [writing EXCEPT ![q] = w]
        /\ w.step = "sent" => w.about \subseteq Shows
        /\ w.step = "done" => w.about \subseteq AiDrafts
  <2>1. next.step # "sent" /\ next.about \subseteq AiDrafts
    BY <1>2, <1>4
  <2> HIDE DEF StudioInv, StudioTypes
  <2> QED
    BY <1>2, <2>1
<1> HIDE DEF StudioInv, StudioTypes
<1> QED
  BY <1>3, <1>4, <1>5, ScreenStep

\* A draft is asked for on page p.
LEMMA AskForDraftStep == ASSUME StudioInv, NEW p \in Writers, AskForDraft(p) PROVE StudioInv'
<1> USE DEF StudioInv, StudioTypes
<1>1. PICK next : next = [step |-> "sent", about |-> board[p].show]
  OBVIOUS
<1>2. /\ next \in [step : {"idle", "sent", "done"}, about : SUBSET (Shows \union AiDrafts)]
      /\ next.step = "sent" /\ next.about \subseteq Shows /\ writing' = [writing EXCEPT ![p] = next]
  BY <1>1 DEF AskForDraft, Boards
<1> QED
  BY <1>2, ScreenStep DEF AskForDraft, draftvars, form

LEMMA AssistantStep == StudioInv /\ AssistantNext => StudioInv'
<1> SUFFICES ASSUME StudioInv, AssistantNext PROVE StudioInv'
  OBVIOUS
<1> USE DEF StudioInv, StudioTypes
<1>1. "assistant" \in Writers
  BY DEF Writers
<1>2. ASSUME NEW kind \in DraftCalls, UseDescription(kind) PROVE StudioInv'
  <2>1. board["assistant"].draft \subseteq AiDrafts
    BY <1>1 DEF Boards
  <2>2. /\ description' \in {description, board["assistant"].draft}
        /\ board' = [board EXCEPT !["assistant"].draft = {}] /\ Quiet("assistant", kind)
        /\ UNCHANGED <<draft, audited, writing, reading>>
    BY <1>2 DEF UseDescription, draftvars, form
  <2>4. asking' \in [Writers -> [DraftCalls -> Requested]] /\ OnRecord'
    BY <1>1, <2>2, RequestQuiet
  <2>5. board' \in [Writers -> Boards]
    BY <1>1, <2>2, ZenonT(100) DEF Boards
  <2> QED
    BY <2>1, <2>2, <2>4, <2>5, RequestStep
<1>3. ASSUME NEW d \in AiDrafts, EventAssistant(d) PROVE StudioInv'
  BY <1>1, <1>3, CreatedStep DEF EventAssistant, form
<1> QED
  BY <1>1, <1>2, <1>3, WritesStep, AskForDraftStep DEF AssistantNext, AssistantGenerate

LEMMA MarketingStep == StudioInv /\ MarketingNext => StudioInv'
<1> SUFFICES ASSUME StudioInv, MarketingNext PROVE StudioInv'
  OBVIOUS
<1> USE DEF StudioInv, StudioTypes
<1>1. "studio" \in Writers
  BY DEF Writers
<1>2. ASSUME NEW kind \in DraftCalls, Approved(kind) PROVE StudioInv'
  <2>1. asking["studio"][kind] \in Requested
    BY <1>1
  <2>2. asking' \in [Writers -> [DraftCalls -> Requested]] /\ OnRecord'
    BY <1>1, <1>2, RequestQuiet DEF Approved, draftvars, form, OnRecord
  <2>3. board' \in [Writers -> Boards]
    <3>1. PICK d \in SUBSET AiDrafts : d = IF kind = "accept" THEN asking["studio"][kind].about ELSE {}
      BY <2>1 DEF Requested
    <3>2. board' = [board EXCEPT !["studio"].draft = d, !["studio"].open = FALSE]
      BY <1>2, <3>1 DEF Approved
    <3> QED
      BY <1>1, <3>2, BoardShows
  <2> QED
    BY <1>2, <2>2, <2>3, RequestStep DEF Approved, draftvars, form
<1>3. ASSUME NEW d \in AiDrafts, Marketing(d) PROVE StudioInv'
  BY <1>1, <1>3, CreatedStep DEF Marketing, form
<1>4. ASSUME NEW d \in AiDrafts, OpenPrevious(d) PROVE StudioInv'
  <2>1. board' \in [Writers -> Boards]
    <3>1. PICK o \in BOOLEAN : o = (draft[d].status = "DRAFT")
      OBVIOUS
    <3>2. board' = [board EXCEPT !["studio"].draft = {d}, !["studio"].open = o]
      BY <1>4, <3>1 DEF OpenPrevious
    <3>3. {d} \in SUBSET AiDrafts
      OBVIOUS
    <3> QED
      BY <1>1, <3>2, <3>3, BoardShows, ZenonT(40)
  <2> QED
    BY <1>4, <2>1, ScreenStep DEF OpenPrevious, draftvars, form
<1>5. ASSUME NEW e \in Shows, ChooseEvent(e) PROVE StudioInv'
  <2>1. board' \in [Writers -> Boards]
    <3>1. board' = [board EXCEPT !["studio"].show = {e}, !["studio"].draft = {}]
      BY <1>5 DEF ChooseEvent
    <3>2. {e} \in SUBSET Shows /\ {} \in SUBSET AiDrafts
      OBVIOUS
    <3> QED
      BY <1>1, <3>1, <3>2, BoardShows
  <2> QED
    BY <1>5, <2>1, ScreenStep DEF ChooseEvent, draftvars, form
<1> QED
  BY <1>1, <1>2, <1>3, <1>4, <1>5, WritesStep, AskForDraftStep DEF MarketingNext, StudioGenerate

LEMMA StudioInductive == StudioSpec => []StudioInv
<1>1. StudioInv /\ [AssistantNext \/ MarketingNext \/ ExplainNext]_studiovars => StudioInv'
  <2> SUFFICES ASSUME StudioInv, [AssistantNext \/ MarketingNext \/ ExplainNext]_studiovars
               PROVE StudioInv'
    OBVIOUS
  <2>1. CASE UNCHANGED studiovars
    BY <2>1 DEF studiovars, draftvars, form, StudioInv, StudioTypes, OnRecord, OnTopicInv, OnTopic
  <2> QED
    BY <2>1, AssistantStep, MarketingStep, ExplainStep
<1> QED
  BY <1>1, StudioInitInv, PTL DEF StudioSpec

\* The text in the form was accepted, or overtook an acceptance; and while an acceptance is under
\* way the screen shows the draft it is about, or one that overtakes it.
FormInv ==
  /\ overtook \subseteq AiDrafts
  /\ description \subseteq audited \cup overtook
  /\ asking["assistant"]["accept"].step # "idle"
       => board["assistant"].draft \subseteq asking["assistant"]["accept"].about \cup overtook

\* What a step that moves one request makes of the assistant's acceptance.
LEMMA AcceptanceAt ==
  ASSUME StudioInv, NEW p \in Writers, NEW kind \in DraftCalls
  PROVE /\ \A next : asking' = [asking EXCEPT ![p][kind] = next] =>
             asking'["assistant"]["accept"] = IF p = "assistant" /\ kind = "accept" THEN next
                                              ELSE asking["assistant"]["accept"]
        /\ \A to : To(p, kind, to) => asking'["assistant"]["accept"].about = asking["assistant"]["accept"].about
        /\ \A to : To(p, kind, to) /\ asking[p][kind].step # "idle"
                     /\ asking'["assistant"]["accept"].step # "idle" =>
             asking["assistant"]["accept"].step # "idle"
<1>1. asking \in [Writers -> [DraftCalls -> Requested]] /\ "assistant" \in Writers /\ "accept" \in DraftCalls
  BY DEF StudioInv, StudioTypes, Writers, DraftCalls
<1>2. asking["assistant"]["accept"] \in Requested
  BY <1>1
<1>3. ASSUME NEW next, asking' = [asking EXCEPT ![p][kind] = next]
      PROVE asking'["assistant"]["accept"] = IF p = "assistant" /\ kind = "accept" THEN next
                                             ELSE asking["assistant"]["accept"]
  BY <1>1, <1>3
<1>4. ASSUME NEW to, To(p, kind, to)
      PROVE /\ asking'["assistant"]["accept"].about = asking["assistant"]["accept"].about
            /\ asking'["assistant"]["accept"] = asking["assistant"]["accept"] \/ (p = "assistant" /\ kind = "accept")
  <2>1. PICK next : next = [asking[p][kind] EXCEPT !.step = to]
    OBVIOUS
  <2>2. asking' = [asking EXCEPT ![p][kind] = next]
    BY <1>1, <1>4, <2>1 DEF To
  <2>3. next.about = asking[p][kind].about
    BY <1>1, <2>1 DEF Requested
  <2> QED
    BY <1>3, <2>2, <2>3
<1> QED
  BY <1>3, <1>4

\* A step that neither fills the form nor lets another draft overtake.
LEMMA FormKeeps ==
  ASSUME FormInv, UNCHANGED form, audited \subseteq audited',
         board'["assistant"].draft \subseteq board["assistant"].draft,
         asking'["assistant"]["accept"].step # "idle" =>
           /\ asking["assistant"]["accept"].step # "idle"
           /\ asking'["assistant"]["accept"].about = asking["assistant"]["accept"].about
  PROVE FormInv'
BY DEF FormInv, form

\* A draft takes the screen of page p.
LEMMA TakesScreen ==
  ASSUME StudioInv, FormInv, NEW p \in Writers, NEW d \in SUBSET AiDrafts, Overtakes(p, d),
         audited' = audited, board'[p].draft = d, p # "assistant" => board'["assistant"] = board["assistant"],
         asking'["assistant"]["accept"] = asking["assistant"]["accept"]
  PROVE FormInv'
<1>1. CASE p = "assistant"
  BY <1>1 DEF FormInv, Overtakes
<1>2. CASE p # "assistant"
  BY <1>2 DEF FormInv, Overtakes
<1> QED
  BY <1>1, <1>2

\* A request of page p is answered in some other way than into the form.
LEMMA RequestEnds ==
  ASSUME StudioInv, NEW p \in Writers, NEW kind \in DraftCalls, Quiet(p, kind)
  PROVE asking'["assistant"]["accept"] = IF p = "assistant" /\ kind = "accept" THEN Silent
                                         ELSE asking["assistant"]["accept"]
BY AcceptanceAt DEF Quiet

LEMMA FormWrites == ASSUME StudioInv, FormInv, NEW p \in Writers, Writes(p) PROVE FormInv'
<1>1. "edit" \in DraftCalls /\ "accept" \in DraftCalls /\ "assistant" \in Writers
  BY DEF DraftCalls, Writers
<1>2. board \in [Writers -> Boards] /\ asking \in [Writers -> [DraftCalls -> Requested]]
  BY DEF StudioInv, StudioTypes
<1>3. CASE Generated(p)
  <2>1. PICK d : d = writing[p].about
    OBVIOUS
  <2>2. /\ d \in SUBSET AiDrafts /\ Overtakes(p, d) /\ audited' = audited /\ asking' = asking
        /\ board' = [board EXCEPT ![p].draft = d, ![p].open = TRUE, ![p].editing = FALSE]
    BY <1>3, <2>1 DEF Generated, StudioInv, StudioTypes, draftvars
  <2>3. board'[p].draft = d /\ (p # "assistant" => board'["assistant"] = board["assistant"])
    BY <1>1, <1>2, <2>2 DEF Boards
  <2> QED
    BY <2>2, <2>3, TakesScreen
<1>4. CASE GenerateFails(p) \/ StartEdit(p) \/ CancelEdit(p)
  <2>1. asking' = asking /\ audited' = audited /\ UNCHANGED form
    BY <1>4 DEF GenerateFails, StartEdit, CancelEdit, draftvars
  <2>2. board'["assistant"].draft = board["assistant"].draft
    BY <1>1, <1>2, <1>4 DEF GenerateFails, StartEdit, CancelEdit, Boards
  <2> QED
    BY <2>1, <2>2, FormKeeps
<1>5. ASSUME NEW kind \in DraftCalls, SendDraft(p, kind) PROVE FormInv'
  <2>1. PICK next : next = [step |-> "sent", about |-> board[p].draft]
    OBVIOUS
  <2>2. /\ asking' = [asking EXCEPT ![p][kind] = next] /\ audited' = audited /\ board' = board /\ UNCHANGED form
    BY <1>5, <2>1 DEF SendDraft, draftvars
  <2>3. asking'["assistant"]["accept"] = IF p = "assistant" /\ kind = "accept" THEN next
                                         ELSE asking["assistant"]["accept"]
    BY <2>2, AcceptanceAt
  <2> QED
    BY <2>1, <2>2, <2>3 DEF FormInv, form
<1>6. ASSUME NEW kind \in DraftCalls, NEW to, To(p, kind, to), asking[p][kind].step # "idle",
             board' = board, UNCHANGED form, audited \subseteq audited'
      PROVE FormInv'
  BY <1>6, AcceptanceAt, FormKeeps
<1>7. ASSUME NEW kind \in DraftCalls, OnlyOpen(p, kind) \/ DraftDecided(p, kind) PROVE FormInv'
  <2>1. PICK to : To(p, kind, to)
    BY <1>7 DEF OnlyOpen, DraftDecided
  <2>2. asking[p][kind].step # "idle" /\ board' = board /\ audited' = audited /\ UNCHANGED form
    BY <1>7 DEF OnlyOpen, DraftDecided, draftvars
  <2> QED
    BY <1>6, <2>1, <2>2
<1>8. CASE DraftEdited(p)
  BY <1>1, <1>6, <1>8 DEF DraftEdited, draftvars
<1>9. CASE Audited(p)
  BY <1>1, <1>6, <1>9 DEF Audited
<1>10. CASE EditSaved(p)
  <2>1. PICK d : d = asking[p]["edit"].about
    OBVIOUS
  <2>2. PICK o \in BOOLEAN : o = (\A x \in d : draft[x].status = "DRAFT")
    OBVIOUS
  <2>3. /\ Overtakes(p, d) /\ audited' = audited /\ Quiet(p, "edit")
        /\ board' = [board EXCEPT ![p].draft = d, ![p].editing = FALSE, ![p].open = o]
    BY <1>10, <2>1, <2>2 DEF EditSaved, draftvars
  <2>4. d \in SUBSET AiDrafts
    BY <1>1, <1>2, <2>1 DEF Requested
  <2>5. board'[p].draft = d /\ (p # "assistant" => board'["assistant"] = board["assistant"])
    BY <1>1, <1>2, <2>3 DEF Boards
  <2>6. asking'["assistant"]["accept"] = asking["assistant"]["accept"]
    BY <1>1, <2>3, RequestEnds
  <2> QED
    BY <2>3, <2>4, <2>5, <2>6, TakesScreen
<1>11. ASSUME NEW kind \in DraftCalls, AnswerFails(p, kind) PROVE FormInv'
  <2>1. /\ Quiet(p, kind) /\ AcceptanceEnds(p, kind) /\ audited' = audited /\ board' = board
        /\ description' = description
    BY <1>11 DEF AnswerFails, draftvars
  <2>2. asking'["assistant"]["accept"] = IF p = "assistant" /\ kind = "accept" THEN Silent
                                         ELSE asking["assistant"]["accept"]
    BY <2>1, RequestEnds
  <2>3. Silent.step = "idle"
    BY DEF Silent
  <2> QED
    BY <2>1, <2>2, <2>3 DEF FormInv, AcceptanceEnds
<1> QED
  BY <1>1, <1>3, <1>4, <1>5, <1>7, <1>8, <1>9, <1>10, <1>11 DEF Writes, SaveEdit, DecideDraft

\* The assistant's decision is in: what is on screen is what was accepted, or overtook it.
LEMMA FormFilled == ASSUME StudioInv, FormInv, NEW kind \in DraftCalls, UseDescription(kind) PROVE FormInv'
<1>1. "accept" \in DraftCalls /\ "assistant" \in Writers
  BY DEF DraftCalls, Writers
<1>2. /\ asking["assistant"][kind].step = "done" /\ audited' = audited /\ Quiet("assistant", kind)
      /\ AcceptanceEnds("assistant", kind)
      /\ board' = [board EXCEPT !["assistant"].draft = {}]
      /\ description' = IF kind = "accept" /\ board["assistant"].draft # {} THEN board["assistant"].draft
                        ELSE description
  BY DEF UseDescription, draftvars
<1>3. board'["assistant"].draft = {}
  BY <1>1, <1>2 DEF StudioInv, StudioTypes, Boards
<1>4. CASE kind = "accept"
  <2>1. asking["assistant"]["accept"].about \subseteq audited /\ asking["assistant"]["accept"].step # "idle"
    BY <1>1, <1>2, <1>4 DEF StudioInv, OnRecord
  <2>2. description' \subseteq audited \cup overtook
    BY <1>2, <2>1 DEF FormInv
  <2>3. overtook' = overtook \cap description'
    BY <1>2, <1>4 DEF AcceptanceEnds
  <2> QED
    BY <1>2, <1>3, <2>2, <2>3 DEF FormInv
<1>5. CASE kind # "accept"
  <2>1. asking'["assistant"]["accept"] = asking["assistant"]["accept"]
    BY <1>1, <1>2, <1>5, RequestEnds
  <2>2. overtook' = overtook /\ description' = description
    BY <1>2, <1>5 DEF AcceptanceEnds
  <2> QED
    BY <1>2, <1>3, <2>1, <2>2 DEF FormInv
<1> QED
  BY <1>4, <1>5

LEMMA FormStep == StudioInv /\ FormInv /\ [AssistantNext \/ MarketingNext \/ ExplainNext]_studiovars => FormInv'
<1> SUFFICES ASSUME StudioInv, FormInv, [AssistantNext \/ MarketingNext \/ ExplainNext]_studiovars
             PROVE FormInv'
  OBVIOUS
<1>1. "assistant" \in Writers /\ "studio" \in Writers /\ board \in [Writers -> Boards]
  BY DEF Writers, StudioInv, StudioTypes
<1>2. ASSUME UNCHANGED <<audited, asking, form>>, board'["assistant"] = board["assistant"] PROVE FormInv'
  BY <1>2, FormKeeps
<1>3. CASE ExplainNext \/ UNCHANGED studiovars
  <2>1. CASE ExplainNext
    <3>1. UNCHANGED <<draftvars, board, writing, asking, form>>
      BY <2>1 DEF ExplainNext, SelectShow, SelectPeriod, Turn, FiguresArrive, Explain, Report, Ask,
                  ExplainSales, OpsReport
    <3> QED
      BY <1>2, <3>1 DEF draftvars
  <2>2. CASE UNCHANGED studiovars
    BY <1>2, <2>2 DEF studiovars
  <2> QED
    BY <1>3, <2>1, <2>2
<1>4. ASSUME NEW d \in AiDrafts, EventAssistant(d) \/ Marketing(d) PROVE FormInv'
  BY <1>2, <1>4 DEF EventAssistant, Marketing
<1>5. CASE AssistantGenerate \/ StudioGenerate
  BY <1>2, <1>5 DEF AssistantGenerate, StudioGenerate, AskForDraft, draftvars
<1>6. CASE \/ \E d \in AiDrafts : OpenPrevious(d)
           \/ \E e \in Shows : ChooseEvent(e)
  <2>1. UNCHANGED <<audited, asking, form>>
    BY <1>6 DEF OpenPrevious, ChooseEvent, draftvars
  <2>2. board'["assistant"] = board["assistant"]
    BY <1>1, <1>6 DEF OpenPrevious, ChooseEvent
  <2> QED
    BY <1>2, <2>1, <2>2
<1>7. ASSUME NEW kind \in DraftCalls, Approved(kind) PROVE FormInv'
  <2>1. UNCHANGED <<audited, form>> /\ Quiet("studio", kind)
    BY <1>7 DEF Approved, draftvars
  <2>2. board'["assistant"] = board["assistant"]
    BY <1>1, <1>7 DEF Approved
  <2>3. asking'["assistant"]["accept"] = asking["assistant"]["accept"]
    BY <1>1, <2>1, RequestEnds
  <2> QED
    BY <2>1, <2>2, <2>3, FormKeeps
<1>8. CASE AssistantNext
  BY <1>1, <1>4, <1>5, <1>8, FormWrites, FormFilled DEF AssistantNext
<1>9. CASE MarketingNext
  BY <1>1, <1>4, <1>5, <1>6, <1>7, <1>9, FormWrites DEF MarketingNext
<1> QED
  BY <1>3, <1>8, <1>9

LEMMA FormInductive == StudioSpec => []FormInv
<1>1. StudioInit => FormInv
  BY DEF StudioInit, FormInv, Writers, DraftCalls, Silent
<1> QED
  BY <1>1, FormStep, StudioInductive, PTL DEF StudioSpec

\* Drafts, screens and requests keep their types.
THEOREM StudioTyped == StudioSpec => []StudioTypeOK
<1>1. StudioInv /\ FormInv => StudioTypeOK
  BY DEF StudioInv, StudioTypes, StudioTypeOK, Boards, Requested, AskSteps, OnTopicInv, OnTopic, Readings, FormInv
<1> QED
  BY <1>1, StudioInductive, FormInductive, PTL

\* Whatever is answered late, lost or generated anew: the text in the event form is of a draft whose
\* acceptance is on record, or of one that took the screen while an acceptance was under way; and
\* no explanation is shown beside another topic's figures.
THEOREM AdviceKeepsItsPlace == StudioSpec => []AdviceInPlace
<1>1. StudioInv /\ FormInv => AdviceInPlace
  BY DEF StudioInv, FormInv, OnTopicInv, OnTopic, AdviceInPlace
<1> QED
  BY <1>1, StudioInductive, FormInductive, PTL

-----------------------------------------------------------------------------
(* Support: nobody hears what is not theirs or not so.                      *)

Somebody == Readers \cup {Anon}
SomeConv == Convs \cup {NoConv}
Said == [claims : SUBSET {"paid", "refund", "cancel"}, cites : SUBSET (Listed \cup Drafts)]
SupportCalls == [kind : {"chat", "resume", "ticket"}, conv : SomeConv, as : Somebody, token : SomeConv,
              at : {"sent", "stored", "read", "answered", "checked"}, paid : BOOLEAN, fresh : BOOLEAN,
              about : SUBSET Readers, answer : Said]
DeskRows == [conv : SomeConv, status : {"OPEN", "IN_PROGRESS", "RESOLVED", "CLOSED"}, note : BOOLEAN]

ConvTypes ==
  /\ payers \subseteq Readers
  /\ owner \in [Convs -> Somebody]
  /\ convStatus \in [Convs -> {"NONE", "OPEN", "ESCALATED", "GONE"}]
  /\ grounded \in [Convs -> BOOLEAN]
  /\ desk \in Seq(DeskRows) /\ Len(desk) <= MaxDesk

BrowserTypes ==
  /\ reader \in Somebody /\ bearer \in Somebody /\ saved \in SomeConv
  /\ widget \in [conv : SomeConv, token : SomeConv, sending : BOOLEAN]

\* An answer claims nothing of user u that is not so.
Truthful(a, u) ==
  /\ "paid" \in a.claims => u \in payers
  /\ "refund" \in a.claims => "cancel" \in a.claims
  /\ a.cites \subseteq Listed

\* A request carries the token of a visitor or somebody's name, never both; once its
\* conversation is found or opened, that is its sender's, and what it draws on is too.
CallInv(r) ==
  /\ r \in SupportCalls
  /\ r.token # NoConv => r.as = Anon
  /\ r.kind = "resume" => r.conv # NoConv /\ r.as = Anon
  /\ r.at \in {"stored", "read"} =>
       r.conv # NoConv /\ convStatus[r.conv] # "NONE" /\ owner[r.conv] = r.as
  /\ r.at \in {"read", "answered"} => r.about \subseteq {r.as}
  /\ r.paid => r.as \in payers
  /\ Truthful(r.answer, r.as)

\* Only a user's conversation has an answer drawn from orders: theirs.
GroundedOwned == \A c \in Convs : grounded[c] => owner[c] # Anon /\ convStatus[c] # "NONE"

SupportInv == ConvTypes /\ BrowserTypes /\ GroundedOwned /\ \A r \in calls : CallInv(r)

\* Who has paid has paid, and a conversation that exists keeps its owner.
ConvsAge ==
  /\ payers \subseteq payers'
  /\ \A c \in Convs : convStatus[c] # "NONE" => convStatus'[c] # "NONE" /\ owner'[c] = owner[c]

LEMMA SupportInitInv == SupportInit => SupportInv
<1> SUFFICES ASSUME SupportInit PROVE SupportInv
  OBVIOUS
<1>1. <<>> \in Seq(DeskRows) /\ Len(<<>>) = 0
  OBVIOUS
<1>2. ConvTypes
  <2>1. desk \in Seq(DeskRows) /\ Len(desk) <= MaxDesk
    BY <1>1, SupportAssumption DEF SupportInit
  <2> QED
    BY <2>1 DEF SupportInit, ConvTypes, Somebody
<1> QED
  BY <1>2 DEF SupportInit, SupportInv, BrowserTypes, GroundedOwned, Somebody, SomeConv

\* What holds of a request goes on to hold.
LEMMA CallStays == ASSUME ConvsAge, NEW r, CallInv(r) PROVE CallInv(r)'
<1>1. r.at \in {"stored", "read"} => convStatus'[r.conv] # "NONE" /\ owner'[r.conv] = r.as
  BY DEF ConvsAge, CallInv, SupportCalls, SomeConv
<1>2. Truthful(r.answer, r.as)'
  BY DEF ConvsAge, CallInv, Truthful
<1>3. r.paid => r.as \in payers'
  BY DEF ConvsAge, CallInv
<1> QED
  BY <1>1, <1>2, <1>3 DEF CallInv

\* A step after which there is no new request, or one more.
LEMMA SupportKeeps ==
  ASSUME SupportInv, ConvsAge, ConvTypes', BrowserTypes', GroundedOwned',
         \/ calls' \subseteq calls
         \/ \E s : CallInv(s)' /\ calls' \subseteq calls \cup {s}
  PROVE SupportInv'
<1>1. \A r \in calls : CallInv(r)'
  BY CallStays DEF SupportInv
<1>2. \A r \in calls' : CallInv(r)'
  BY <1>1
<1> QED
  BY <1>2 DEF SupportInv

\* The same, when the rows stay as they are.
LEMMA CallsKeep ==
  ASSUME SupportInv, UNCHANGED <<payers, convRows, desk>>, BrowserTypes',
         \/ calls' \subseteq calls
         \/ \E s : CallInv(s) /\ calls' \subseteq calls \cup {s}
  PROVE SupportInv'
<1>1. ConvsAge /\ ConvTypes' /\ GroundedOwned'
  BY DEF ConvsAge, SupportInv, ConvTypes, GroundedOwned, convRows
<1>2. ASSUME NEW s, CallInv(s) PROVE CallInv(s)'
  BY <1>1, <1>2, CallStays
<1> QED
  BY <1>1, <1>2, SupportKeeps

LEMMA PlainSaid == Plain \in Said /\ \A u : Truthful(Plain, u)
BY DEF Plain, Said, Truthful

\* What the browser sends.
LEMMA CallMade ==
  ASSUME SupportInv, NEW kind \in {"chat", "resume", "ticket"},
         kind = "resume" => widget.conv # NoConv /\ reader = Anon
  PROVE CallInv(Call(kind))
<1>1. PICK s : s = Call(kind)
  OBVIOUS
<1>2. /\ s \in SupportCalls /\ s.kind = kind /\ s.conv = widget.conv /\ s.at = "sent" /\ ~s.paid
      /\ s.answer = Plain
      /\ s.token # NoConv => s.as = Anon
      /\ reader = Anon => s.as = Anon
  BY <1>1, PlainSaid DEF Call, SupportCalls, SupportInv, BrowserTypes, Somebody, SomeConv
<1> QED
  BY <1>1, <1>2, PlainSaid DEF CallInv

\* A request that was let through to a conversation is its owner's.
LEMMA OwnsIs ==
  ASSUME SupportInv, NEW r \in calls, ~Refused(r), r.conv # NoConv
  PROVE r.conv \in Convs /\ owner[r.conv] = r.as /\ convStatus[r.conv] # "NONE"
BY SupportAssumption DEF SupportInv, CallInv, Refused, Owns, Alive, SupportCalls, SomeConv

\* A request leaves nothing of itself in the browser but conversations and its lock.
LEMMA BrowserSteps ==
  ASSUME SupportInv, UNCHANGED <<payers, convRows, desk, purging>>,
         \/ \E u \in Somebody : AccountChanges(u) \/ OtherTabChanges(u)
         \/ Send \/ ResumeTranscript \/ EscalateForm \/ NewChat
         \/ \E r \in calls : ChatReplied(r) \/ TranscriptShown(r) \/ CallFails(r)
  PROVE SupportInv'
<1>1. /\ reader \in Somebody /\ bearer \in Somebody /\ saved \in SomeConv
      /\ widget \in [conv : SomeConv, token : SomeConv, sending : BOOLEAN] /\ NoConv \in SomeConv
  BY DEF SupportInv, BrowserTypes, SomeConv
<1>2. UNCHANGED <<payers, convRows, desk>>
  OBVIOUS
<1>3. ASSUME NEW u \in Somebody, AccountChanges(u) \/ OtherTabChanges(u) PROVE SupportInv'
  <2>0. PICK sending \in BOOLEAN : sending = widget.sending
    BY <1>1
  <2>1. BrowserTypes'
    <3>1. \/ widget' = widget
          \/ widget' = [conv |-> saved, token |-> saved, sending |-> sending]
          \/ widget' = [widget EXCEPT !.conv = NoConv]
      BY <1>3, <2>0 DEF AccountChanges, OtherTabChanges, ResetChat
    <3>2. widget' \in [conv : SomeConv, token : SomeConv, sending : BOOLEAN]
      BY <1>1, <3>1
    <3>3. reader' \in Somebody /\ bearer' \in Somebody /\ saved' \in SomeConv
      BY <1>1, <1>3 DEF AccountChanges, OtherTabChanges
    <3> QED
      BY <3>2, <3>3 DEF BrowserTypes
  <2>2. calls' = calls
    BY <1>3 DEF AccountChanges, OtherTabChanges
  <2> QED
    BY <1>2, <2>1, <2>2, CallsKeep
<1>4. ASSUME NEW kind \in {"chat", "resume", "ticket"}, Asks(kind), reader' = reader, bearer' = bearer,
             saved' = saved, widget' \in [conv : SomeConv, token : SomeConv, sending : BOOLEAN],
             kind = "resume" => widget.conv # NoConv /\ reader = Anon
      PROVE SupportInv'
  <2>1. BrowserTypes'
    BY <1>1, <1>4 DEF BrowserTypes
  <2>2. CallInv(Call(kind)) /\ calls' = calls \cup {Call(kind)}
    BY <1>4, CallMade DEF Asks
  <2> QED
    BY <1>2, <2>1, <2>2, CallsKeep
<1>5. CASE Send
  <2>1. /\ widget' \in [conv : SomeConv, token : SomeConv, sending : BOOLEAN] /\ Asks("chat")
        /\ reader' = reader /\ bearer' = bearer /\ saved' = saved
    BY <1>1, <1>5 DEF Send
  <2> QED
    BY <2>1, <1>4
<1>6. CASE ResumeTranscript
  <2>1. /\ widget' \in [conv : SomeConv, token : SomeConv, sending : BOOLEAN] /\ Asks("resume")
        /\ widget.conv # NoConv /\ reader = Anon
        /\ reader' = reader /\ bearer' = bearer /\ saved' = saved
    BY <1>1, <1>6 DEF ResumeTranscript, browser
  <2> QED
    BY <2>1, <1>4
<1>7. CASE EscalateForm
  <2>1. /\ widget' \in [conv : SomeConv, token : SomeConv, sending : BOOLEAN] /\ Asks("ticket")
        /\ reader' = reader /\ bearer' = bearer /\ saved' = saved
    BY <1>1, <1>7 DEF EscalateForm, browser
  <2> QED
    BY <2>1, <1>4
<1>8. CASE NewChat
  <2>1. BrowserTypes' /\ calls' = calls
    BY <1>1, <1>8 DEF NewChat, BrowserTypes
  <2> QED
    BY <1>2, <2>1, CallsKeep
<1>9. ASSUME NEW r \in calls, ChatReplied(r) \/ TranscriptShown(r) \/ CallFails(r) PROVE SupportInv'
  <2>1. r.conv \in SomeConv
    BY DEF SupportInv, CallInv, SupportCalls
  <2>2. BrowserTypes'
    <3>1. reader' \in Somebody /\ bearer' \in Somebody /\ saved' \in SomeConv
      BY <1>1, <1>9, <2>1 DEF ChatReplied, TranscriptShown, CallFails, browser
    <3>2. CASE CallFails(r)
      <4>1. PICK sending \in BOOLEAN : sending = (widget.sending /\ r.kind # "chat")
        BY <1>1
      <4>2. widget' = [widget EXCEPT !.sending = sending]
        BY <1>1, <3>2, <4>1 DEF CallFails
      <4> QED
        BY <1>1, <3>1, <4>2 DEF BrowserTypes
    <3>3. CASE TranscriptShown(r)
      BY <1>1, <3>1, <3>3 DEF TranscriptShown, browser, BrowserTypes
    <3>4. CASE ChatReplied(r)
      <4>1. PICK token \in SomeConv : token = IF r.fresh THEN r.conv ELSE widget.token
        BY <1>1, <2>1
      <4>2. widget' = [conv |-> r.conv, token |-> token, sending |-> FALSE]
        BY <3>4, <4>1 DEF ChatReplied
      <4> QED
        BY <2>1, <3>1, <4>2 DEF BrowserTypes
    <3> QED
      BY <1>9, <3>2, <3>3, <3>4
  <2>3. calls' \subseteq calls
    BY <1>9 DEF ChatReplied, TranscriptShown, CallFails
  <2> QED
    BY <1>2, <2>2, <2>3, CallsKeep
<1> QED
  BY <1>3, <1>5, <1>6, <1>7, <1>8, <1>9

\* A request moves on, and nothing else does.
LEMMA CallMoves ==
  ASSUME SupportInv, UNCHANGED <<payers, convRows, desk, browser>>, NEW r \in calls, NEW s, CallInv(s),
         Moved(r, s)
  PROVE SupportInv'
<1>1. BrowserTypes' /\ calls' \subseteq calls \cup {s}
  BY DEF SupportInv, BrowserTypes, browser, Moved
<1> QED
  BY <1>1, CallsKeep

LEMMA ChatContinuesStep == ASSUME SupportInv, NEW r \in calls, ChatContinues(r) PROVE SupportInv'
<1>1. PICK s : s = [r EXCEPT !.at = "stored"]
  OBVIOUS
<1>2. r.conv \in Convs /\ owner[r.conv] = r.as /\ convStatus[r.conv] # "NONE"
  BY OwnsIs DEF ChatContinues
<1>3. CallInv(r)
  BY DEF SupportInv
<1>4. /\ s \in SupportCalls /\ s.at = "stored" /\ s.conv = r.conv /\ s.as = r.as /\ s.token = r.token
      /\ s.kind = r.kind /\ s.paid = r.paid /\ s.answer = r.answer
  BY <1>1, <1>3 DEF CallInv, SupportCalls
<1>5. CallInv(s)
  BY <1>2, <1>3, <1>4, SupportAssumption DEF CallInv
<1> QED
  BY <1>1, <1>5, CallMoves DEF ChatContinues

LEMMA FindOwnOrdersStep == ASSUME SupportInv, NEW r \in calls, FindOwnOrders(r) PROVE SupportInv'
<1> DEFINE history == IF grounded[r.conv] THEN {owner[r.conv]} ELSE {}
           orders == IF r.as # Anon THEN {r.as} ELSE {}
<1>1. PICK about : about = history \cup orders
  OBVIOUS
<1>2. PICK paid \in BOOLEAN : paid = (r.as \in payers)
  <2>1. (r.as \in payers) = TRUE \/ (r.as \in payers) = FALSE
    OBVIOUS
  <2> QED
    BY <2>1
<1>3. PICK s : s = [r EXCEPT !.at = "read", !.paid = paid, !.about = about]
  OBVIOUS
<1>4. Moved(r, s) /\ r.at = "stored" /\ UNCHANGED <<payers, convRows, desk, browser>>
  BY <1>1, <1>2, <1>3 DEF FindOwnOrders
<1>5. CallInv(r)
  BY DEF SupportInv
<1>6. owner[r.conv] = r.as /\ r.as \in Somebody
  BY <1>4, <1>5 DEF CallInv, SupportCalls
<1>7. about \subseteq {r.as} /\ about \subseteq Readers
  <2>1. grounded[r.conv] => owner[r.conv] # Anon
    BY <1>4, <1>5 DEF SupportInv, GroundedOwned, CallInv, SupportCalls, SomeConv
  <2> QED
    BY <1>1, <1>6, <2>1 DEF Somebody
<1>8. /\ s \in SupportCalls /\ s.at = "read" /\ s.conv = r.conv /\ s.as = r.as /\ s.token = r.token
      /\ s.kind = r.kind /\ s.paid = paid /\ s.about = about /\ s.answer = r.answer
  BY <1>3, <1>5, <1>7 DEF CallInv, SupportCalls
<1>9. CallInv(s)
  BY <1>2, <1>4, <1>5, <1>7, <1>8 DEF CallInv
<1> QED
  BY <1>4, <1>9, CallMoves

LEMMA GetConversationStep == ASSUME SupportInv, NEW r \in calls, GetConversation(r) PROVE SupportInv'
<1>1. PICK about : about = (IF grounded[r.conv] THEN {owner[r.conv]} ELSE {})
  OBVIOUS
<1>2. PICK s : s = [r EXCEPT !.at = "answered", !.about = about]
  OBVIOUS
<1>3. Moved(r, s) /\ UNCHANGED <<payers, convRows, desk, browser>> /\ r.kind = "resume" /\ ~Refused(r)
  BY <1>1, <1>2 DEF GetConversation
<1>4. CallInv(r)
  BY DEF SupportInv
<1>5. owner[r.conv] = r.as /\ r.as \in Somebody /\ r.conv \in Convs
  BY <1>3, <1>4, OwnsIs DEF CallInv, SupportCalls
<1>6. about \subseteq {r.as} /\ about \subseteq Readers
  <2>1. grounded[r.conv] => owner[r.conv] # Anon
    BY <1>5 DEF SupportInv, GroundedOwned
  <2> QED
    BY <1>1, <1>5, <2>1 DEF Somebody
<1>7. /\ s \in SupportCalls /\ s.at = "answered" /\ s.conv = r.conv /\ s.as = r.as /\ s.token = r.token
      /\ s.kind = r.kind /\ s.paid = r.paid /\ s.about = about /\ s.answer = r.answer
  BY <1>2, <1>4, <1>6 DEF CallInv, SupportCalls
<1>8. CallInv(s)
  BY <1>4, <1>6, <1>7 DEF CallInv
<1> QED
  BY <1>3, <1>8, CallMoves

LEMMA CreateTicketChecksStep ==
  ASSUME SupportInv, NEW r \in calls, CreateTicketChecks(r) PROVE SupportInv'
<1>1. PICK s : s = [r EXCEPT !.at = "checked"]
  OBVIOUS
<1>2. CallInv(r)
  BY DEF SupportInv
<1>3. /\ s \in SupportCalls /\ s.at = "checked" /\ s.conv = r.conv /\ s.as = r.as /\ s.token = r.token
      /\ s.kind = r.kind /\ s.paid = r.paid /\ s.answer = r.answer
  BY <1>1, <1>2 DEF CallInv, SupportCalls
<1>4. CallInv(s)
  BY <1>2, <1>3 DEF CallInv
<1>5. BrowserTypes' /\ UNCHANGED <<payers, convRows, desk, browser>>
  BY DEF SupportInv, BrowserTypes, browser, CreateTicketChecks
<1>6. Moved(r, s) \/ calls' \subseteq calls
  BY <1>1 DEF CreateTicketChecks
<1> QED
  BY <1>4, <1>5, <1>6, CallsKeep, CallMoves

\* Whatever the model says, what is answered claims nothing that is not so.
LEMMA AnswersSaid ==
  ASSUME NEW u, NEW paid \in BOOLEAN, paid => u \in payers, NEW a \in Answers(paid)
  PROVE a \in Said /\ Truthful(a, u)
<1>1. CASE a = Plain
  BY <1>1, PlainSaid
<1>2. CASE a # Plain
  <2>1. PICK b \in SupportAnswer : /\ ~FindUnsupportedClaims(b, paid)
                                   /\ a = [b EXCEPT !.cites = @ \cap FindEvents]
    BY <1>2 DEF Answers, StateChangeRefusal, FallbackAnswer, HelpArticles
  <2>2. b \in Said
    BY <2>1 DEF SupportAnswer, Said
  <2>3. a \in Said /\ a.claims = b.claims /\ a.cites \subseteq Listed
    BY <2>1, <2>2 DEF Said, FindEvents
  <2> QED
    BY <2>1, <2>3 DEF FindUnsupportedClaims, Truthful
<1> QED
  BY <1>1, <1>2

LEMMA ChatAnsweredStep == ASSUME SupportInv, NEW r \in calls, ChatAnswered(r) PROVE SupportInv'
<1>1. CallInv(r) /\ r.at = "read"
  BY DEF SupportInv, ChatAnswered
<1>2. /\ r \in SupportCalls /\ r.conv \in Convs /\ owner[r.conv] = r.as /\ convStatus[r.conv] # "NONE"
      /\ r.paid \in BOOLEAN /\ (r.paid => r.as \in payers)
  BY <1>1 DEF CallInv, SupportCalls, SomeConv
<1>3. PICK a \in Answers(r.paid) : Moved(r, [r EXCEPT !.at = "answered", !.paid = FALSE, !.answer = a])
  BY DEF ChatAnswered
<1>4. a \in Said /\ Truthful(a, r.as)
  BY <1>2, AnswersSaid
<1>5. PICK s : s = [r EXCEPT !.at = "answered", !.paid = FALSE, !.answer = a]
  OBVIOUS
<1>6. /\ s \in SupportCalls /\ s.at = "answered" /\ s.conv = r.conv /\ s.as = r.as /\ s.token = r.token
      /\ s.kind = r.kind /\ ~s.paid /\ s.about = r.about /\ s.answer = a
  BY <1>2, <1>4, <1>5 DEF SupportCalls
<1>7. UNCHANGED <<payers, owner, convStatus, desk, browser>>
  BY DEF ChatAnswered
<1>8. ConvsAge
  BY <1>7 DEF ConvsAge
<1>9. CallInv(s)'
  <2>1. CallInv(s)
    BY <1>1, <1>4, <1>6 DEF CallInv
  <2> QED
    BY <1>8, <2>1, CallStays
<1>10. PICK g \in BOOLEAN : g = (grounded[r.conv] \/ r.as # Anon)
  OBVIOUS
<1>11. grounded' = [grounded EXCEPT ![r.conv] = g] /\ grounded \in [Convs -> BOOLEAN]
  BY <1>10 DEF ChatAnswered, SupportInv, ConvTypes
<1>12. GroundedOwned' /\ grounded' \in [Convs -> BOOLEAN]
  BY <1>2, <1>7, <1>10, <1>11 DEF SupportInv, GroundedOwned
<1>13. ConvTypes' /\ BrowserTypes'
  BY <1>7, <1>12 DEF SupportInv, ConvTypes, BrowserTypes, browser
<1>14. calls' \subseteq calls \cup {s}
  BY <1>3, <1>5 DEF Moved
<1> QED
  BY <1>8, <1>9, <1>12, <1>13, <1>14, SupportKeeps

LEMMA ChatOpensStep == ASSUME SupportInv, NEW r \in calls, ChatOpens(r) PROVE SupportInv'
<1>1. CallInv(r)
  BY DEF SupportInv
<1>2. PICK c \in Convs :
        /\ convStatus[c] = "NONE"
        /\ convStatus' = [convStatus EXCEPT ![c] = "OPEN"]
        /\ owner' = [owner EXCEPT ![c] = r.as]
        /\ Moved(r, [r EXCEPT !.at = "stored", !.conv = c, !.fresh = (r.as = Anon)])
  BY DEF ChatOpens
<1>3. PICK fresh \in BOOLEAN : fresh = (r.as = Anon)
  OBVIOUS
<1>4. PICK s : s = [r EXCEPT !.at = "stored", !.conv = c, !.fresh = fresh]
  OBVIOUS
<1>5. /\ s \in SupportCalls /\ s.at = "stored" /\ s.conv = c /\ s.as = r.as /\ s.token = r.token
      /\ s.kind = r.kind /\ s.paid = r.paid /\ s.answer = r.answer
  BY <1>1, <1>2, <1>4 DEF CallInv, SupportCalls, SomeConv
<1>6. UNCHANGED <<payers, grounded, desk, browser>> /\ r.kind = "chat"
  BY DEF ChatOpens
<1>7. ConvTypes /\ owner \in [Convs -> Somebody] /\ r.as \in Somebody
      /\ convStatus \in [Convs -> {"NONE", "OPEN", "ESCALATED", "GONE"}]
  BY <1>1 DEF SupportInv, ConvTypes, CallInv, SupportCalls
<1>8. /\ owner'[c] = r.as /\ convStatus'[c] = "OPEN"
      /\ \A d \in Convs : d # c => owner'[d] = owner[d] /\ convStatus'[d] = convStatus[d]
      /\ owner' \in [Convs -> Somebody]
      /\ convStatus' \in [Convs -> {"NONE", "OPEN", "ESCALATED", "GONE"}]
  BY <1>2, <1>7
<1>9. ConvsAge
  BY <1>2, <1>6, <1>8 DEF ConvsAge
<1>10. ConvTypes' /\ BrowserTypes'
  BY <1>6, <1>7, <1>8 DEF SupportInv, ConvTypes, BrowserTypes, browser
<1>11. GroundedOwned'
  BY <1>2, <1>6, <1>8 DEF SupportInv, GroundedOwned
<1>12. Truthful(s.answer, s.as)' /\ (s.paid => s.as \in payers')
  BY <1>1, <1>5, <1>6 DEF CallInv, Truthful
<1>13. c # NoConv
  BY <1>2, SupportAssumption
<1>14. CallInv(s)'
  BY <1>1, <1>5, <1>6, <1>8, <1>12, <1>13 DEF CallInv
<1>15. calls' \subseteq calls \cup {s}
  BY <1>2, <1>3, <1>4 DEF Moved
<1> QED
  BY <1>9, <1>10, <1>11, <1>14, <1>15, SupportKeeps

\* The statuses of conversations that exist change, and the tickets.
LEMMA StatusesChange ==
  ASSUME SupportInv, UNCHANGED <<payers, owner, grounded, browser>>, calls' \subseteq calls,
         convStatus' \in [Convs -> {"NONE", "OPEN", "ESCALATED", "GONE"}],
         \A c \in Convs : convStatus[c] # "NONE" => convStatus'[c] # "NONE",
         desk' \in Seq(DeskRows), Len(desk') <= MaxDesk
  PROVE SupportInv'
<1>1. ConvsAge /\ ConvTypes' /\ BrowserTypes' /\ GroundedOwned'
  BY DEF ConvsAge, SupportInv, ConvTypes, BrowserTypes, GroundedOwned, browser
<1> QED
  BY <1>1, SupportKeeps

LEMMA CreateTicketStep == ASSUME SupportInv, NEW r \in calls, CreateTicket(r) PROVE SupportInv'
<1>1. r.conv \in SomeConv
  BY DEF SupportInv, CallInv, SupportCalls
<1>2. PICK k : k = [conv |-> r.conv, status |-> "OPEN", note |-> FALSE]
  OBVIOUS
<1>3. k \in DeskRows
  BY <1>1, <1>2 DEF DeskRows
<1>4. desk' = Append(desk, k) /\ desk \in Seq(DeskRows) /\ Len(desk) < MaxDesk
  BY <1>2 DEF CreateTicket, SupportInv, ConvTypes
<1>5. desk' \in Seq(DeskRows) /\ Len(desk') <= MaxDesk
  BY <1>3, <1>4, SupportAssumption
<1>6. convStatus' = [c \in Convs |-> IF c = r.conv /\ Alive(c) THEN "ESCALATED" ELSE convStatus[c]]
  BY DEF CreateTicket
<1>7. /\ convStatus' \in [Convs -> {"NONE", "OPEN", "ESCALATED", "GONE"}]
      /\ \A c \in Convs : convStatus[c] # "NONE" => convStatus'[c] # "NONE"
  BY <1>6 DEF SupportInv, ConvTypes
<1>8. UNCHANGED <<payers, owner, grounded, browser>> /\ calls' \subseteq calls
  BY DEF CreateTicket
<1> QED
  BY <1>5, <1>7, <1>8, StatusesChange

LEMMA PurgeDeletesStep == ASSUME SupportInv, PurgeDeletes PROVE SupportInv'
<1>1. PICK linked \in purging, old \in SUBSET {c \in Convs : Alive(c)} :
        convStatus' = [c \in Convs |-> IF c \in old \ linked THEN "GONE" ELSE convStatus[c]]
  BY DEF PurgeDeletes
<1>2. /\ convStatus' \in [Convs -> {"NONE", "OPEN", "ESCALATED", "GONE"}]
      /\ \A c \in Convs : convStatus[c] # "NONE" => convStatus'[c] # "NONE"
  BY <1>1 DEF SupportInv, ConvTypes
<1>3. UNCHANGED <<payers, owner, grounded, browser, desk>> /\ calls' \subseteq calls
  BY DEF PurgeDeletes
<1> QED
  BY <1>2, <1>3, StatusesChange DEF SupportInv, ConvTypes

LEMMA AdminUpdateTicketStep ==
  ASSUME SupportInv, NEW i \in DOMAIN desk, NEW patch \in TicketCard, AdminUpdateTicket(i, patch)
  PROVE SupportInv'
<1>1. PICK note \in BOOLEAN : note = (desk[i].note \/ patch.note)
  OBVIOUS
<1>2. desk \in Seq(DeskRows) /\ Len(desk) <= MaxDesk
  BY DEF SupportInv, ConvTypes
<1>3. PICK k : k = [desk[i] EXCEPT !.status = patch.status, !.note = note]
  OBVIOUS
<1>4. k \in DeskRows
  <2>1. desk[i] \in DeskRows /\ patch.status \in {"OPEN", "IN_PROGRESS", "RESOLVED", "CLOSED"}
    BY <1>2 DEF TicketCard
  <2> QED
    BY <1>3, <2>1 DEF DeskRows
<1>5. desk' = [desk EXCEPT ![i] = k]
  BY <1>1, <1>2, <1>3 DEF AdminUpdateTicket
<1>6. desk' \in Seq(DeskRows) /\ Len(desk') <= MaxDesk
  BY <1>2, <1>4, <1>5
<1>7. UNCHANGED <<payers, owner, grounded, convStatus, browser>> /\ calls' \subseteq calls
  BY DEF AdminUpdateTicket, convRows
<1> QED
  BY <1>6, <1>7, StatusesChange DEF SupportInv, ConvTypes

LEMMA OrderPaidStep == ASSUME SupportInv, NEW u \in Readers, OrderPaid(u) PROVE SupportInv'
<1>1. payers \subseteq payers' /\ payers' \subseteq Readers /\ calls' \subseteq calls
      /\ UNCHANGED <<owner, convStatus, grounded, desk, browser>>
  BY DEF OrderPaid, SupportInv, ConvTypes, convRows
<1>2. ConvsAge /\ ConvTypes' /\ BrowserTypes' /\ GroundedOwned'
  BY <1>1 DEF ConvsAge, SupportInv, ConvTypes, BrowserTypes, GroundedOwned, browser
<1> QED
  BY <1>1, <1>2, SupportKeeps

LEMMA SupportInductive == SupportSpec => []SupportInv
<1>1. ASSUME SupportInv, [SupportNext]_supportvars PROVE SupportInv'
  <2>1. ASSUME BrowserTypes', UNCHANGED <<payers, convRows, desk, calls>> PROVE SupportInv'
    BY <1>1, <2>1, CallsKeep
  <2>2. CASE UNCHANGED supportvars \/ PurgeReads
    BY <1>1, <2>1, <2>2 DEF supportvars, PurgeReads, browser, SupportInv, BrowserTypes
  <2>3. CASE \/ \E u \in Readers \cup {Anon} : AccountChanges(u) \/ OtherTabChanges(u)
             \/ Send \/ ResumeTranscript \/ EscalateForm \/ NewChat
             \/ \E r \in calls : ChatReplied(r) \/ TranscriptShown(r) \/ CallFails(r)
    <3>1. UNCHANGED <<payers, convRows, desk, purging>>
      BY <2>3 DEF AccountChanges, OtherTabChanges, Send, ResumeTranscript, EscalateForm, NewChat,
                  ChatReplied, TranscriptShown, CallFails
    <3> QED
      BY <1>1, <2>3, <3>1, BrowserSteps DEF Somebody
  <2>4. CASE \E r \in calls :
               \/ ChatContinues(r) \/ ChatOpens(r) \/ FindOwnOrders(r) \/ ChatAnswered(r)
               \/ GetConversation(r) \/ CreateTicketChecks(r) \/ CreateTicket(r)
    BY <1>1, <2>4, ChatContinuesStep, ChatOpensStep, FindOwnOrdersStep, ChatAnsweredStep,
       GetConversationStep, CreateTicketChecksStep, CreateTicketStep
  <2>5. CASE \/ \E u \in Readers : OrderPaid(u)
             \/ PurgeDeletes
             \/ \E i \in DOMAIN desk, patch \in TicketCard : AdminUpdateTicket(i, patch)
    BY <1>1, <2>5, OrderPaidStep, PurgeDeletesStep, AdminUpdateTicketStep
  <2> QED
    BY <1>1, <2>2, <2>3, <2>4, <2>5 DEF SupportNext
<1> QED
  BY <1>1, SupportInitInv, PTL DEF SupportSpec



\* What the screen draws on is of its reader or of those whose messages are answered into it,
\* and so is every message under way, or of nobody.
ShownInv ==
  /\ shown \subseteq Readers /\ misdirected \subseteq Readers
  /\ shown \subseteq {reader} \cup misdirected
  /\ \A r \in calls : r.kind = "chat" => r.as \in {reader, Anon} \cup misdirected

\* The back end changes neither the screen nor what a request is sent as.
LEMMA BackEndKeepsScreen ==
  ASSUME SupportInv, ShownInv, NEW r \in calls,
         \/ ChatContinues(r) \/ ChatOpens(r) \/ FindOwnOrders(r) \/ ChatAnswered(r)
         \/ GetConversation(r) \/ CreateTicketChecks(r) \/ CreateTicket(r)
  PROVE ShownInv'
<1>1. UNCHANGED browser
  BY DEF ChatContinues, ChatOpens, FindOwnOrders, ChatAnswered, GetConversation, CreateTicketChecks, CreateTicket
<1>2. r \in SupportCalls
  BY DEF SupportInv, CallInv
<1>3. \/ calls' \subseteq calls
      \/ \E s : Moved(r, s) /\ s.kind = r.kind /\ s.as = r.as
  <2> DEFINE Onward == \E s : Moved(r, s) /\ s.kind = r.kind /\ s.as = r.as
  <2>1. CASE ChatContinues(r)
    <3>1. PICK s : s = [r EXCEPT !.at = "stored"]
      OBVIOUS
    <3>2. s.kind = r.kind /\ s.as = r.as
      BY <1>2, <3>1 DEF SupportCalls
    <3> QED
      BY <2>1, <3>1, <3>2 DEF ChatContinues
  <2>2. CASE ChatOpens(r)
    <3>1. PICK c, fresh : Moved(r, [r EXCEPT !.at = "stored", !.conv = c, !.fresh = fresh])
      BY <2>2 DEF ChatOpens
    <3>2. PICK s : s = [r EXCEPT !.at = "stored", !.conv = c, !.fresh = fresh]
      OBVIOUS
    <3>3. s.kind = r.kind /\ s.as = r.as
      BY <1>2, <3>2 DEF SupportCalls
    <3> QED
      BY <3>1, <3>2, <3>3
  <2>3. CASE FindOwnOrders(r)
    <3>1. PICK paid, about : Moved(r, [r EXCEPT !.at = "read", !.paid = paid, !.about = about])
      BY <2>3 DEF FindOwnOrders
    <3>2. PICK s : s = [r EXCEPT !.at = "read", !.paid = paid, !.about = about]
      OBVIOUS
    <3>3. s.kind = r.kind /\ s.as = r.as
      BY <1>2, <3>2 DEF SupportCalls
    <3> QED
      BY <3>1, <3>2, <3>3
  <2>4. CASE ChatAnswered(r)
    <3>1. PICK a : Moved(r, [r EXCEPT !.at = "answered", !.paid = FALSE, !.answer = a])
      BY <2>4 DEF ChatAnswered
    <3>2. PICK s : s = [r EXCEPT !.at = "answered", !.paid = FALSE, !.answer = a]
      OBVIOUS
    <3>3. s.kind = r.kind /\ s.as = r.as
      BY <1>2, <3>2 DEF SupportCalls
    <3> QED
      BY <3>1, <3>2, <3>3
  <2>5. CASE GetConversation(r)
    <3>1. PICK about : Moved(r, [r EXCEPT !.at = "answered", !.about = about])
      BY <2>5 DEF GetConversation
    <3>2. PICK s : s = [r EXCEPT !.at = "answered", !.about = about]
      OBVIOUS
    <3>3. s.kind = r.kind /\ s.as = r.as
      BY <1>2, <3>2 DEF SupportCalls
    <3> QED
      BY <3>1, <3>2, <3>3
  <2>6. CASE CreateTicketChecks(r)
    <3>1. PICK s : s = [r EXCEPT !.at = "checked"]
      OBVIOUS
    <3>2. s.kind = r.kind /\ s.as = r.as
      BY <1>2, <3>1 DEF SupportCalls
    <3>3. calls' \subseteq calls \/ Moved(r, s)
      BY <2>6, <3>1 DEF CreateTicketChecks
    <3> QED
      BY <3>2, <3>3
  <2>7. CASE CreateTicket(r)
    BY <2>7 DEF CreateTicket
  <2> QED
    BY <2>1, <2>2, <2>3, <2>4, <2>5, <2>6, <2>7
<1>4. \A s \in calls' : s.kind = "chat" => s.as \in {reader, Anon} \cup misdirected
  BY <1>3 DEF ShownInv, Moved
<1> QED
  BY <1>1, <1>4 DEF ShownInv, browser, screen

LEMMA ShownStep == SupportInv /\ SupportInv' /\ ShownInv /\ [SupportNext]_supportvars => ShownInv'
<1> SUFFICES ASSUME SupportInv, SupportInv', ShownInv, [SupportNext]_supportvars
             PROVE ShownInv'
  OBVIOUS
<1>1. /\ \A u : Strays(calls, u) \subseteq Readers /\ Strays(calls', u) \subseteq Readers
      /\ \A r \in calls : r.at = "answered" => r.about \subseteq {r.as} /\ r.about \subseteq Readers
      /\ \A r \in calls : r.kind = "resume" => r.as = Anon
  <2>1. calls \subseteq SupportCalls /\ calls' \subseteq SupportCalls
    BY DEF SupportInv, CallInv
  <2>2. \A u : Strays(calls, u) \subseteq Readers /\ Strays(calls', u) \subseteq Readers
    BY <2>1 DEF Strays, SupportCalls, Somebody
  <2>3. /\ \A r \in calls : r.at = "answered" => r.about \subseteq {r.as} /\ r.about \subseteq Readers
        /\ \A r \in calls : r.kind = "resume" => r.as = Anon
    BY <2>1 DEF SupportInv, CallInv, SupportCalls
  <2> QED
    BY <2>2, <2>3
<1>2. ASSUME NEW u \in Somebody, AccountChanges(u) PROVE ShownInv'
  BY <1>1, <1>2 DEF AccountChanges, ShownInv, Strays
<1>3. CASE Send
  BY <1>1, <1>3 DEF Send, ShownInv, Strays
<1>4. ASSUME NEW kind \in {"resume", "ticket"}, Asks(kind), UNCHANGED browser PROVE ShownInv'
  <2>1. calls' = calls \cup {Call(kind)} /\ Call(kind).kind # "chat"
    BY <1>4 DEF Asks, Call
  <2> QED
    BY <1>4, <2>1 DEF ShownInv, browser, screen
<1>5. CASE NewChat
  BY <1>1, <1>5 DEF NewChat, ShownInv, Strays
<1>6. ASSUME NEW r \in calls, ChatReplied(r) PROVE ShownInv'
  <2>1. r.about \subseteq {reader} \cup misdirected /\ r.about \subseteq Readers
    BY <1>1, <1>6, SupportAssumption DEF ChatReplied, ShownInv
  <2> QED
    BY <1>6, <2>1 DEF ChatReplied, ShownInv
<1>7. ASSUME NEW r \in calls, TranscriptShown(r) PROVE ShownInv'
  <2>1. r.about = {}
    BY <1>1, <1>7, SupportAssumption DEF TranscriptShown
  <2> QED
    BY <1>7, <2>1 DEF TranscriptShown, ShownInv
<1>8. ASSUME calls' \subseteq calls, UNCHANGED <<reader, screen>> PROVE ShownInv'
  BY <1>8 DEF ShownInv, screen
<1>9. CASE \/ \E u \in Somebody : OtherTabChanges(u)
           \/ \E r \in calls : CallFails(r)
           \/ \E u \in Readers : OrderPaid(u)
           \/ PurgeReads \/ PurgeDeletes
           \/ \E i \in DOMAIN desk, patch \in TicketCard : AdminUpdateTicket(i, patch)
           \/ UNCHANGED supportvars
  BY <1>8, <1>9 DEF OtherTabChanges, CallFails, OrderPaid, PurgeReads, PurgeDeletes, AdminUpdateTicket,
                    supportvars, browser
<1>10. CASE ResumeTranscript \/ EscalateForm
  BY <1>4, <1>10 DEF ResumeTranscript, EscalateForm
<1>11. ASSUME NEW r \in calls,
              \/ ChatContinues(r) \/ ChatOpens(r) \/ FindOwnOrders(r) \/ ChatAnswered(r)
              \/ GetConversation(r) \/ CreateTicketChecks(r) \/ CreateTicket(r)
       PROVE ShownInv'
  BY <1>11, BackEndKeepsScreen
<1> QED
  BY <1>2, <1>3, <1>5, <1>6, <1>7, <1>9, <1>10, <1>11 DEF SupportNext, Somebody

LEMMA ShownInductive == SupportSpec => []ShownInv
<1>1. SupportInit => ShownInv
  BY DEF SupportInit, ShownInv
<1> QED
  BY <1>1, ShownStep, SupportInductive, PTL DEF SupportSpec

(***************************************************************************)
(* Type correctness of support: the rows, what the widget keeps and the    *)
(* places where a request can be.                                          *)
(***************************************************************************)
THEOREM SupportTyped == SupportSpec => []SupportTypeOK
<1>1. SupportInv /\ ShownInv => SupportTypeOK
  BY DEF SupportInv, ConvTypes, BrowserTypes, CallInv, SupportCalls, SupportTypeOK, Somebody, SomeConv, ShownInv
<1> QED
  BY <1>1, SupportInductive, ShownInductive, PTL

(***************************************************************************)
(* An answer draws on the orders of whoever the message was sent as, tells *)
(* of a payment only who has paid and of published events only, whatever   *)
(* the model says; and what is on screen draws on the orders of its reader *)
(* of that moment, but for replies to messages that were under way when    *)
(* the account changed or went out with another tab's bearer.              *)
(***************************************************************************)
THEOREM OnlyTheTruth == SupportSpec => []ToldTheTruth
<1>1. SupportInv /\ ShownInv => ToldTheTruth
  BY DEF SupportInv, CallInv, Truthful, ToldTheTruth, ShownInv
<1> QED
  BY <1>1, SupportInductive, ShownInductive, PTL

-----------------------------------------------------------------------------
(* The AI gateway: no limit is passed by more than what was under way and   *)
(* what the log never heard of.                                             *)

GatewayCalls == [pc : {"idle", "settings", "limits", "calling"} \union Outcomes,
                 user : Anyone, row : SUBSET SettingRows]

\* The requests of some users that are at the provider.
AtProvider(U) == {c \in Callers : call[c].pc = "calling" /\ call[c].user \in U}

\* A row of settings is no higher than the highest limits that were in force.
Within(terms, g) == terms.daily <= g.daily /\ terms.each <= g.each /\ terms.budget <= g.budget

RowsWithin ==
  /\ Within(setting, granted)
  /\ \A c \in Callers : \A terms \in call[c].row : Within(terms, granted)

\* Every call the provider has got is logged, lost or still at the provider.
Accounted(U) ==
  SumOver(called, U) <= SumOver(logged, U) + lost + Cardinality(AtProvider(U))

PassedByFew ==
  LET slack == Cardinality(Callers) + lost
  IN /\ SumOver(called, Anyone) < granted.daily + slack
     /\ \A u \in Askers : called[u] < granted.each + slack
     /\ spend + Cardinality(AtProvider(Anyone)) < granted.budget + Cardinality(Callers)

GatewayInv == GatewayTypeOK /\ RowsWithin /\ (\A U \in SUBSET Anyone : Accounted(U)) /\ PassedByFew

LEMMA MaxOfTwo ==
  ASSUME NEW a \in Nat, NEW b \in Nat
  PROVE Max({a, b}) \in Nat /\ a <= Max({a, b}) /\ b <= Max({a, b})
<1>1. \E x \in {a, b} : \A y \in {a, b} : x >= y
  <2>1. CASE a >= b
    BY <2>1
  <2>2. CASE ~(a >= b)
    BY <2>2
  <2> QED
    BY <2>1, <2>2
<1>2. Max({a, b}) \in {a, b} /\ \A y \in {a, b} : Max({a, b}) >= y
  BY <1>1 DEF Max
<1> QED
  BY <1>2

LEMMA AnyoneFinite == IsFiniteSet(Anyone)
BY AiGatewayAssumption, FS_AddElement DEF Anyone

LEMMA CallersCount ==
  /\ Cardinality(Callers) \in Nat /\ Cardinality(Callers) > 0
  /\ \A U : IsFiniteSet(AtProvider(U)) /\ Cardinality(AtProvider(U)) \in Nat
<1>1. Cardinality(Callers) \in Nat /\ Cardinality(Callers) # 0
  BY AiGatewayAssumption, FS_CardinalityType, FS_EmptySet
<1>2. ASSUME NEW U PROVE IsFiniteSet(AtProvider(U)) /\ Cardinality(AtProvider(U)) \in Nat
  <2>1. AtProvider(U) \subseteq Callers
    BY DEF AtProvider
  <2> QED
    BY <2>1, AiGatewayAssumption, FS_Subset, FS_CardinalityType
<1> QED
  BY <1>1, <1>2

\* One more request at the provider; there is always room for it among the callers.
LEMMA OneMoreCalling ==
  ASSUME NEW U, NEW V, NEW c \in Callers, c \notin V, V = AtProvider(U)
  PROVE Cardinality(V \cup {c}) = Cardinality(V) + 1 /\ Cardinality(V) + 1 <= Cardinality(Callers)
<1>1. IsFiniteSet(V)
  BY CallersCount
<1>2. Cardinality(V \cup {c}) = Cardinality(V) + 1
  BY <1>1, FS_AddElement
<1>3. V \cup {c} \subseteq Callers
  BY DEF AtProvider
<1> QED
  BY <1>2, <1>3, AiGatewayAssumption, FS_Subset

LEMMA OneLessCalling ==
  ASSUME NEW U, NEW c, c \in AtProvider(U)
  PROVE Cardinality(AtProvider(U) \ {c}) = Cardinality(AtProvider(U)) - 1
BY CallersCount, FS_RemoveElement

\* Sums over users, and what one becomes when one user's number grows by one.
LEMMA UserSum ==
  ASSUME NEW F \in [Anyone -> Nat], NEW U \in SUBSET Anyone
  PROVE IsFiniteSet(U) /\ SumOver(F, U) \in Int
<1>1. IsFiniteSet(U)
  BY AnyoneFinite, FS_Subset
<1>2. \A x \in U : F[x] \in Int
  OBVIOUS
<1> QED
  BY <1>1, <1>2, SumTakesAny

LEMMA UserCounts ==
  ASSUME NEW F \in [Anyone -> Nat], NEW v \in Anyone, NEW U \in SUBSET Anyone,
         NEW G \in [Anyone -> Nat], G[v] = F[v] + 1, \A u \in Anyone : u # v => F[u] = G[u]
  PROVE SumOver(G, U) = SumOver(F, U) + (IF v \in U THEN 1 ELSE 0)
<1>1. IsFiniteSet(U) /\ SumOver(F, U) \in Int
  BY UserSum
<1>2. /\ \A x \in U : F[x] \in Int /\ G[x] \in Int
      /\ \A x \in U : x # v => F[x] = G[x]
  OBVIOUS
<1>3. CASE v \in U
  <2>1. SumOver(G, U) = SumOver(F, U) - F[v] + G[v]
    BY <1>1, <1>2, <1>3, SumChanges
  <2>2. F[v] \in Nat /\ G[v] = F[v] + 1
    OBVIOUS
  <2> QED
    BY <1>1, <1>3, <2>1, <2>2
<1>4. CASE v \notin U
  <2>1. \A x \in U : F[x] = G[x]
    BY <1>2, <1>4
  <2>2. SumOver(F, U) = SumOver(G, U)
    BY <1>1, <2>1, SumAgrees
  <2> QED
    BY <1>1, <1>4, <2>2
<1> QED
  BY <1>3, <1>4

LEMMA GatewayInitInv == GatewayInit => GatewayInv
<1> SUFFICES ASSUME GatewayInit PROVE GatewayInv
  OBVIOUS
<1>1. /\ setting \in SettingRows /\ setting.daily \in Nat /\ setting.each \in Nat /\ setting.budget \in Nat
  BY AiGatewayAssumption DEF GatewayInit, SettingRows
<1>2. GatewayTypeOK
  BY <1>1, AiGatewayAssumption DEF GatewayInit, GatewayTypeOK, NoCall, Anyone
<1>3. RowsWithin
  BY <1>1 DEF GatewayInit, RowsWithin, Within, NoCall
<1>4. ASSUME NEW U PROVE AtProvider(U) = {} /\ Cardinality(AtProvider(U)) = 0
  BY FS_EmptySet DEF GatewayInit, AtProvider, NoCall
<1>5. ASSUME NEW U \in SUBSET Anyone PROVE SumOver(called, U) = 0 /\ SumOver(logged, U) = 0
  <2>1. IsFiniteSet(U)
    BY AnyoneFinite, FS_Subset
  <2>2. \A u \in U : called[u] = 0 /\ logged[u] = 0
    BY DEF GatewayInit
  <2> QED
    BY <2>1, <2>2, SumOfZeros
<1>6. \A U \in SUBSET Anyone : Accounted(U)
  BY <1>4, <1>5 DEF Accounted, GatewayInit
<1>7. PassedByFew
  <2>1. /\ spend = 0 /\ lost = 0 /\ \A u \in Askers : called[u] = 0
        /\ granted.daily \in Nat /\ granted.each \in Nat /\ granted.budget \in Nat
    BY <1>1 DEF GatewayInit, Anyone
  <2>2. SumOver(called, Anyone) = 0 /\ Cardinality(AtProvider(Anyone)) = 0
    BY <1>4, <1>5
  <2> QED
    BY <2>1, <2>2, CallersCount DEF PassedByFew
<1> QED
  BY <1>2, <1>3, <1>6, <1>7 DEF GatewayInv

\* A step that leaves the counts alone and nobody at the provider who was not.
LEMMA CountsStay ==
  ASSUME GatewayInv, UNCHANGED <<logged, spend, called, lost, granted, setting>>, GatewayTypeOK',
         \A c \in Callers : /\ call'[c].pc = "calling" <=> call[c].pc = "calling"
                            /\ call'[c].pc = "calling" => call'[c].user = call[c].user
                            /\ \A terms \in call'[c].row : terms \in call[c].row \cup {setting}
  PROVE GatewayInv'
<1>1. RowsWithin'
  BY DEF GatewayInv, RowsWithin, Within
<1>2. ASSUME NEW U PROVE AtProvider(U)' = AtProvider(U)
  BY DEF AtProvider
<1>3. \A U \in SUBSET Anyone : Accounted(U)'
  BY <1>2 DEF GatewayInv, Accounted
<1>4. PassedByFew'
  BY <1>2 DEF GatewayInv, PassedByFew
<1> QED
  BY <1>1, <1>3, <1>4 DEF GatewayInv

\* A request changes in one field or two.
LEMMA CallChanges ==
  ASSUME GatewayTypeOK, NEW c \in Callers, NEW k \in GatewayCalls, call' = [call EXCEPT ![c] = k]
  PROVE call' \in [Callers -> GatewayCalls] /\ call'[c] = k
        /\ \A d \in Callers : d # c => call'[d] = call[d]
BY DEF GatewayTypeOK, GatewayCalls

LEMMA CallerMoves ==
  ASSUME GatewayInv, NEW c \in Callers, NEW k \in GatewayCalls, call' = [call EXCEPT ![c] = k],
         UNCHANGED <<provider, setting, logged, spend, called, lost, granted>>,
         call[c].pc # "calling", k.pc # "calling",
         \A terms \in k.row : terms \in call[c].row \cup {setting}
  PROVE GatewayInv'
<1>1. call' \in [Callers -> GatewayCalls] /\ call'[c] = k /\ \A d \in Callers : d # c => call'[d] = call[d]
  BY CallChanges DEF GatewayInv
<1>2. GatewayTypeOK'
  BY <1>1 DEF GatewayInv, GatewayTypeOK, GatewayCalls
<1>3. ASSUME NEW d \in Callers
      PROVE /\ call'[d].pc = "calling" <=> call[d].pc = "calling"
            /\ call'[d].pc = "calling" => call'[d].user = call[d].user
            /\ \A terms \in call'[d].row : terms \in call[d].row \cup {setting}
  BY <1>1
<1> QED
  BY <1>2, <1>3, CountsStay

LEMMA GatewayWaits ==
  ASSUME GatewayInv, NEW c \in Callers,
         (\E u \in Anyone : Generate(c, u)) \/ GetSettings(c) \/ Heard(c)
  PROVE GatewayInv'
<1>1. call[c] \in GatewayCalls /\ call \in [Callers -> GatewayCalls]
  BY DEF GatewayInv, GatewayTypeOK, GatewayCalls
<1>2. CASE \E u \in Anyone : Generate(c, u)
  <2>1. PICK u \in Anyone : Generate(c, u)
    BY <1>2
  <2>2. PICK place : place = CASE provider = "OFF" -> "DISABLED"
                         [] provider = "NOT_CONFIGURED" -> "NOT_CONFIGURED"
                         [] provider = "ON" -> "settings"
    OBVIOUS
  <2>3. place \in {"DISABLED", "NOT_CONFIGURED", "settings"}
    BY <2>2 DEF GatewayInv, GatewayTypeOK
  <2>4. PICK k : k = [call[c] EXCEPT !.user = u, !.pc = place]
    OBVIOUS
  <2>5. k \in GatewayCalls /\ k.row = call[c].row /\ k.pc # "calling"
    BY <1>1, <2>3, <2>4 DEF GatewayCalls, Outcomes
  <2>6. call' = [call EXCEPT ![c] = k]
    <3>1. call' = [call EXCEPT ![c].user = u, ![c].pc = place]
      BY <2>1, <2>2 DEF Generate
    <3> QED
      BY <1>1, <2>4, <3>1
  <2>7. call[c].pc # "calling" /\ UNCHANGED <<provider, setting, logged, spend, called, lost, granted>>
    BY <2>1 DEF Generate
  <2> QED
    BY <2>5, <2>6, <2>7, CallerMoves
<1>3. CASE GetSettings(c)
  <2>1. PICK place : place = IF setting.enabled THEN "limits" ELSE "DISABLED"
    OBVIOUS
  <2>2. PICK k : k = [call[c] EXCEPT !.row = {setting}, !.pc = place]
    OBVIOUS
  <2>3. k \in GatewayCalls /\ k.row = {setting} /\ k.pc # "calling"
    BY <1>1, <2>1, <2>2 DEF GatewayCalls, Outcomes, GatewayInv, GatewayTypeOK
  <2>4. call' = [call EXCEPT ![c] = k]
    BY <1>1, <1>3, <2>1, <2>2 DEF GetSettings
  <2>5. call[c].pc # "calling" /\ UNCHANGED <<provider, setting, logged, spend, called, lost, granted>>
    BY <1>3 DEF GetSettings
  <2> QED
    BY <2>3, <2>4, <2>5, CallerMoves
<1>4. CASE Heard(c)
  <2>1. NoCall \in GatewayCalls /\ NoCall.row = {} /\ NoCall.pc # "calling"
    BY DEF NoCall, GatewayCalls, Anyone
  <2>2. call' = [call EXCEPT ![c] = NoCall] /\ call[c].pc # "calling"
        /\ UNCHANGED <<provider, setting, logged, spend, called, lost, granted>>
    BY <1>4 DEF Heard, Ends, Outcomes
  <2> QED
    BY <2>1, <2>2, CallerMoves
<1> QED
  BY <1>2, <1>3, <1>4

\* A request that is let through has come up to none of the limits it read.
LEMMA NotExceeded ==
  ASSUME GatewayInv, NEW c \in Callers, NEW terms \in call[c].row, Exceeded(c, terms) = "calling"
  PROVE /\ SumOver(logged, Anyone) < granted.daily
        /\ call[c].user # Visitor => logged[call[c].user] < granted.each
        /\ spend < granted.budget
<1>1. /\ terms \in SettingRows /\ Within(terms, granted)
      /\ granted.daily \in Nat /\ granted.each \in Nat /\ granted.budget \in Nat /\ spend \in Nat
      /\ call[c].user \in Anyone /\ logged[call[c].user] \in Nat
  BY DEF GatewayInv, GatewayTypeOK, RowsWithin
<1>2. terms.daily \in Nat /\ terms.each \in Nat /\ terms.budget \in Nat
  BY <1>1, AiGatewayAssumption DEF SettingRows
<1>3. SumOver(logged, Anyone) \in Int
  BY AnyoneFinite, SumTakesAny DEF GatewayInv, GatewayTypeOK
<1>4. AllOf(logged) = SumOver(logged, Anyone)
  BY DEF AllOf, SumOver
<1>5. /\ ~(AllOf(logged) >= terms.daily)
      /\ ~(call[c].user # Visitor /\ logged[call[c].user] >= terms.each)
      /\ ~(spend >= terms.budget)
  BY DEF Exceeded
<1> QED
  BY <1>1, <1>2, <1>3, <1>4, <1>5 DEF Within

LEMMA EnforceLimitsStep ==
  ASSUME GatewayInv, NEW c \in Callers, EnforceLimits(c) PROVE GatewayInv'
<1>1. /\ call[c] \in GatewayCalls /\ call \in [Callers -> GatewayCalls]
      /\ called \in [Anyone -> Nat] /\ logged \in [Anyone -> Nat] /\ spend \in Nat /\ lost \in Nat
      /\ granted \in [daily : Nat, each : Nat, budget : Nat]
  BY AiGatewayAssumption DEF GatewayInv, GatewayTypeOK, GatewayCalls
<1>2. PICK terms \in call[c].row :
        /\ call' = [call EXCEPT ![c].pc = Exceeded(c, terms), ![c].row = {}]
        /\ called' = [called EXCEPT ![call[c].user] = @ + (IF Exceeded(c, terms) = "calling" THEN 1 ELSE 0)]
  BY DEF EnforceLimits
<1>3. PICK next : next = Exceeded(c, terms)
  OBVIOUS
<1>4. next \in {"LIMIT", "BUDGET", "calling"}
  BY <1>3 DEF Exceeded
<1>5. PICK k : k = [call[c] EXCEPT !.pc = next, !.row = {}]
  OBVIOUS
<1>6. k \in GatewayCalls /\ k.pc = next /\ k.row = {} /\ k.user = call[c].user
  BY <1>1, <1>4, <1>5 DEF GatewayCalls, Outcomes
<1>7. call' = [call EXCEPT ![c] = k]
  BY <1>1, <1>2, <1>3, <1>5
<1>8. /\ call' \in [Callers -> GatewayCalls] /\ call'[c] = k
      /\ \A d \in Callers : d # c => call'[d] = call[d]
  BY <1>6, <1>7, CallChanges DEF GatewayInv
<1>9. UNCHANGED <<provider, setting, logged, spend, lost, granted>> /\ call[c].pc = "limits"
  BY DEF EnforceLimits
<1>10. CASE next # "calling"
  <2>1. called' = called
    BY <1>1, <1>2, <1>3, <1>10
  <2> QED
    BY <1>6, <1>7, <1>9, <1>10, <2>1, CallerMoves
<1>11. CASE next = "calling"
  <2>1. PICK v \in Anyone : v = call[c].user
    BY <1>1 DEF GatewayCalls
  <2>2. called' = [called EXCEPT ![v] = @ + 1]
    BY <1>2, <1>3, <1>11, <2>1
  <2>3. GatewayTypeOK'
    BY <1>1, <1>8, <1>9, <2>2 DEF GatewayInv, GatewayTypeOK, GatewayCalls
  <2>4. RowsWithin'
    BY <1>6, <1>8, <1>9 DEF GatewayInv, RowsWithin, Within
  <2>5. \A U : c \notin AtProvider(U) /\ AtProvider(U)' = AtProvider(U) \cup (IF v \in U THEN {c} ELSE {})
    BY <1>6, <1>8, <1>9, <1>11, <2>1 DEF AtProvider
  <2>6. ASSUME NEW U \in SUBSET Anyone
        PROVE /\ SumOver(called, U) \in Int /\ SumOver(logged, U) \in Int
              /\ SumOver(called', U) = SumOver(called, U) + (IF v \in U THEN 1 ELSE 0)
              /\ SumOver(called, U) <= SumOver(logged, U) + lost + Cardinality(AtProvider(U))
              /\ Cardinality(AtProvider(U)) \in Nat
              /\ Cardinality(AtProvider(U)') = Cardinality(AtProvider(U)) + (IF v \in U THEN 1 ELSE 0)
              /\ Cardinality(AtProvider(U)) + 1 <= Cardinality(Callers)
    <3>1. SumOver(called, U) \in Int /\ SumOver(called', U) = SumOver(called, U) + (IF v \in U THEN 1 ELSE 0)
      <4>1. /\ called' \in [Anyone -> Nat] /\ called'[v] = called[v] + 1
            /\ \A u \in Anyone : u # v => called[u] = called'[u]
        BY <1>1, <2>2
      <4> QED
        BY <1>1, <4>1, UserCounts, UserSum
    <3>2. SumOver(logged, U) \in Int
      BY <1>1, UserSum
    <3>3. Cardinality(AtProvider(U) \cup {c}) = Cardinality(AtProvider(U)) + 1
          /\ Cardinality(AtProvider(U)) + 1 <= Cardinality(Callers)
      BY <2>5, OneMoreCalling
    <3>4. Cardinality(AtProvider(U)') = Cardinality(AtProvider(U)) + (IF v \in U THEN 1 ELSE 0)
      <4>1. Cardinality(AtProvider(U)) \in Nat
        BY CallersCount
      <4>2. AtProvider(U)' = IF v \in U THEN AtProvider(U) \cup {c} ELSE AtProvider(U)
        BY <2>5
      <4> QED
        BY <3>3, <4>1, <4>2
    <3> QED
      BY <3>1, <3>2, <3>3, <3>4, CallersCount DEF GatewayInv, Accounted
  <2>7. \A U \in SUBSET Anyone : Accounted(U)'
    BY <1>1, <1>9, <2>6 DEF Accounted
  <2>8. PassedByFew'
    <3>1. SumOver(logged, Anyone) < granted.daily /\ spend < granted.budget
          /\ (v # Visitor => logged[v] < granted.each)
      BY <1>3, <1>11, <2>1, NotExceeded
    <3>2. SumOver(called', Anyone) < granted.daily + (Cardinality(Callers) + lost)
      BY <1>1, <2>6, <3>1, CallersCount
    <3>3. spend + Cardinality(AtProvider(Anyone)') < granted.budget + Cardinality(Callers)
      BY <1>1, <2>6, <3>1, CallersCount
    <3>4. ASSUME NEW u \in Askers PROVE called'[u] < granted.each + (Cardinality(Callers) + lost)
      <4>1. u \in Anyone /\ u # Visitor
        BY AiGatewayAssumption DEF Anyone
      <4>2. CASE u # v
        BY <1>1, <2>2, <4>1, <4>2 DEF GatewayInv, PassedByFew
      <4>3. CASE u = v
        <5>1. SumOver(called', {u}) = called'[u] /\ SumOver(logged, {u}) = logged[u]
          BY <1>1, <1>8, <2>3, <4>1, SumOfOne DEF GatewayTypeOK
        <5> QED
          BY <1>1, <2>6, <3>1, <4>1, <4>3, <5>1, CallersCount
      <4> QED
        BY <4>2, <4>3
    <3> QED
      BY <1>9, <3>2, <3>3, <3>4 DEF PassedByFew
  <2> QED
    BY <2>3, <2>4, <2>7, <2>8 DEF GatewayInv
<1> QED
  BY <1>10, <1>11

\* A request leaves the provider: its call is logged, or counted among the lost.
LEMMA LeavesProvider ==
  ASSUME GatewayInv, NEW c \in Callers, call[c].pc = "calling", NEW k \in GatewayCalls, k.pc # "calling",
         call' = [call EXCEPT ![c] = k], k.row \subseteq call[c].row,
         UNCHANGED <<provider, setting, called, granted>>,
         \/ /\ logged' = [logged EXCEPT ![call[c].user] = @ + 1]
            /\ spend' \in Nat /\ spend' <= spend + 1 /\ lost' = lost
         \/ lost < MaxLost /\ lost' = lost + 1 /\ UNCHANGED <<logged, spend>>
  PROVE GatewayInv'
<1>1. /\ call[c] \in GatewayCalls /\ call \in [Callers -> GatewayCalls]
      /\ called \in [Anyone -> Nat] /\ logged \in [Anyone -> Nat] /\ spend \in Nat
      /\ lost \in Nat /\ lost' \in Nat /\ lost' \in 0..MaxLost /\ MaxLost \in Nat
      /\ granted \in [daily : Nat, each : Nat, budget : Nat]
  BY AiGatewayAssumption DEF GatewayInv, GatewayTypeOK, GatewayCalls
<1>2. /\ call' \in [Callers -> GatewayCalls] /\ call'[c] = k
      /\ \A d \in Callers : d # c => call'[d] = call[d]
  BY CallChanges DEF GatewayInv
<1>3. PICK v \in Anyone : v = call[c].user
  BY <1>1 DEF GatewayCalls
<1>4. logged' \in [Anyone -> Nat] /\ spend' \in Nat /\ spend' <= spend + 1
  BY <1>1, <1>3
<1>5. GatewayTypeOK'
  BY <1>1, <1>2, <1>4 DEF GatewayInv, GatewayTypeOK, GatewayCalls
<1>6. RowsWithin'
  BY <1>2 DEF GatewayInv, RowsWithin, Within
<1>7. \A U : /\ v \in U => c \in AtProvider(U)
             /\ AtProvider(U)' = IF v \in U THEN AtProvider(U) \ {c} ELSE AtProvider(U)
  BY <1>2, <1>3 DEF AtProvider
<1>8. ASSUME NEW U
      PROVE /\ Cardinality(AtProvider(U)) \in Nat
            /\ Cardinality(AtProvider(U)') = Cardinality(AtProvider(U)) - (IF v \in U THEN 1 ELSE 0)
  <2>1. Cardinality(AtProvider(U)) \in Nat
    BY CallersCount
  <2>2. CASE v \in U
    <3>1. Cardinality(AtProvider(U) \ {c}) = Cardinality(AtProvider(U)) - 1
      BY <1>7, <2>2, OneLessCalling
    <3> QED
      BY <1>7, <2>1, <2>2, <3>1
  <2>3. CASE v \notin U
    BY <1>7, <2>1, <2>3
  <2> QED
    BY <2>1, <2>2, <2>3
<1>9. ASSUME NEW U \in SUBSET Anyone PROVE Accounted(U)'
  <2>1. SumOver(called, U) \in Int /\ SumOver(logged, U) \in Int
    BY <1>1, UserSum
  <2>2. SumOver(called, U) <= SumOver(logged, U) + lost + Cardinality(AtProvider(U))
    BY DEF GatewayInv, Accounted
  <2>3. CASE logged' = [logged EXCEPT ![v] = @ + 1] /\ lost' = lost
    <3>1. SumOver(logged', U) = SumOver(logged, U) + (IF v \in U THEN 1 ELSE 0)
      <4>1. /\ logged' \in [Anyone -> Nat] /\ logged'[v] = logged[v] + 1
            /\ \A u \in Anyone : u # v => logged[u] = logged'[u]
        BY <1>1, <2>3
      <4> QED
        BY <1>1, <4>1, UserCounts
    <3> QED
      BY <1>1, <1>8, <2>1, <2>2, <2>3, <3>1 DEF Accounted
  <2>4. CASE lost' = lost + 1 /\ logged' = logged
    BY <1>1, <1>8, <2>1, <2>2, <2>4 DEF Accounted
  <2> QED
    BY <1>3, <2>3, <2>4
<1>10. PassedByFew'
  <2>1. SumOver(called, Anyone) \in Int
    BY <1>1, AnyoneFinite, SumTakesAny
  <2>2. lost <= lost' /\ called' = called /\ granted' = granted
    BY <1>1
  <2>3. Cardinality(AtProvider(Anyone)') = Cardinality(AtProvider(Anyone)) - 1
        /\ Cardinality(AtProvider(Anyone)) \in Nat
    BY <1>8
  <2>4. PassedByFew /\ \A u \in Askers : called[u] \in Nat
    BY <1>1 DEF GatewayInv, Anyone
  <2> QED
    BY <1>1, <1>4, <2>1, <2>2, <2>3, <2>4, CallersCount DEF PassedByFew
<1> QED
  BY <1>5, <1>6, <1>9, <1>10 DEF GatewayInv

LEMMA ProviderSteps ==
  ASSUME GatewayInv, NEW c \in Callers,
         \/ \E status \in {"SUCCESS", "PROVIDER_ERROR", "INVALID_OUTPUT", "REFUSED"} : Answered(c, status)
         \/ Killed(c)
  PROVE GatewayInv'
<1>1. /\ call[c] \in GatewayCalls /\ call \in [Callers -> GatewayCalls] /\ spend \in Nat /\ lost \in Nat
      /\ logged \in [Anyone -> Nat]
  BY AiGatewayAssumption DEF GatewayInv, GatewayTypeOK, GatewayCalls
<1>2. CASE \E status \in {"SUCCESS", "PROVIDER_ERROR", "INVALID_OUTPUT", "REFUSED"} : Answered(c, status)
  <2>1. PICK status \in {"SUCCESS", "PROVIDER_ERROR", "INVALID_OUTPUT", "REFUSED"} : Answered(c, status)
    BY <1>2
  <2>2. PICK place : place = CASE status = "SUCCESS" -> "DATA"
                         [] status = "PROVIDER_ERROR" -> "PROVIDER"
                         [] OTHER -> status
    OBVIOUS
  <2>3. place \in {"DATA", "PROVIDER", "INVALID_OUTPUT", "REFUSED"}
    BY <2>1, <2>2
  <2>4. PICK k : k = [call[c] EXCEPT !.pc = place]
    OBVIOUS
  <2>5. k \in GatewayCalls /\ k.pc # "calling" /\ k.row = call[c].row
    BY <1>1, <2>3, <2>4 DEF GatewayCalls, Outcomes
  <2>6. call' = [call EXCEPT ![c] = k]
    BY <1>1, <2>1, <2>2, <2>4 DEF Answered, Goes
  <2>7. call[c].pc = "calling" /\ UNCHANGED <<provider, setting, called, granted>>
    BY <2>1 DEF Answered
  <2>8. \/ /\ logged' = [logged EXCEPT ![call[c].user] = @ + 1]
           /\ spend' \in Nat /\ spend' <= spend + 1 /\ lost' = lost
        \/ lost < MaxLost /\ lost' = lost + 1 /\ UNCHANGED <<logged, spend>>
    <3>1. status \in CountedStatuses /\ Cost(status) \in {0, 1}
      BY DEF CountedStatuses, Cost
    <3> QED
      BY <1>1, <2>1, <3>1 DEF Answered, LogUsage
  <2> QED
    BY <2>5, <2>6, <2>7, <2>8, LeavesProvider
<1>3. CASE Killed(c)
  <2>1. NoCall \in GatewayCalls /\ NoCall.row = {} /\ NoCall.pc # "calling"
    BY DEF NoCall, GatewayCalls, Anyone
  <2>2. /\ call' = [call EXCEPT ![c] = NoCall] /\ call[c].pc = "calling"
        /\ UNCHANGED <<provider, setting, called, granted>>
        /\ lost < MaxLost /\ lost' = lost + 1 /\ UNCHANGED <<logged, spend>>
    BY <1>3 DEF Killed, Ends
  <2> QED
    BY <2>1, <2>2, LeavesProvider
<1> QED
  BY <1>2, <1>3

LEMMA UpdateSettingsStep ==
  ASSUME GatewayInv, NEW terms \in SettingRows, UpdateSettings(terms) PROVE GatewayInv'
<1>1. /\ granted.daily \in Nat /\ granted.each \in Nat /\ granted.budget \in Nat
      /\ terms.daily \in Nat /\ terms.each \in Nat /\ terms.budget \in Nat
  BY AiGatewayAssumption DEF GatewayInv, GatewayTypeOK, SettingRows
<1>2. PICK d \in Nat, e \in Nat, b \in Nat :
        /\ d = Max({granted.daily, terms.daily}) /\ granted.daily <= d /\ terms.daily <= d
        /\ e = Max({granted.each, terms.each}) /\ granted.each <= e /\ terms.each <= e
        /\ b = Max({granted.budget, terms.budget}) /\ granted.budget <= b /\ terms.budget <= b
  BY <1>1, MaxOfTwo, SMTT(30)
<1>3. granted' = [daily |-> d, each |-> e, budget |-> b] /\ setting' = terms
      /\ UNCHANGED <<provider, call, logged, spend, called, lost>>
  BY <1>2 DEF UpdateSettings
<1>4. granted'.daily = d /\ granted'.each = e /\ granted'.budget = b
      /\ granted' \in [daily : Nat, each : Nat, budget : Nat]
  BY <1>3
<1>5. GatewayTypeOK'
  BY <1>3, <1>4 DEF GatewayInv, GatewayTypeOK
<1>6. ASSUME NEW s \in SettingRows, Within(s, granted) PROVE Within(s, granted')
  <2>1. s.daily \in Nat /\ s.each \in Nat /\ s.budget \in Nat
    BY AiGatewayAssumption DEF SettingRows
  <2> QED
    BY <1>1, <1>2, <1>4, <1>6, <2>1 DEF Within
<1>7. RowsWithin'
  <2>1. Within(terms, granted')
    BY <1>2, <1>4 DEF Within
  <2>2. \A c \in Callers : call[c].row \subseteq SettingRows
    BY DEF GatewayInv, GatewayTypeOK
  <2> QED
    BY <1>3, <1>6, <2>1, <2>2 DEF GatewayInv, RowsWithin
<1>8. \A U : AtProvider(U)' = AtProvider(U)
  BY <1>3 DEF AtProvider
<1>9. \A U \in SUBSET Anyone : Accounted(U)'
  BY <1>3, <1>8 DEF GatewayInv, Accounted
<1>10. PassedByFew'
  <2>1. SumOver(called, Anyone) \in Int
    BY AnyoneFinite, SumTakesAny DEF GatewayInv, GatewayTypeOK
  <2>2. PassedByFew /\ spend \in Nat /\ lost \in Nat /\ \A u \in Askers : called[u] \in Nat
    BY AiGatewayAssumption DEF GatewayInv, GatewayTypeOK, Anyone
  <2> QED
    BY <1>1, <1>2, <1>3, <1>4, <1>8, <2>1, <2>2, CallersCount DEF PassedByFew
<1> QED
  BY <1>5, <1>7, <1>9, <1>10 DEF GatewayInv

LEMMA GatewayInductive == GatewaySpec => []GatewayInv
<1>1. ASSUME GatewayInv, [GatewayNext]_gatewayvars PROVE GatewayInv'
  <2>1. CASE UNCHANGED gatewayvars
    <3>1. UNCHANGED <<logged, spend, called, lost, granted, setting, call, provider>>
      BY <2>1 DEF gatewayvars
    <3>2. GatewayTypeOK'
      BY <1>1, <3>1 DEF GatewayInv, GatewayTypeOK
    <3> QED
      BY <1>1, <3>1, <3>2, CountsStay
  <2>2. CASE GatewayNext
    BY <1>1, <2>2, GatewayWaits, EnforceLimitsStep, ProviderSteps, UpdateSettingsStep DEF GatewayNext
  <2> QED
    BY <1>1, <2>1, <2>2
<1> QED
  BY <1>1, GatewayInitInv, PTL DEF GatewaySpec

\* Type correctness of the gateway's requests, counters and settings.
THEOREM GatewayTyped == GatewaySpec => []GatewayTypeOK
<1>1. GatewayInv => GatewayTypeOK
  BY DEF GatewayInv
<1> QED
  BY <1>1, GatewayInductive, PTL

(***************************************************************************)
(* The limits of the language model: whatever requests are under way when  *)
(* the usage is read, fail at the provider or never reach the log, and     *)
(* whatever admins save meanwhile, the calls of a day, of a user and their *)
(* cost pass the highest limits that were in force by less than the number *)
(* of requests that can be under way at once, and the calls that were lost.*)
(***************************************************************************)
THEOREM LimitsArePassedByFew == GatewaySpec => []LimitsHold
<1>1. GatewayInv => LimitsHold
  <2> SUFFICES ASSUME GatewayInv PROVE LimitsHold
    OBVIOUS
  <2>1. AllOf(called) = SumOver(called, Anyone)
    BY DEF AllOf, SumOver
  <2>2. spend \in Nat /\ granted.budget \in Nat /\ Cardinality(AtProvider(Anyone)) \in Nat
    BY CallersCount DEF GatewayInv, GatewayTypeOK
  <2>3. spend < granted.budget + Cardinality(Callers)
    BY <2>2, CallersCount DEF GatewayInv, PassedByFew
  <2> QED
    BY <2>1, <2>3 DEF GatewayInv, PassedByFew, LimitsHold
<1> QED
  BY <1>1, GatewayInductive, PTL

-----------------------------------------------------------------------------
(* The password reset: types, the limits on attempts and codes, and that    *)
(* the flow implements ResetPromise.                                        *)

(***************************************************************************)
(* The inductive invariant.  A handler works on a row that was created,    *)
(* and one about to change the password on a row that, unless purged, is   *)
(* verified.  Rows not created yet are empty and one row at most is open.  *)
(***************************************************************************)
Working == {"claim", "compare", "count", "lock", "verify", "consume"}

HandlerInv(h) ==
  /\ pc[h] \in Working => ctx[h].request \in 1..made
  /\ pc[h] = "consume" => ~row[ctx[h].request].present \/ row[ctx[h].request].verifiedAt

HandlersInv == \A h \in Handlers : HandlerInv(h)

RowsInv ==
  /\ \A r \in Requests : r > made => row[r] = NoRow
  /\ \A q, r \in Requests : Open(q) /\ Open(r) => q = r

ResetInv == TypeOK /\ HandlersInv /\ RowsInv /\ AttemptsCapped

USE PasswordResetAssumption DEF Requests

-----------------------------------------------------------------------------
(* Types *)

LEMMA NoRowType == NoRow \in Row /\ Idle \in Context
BY DEF NoRow, Row, Idle, Context

LEMMA ClosedType ==
  ASSUME TypeOK
  PROVE  /\ Closed(row) \in [Requests -> Row]
         /\ \A r \in Requests : /\ Closed(row)[r].attempts = row[r].attempts
                                /\ Closed(row)[r].present = row[r].present
                                /\ Closed(row)[r].verifiedAt = row[r].verifiedAt
                                /\ row[r].present => Closed(row)[r].invalidatedAt
                                /\ ~row[r].present => Closed(row)[r] = row[r]
BY DEF Closed, Row, TypeOK

LEMMA InitResetInv == Init => ResetInv
BY NoRowType DEF Init, ResetInv, TypeOK, HandlersInv, HandlerInv, RowsInv, AttemptsCapped, Open,
                 NoRow, Row, Labels, Working

-----------------------------------------------------------------------------
(* What a step of one handler does to the others *)

\* One handler moves on.
HandlerMoves(h) == \E label \in Labels, c \in Context :
              pc' = [pc EXCEPT ![h] = label] /\ ctx' = [ctx EXCEPT ![h] = c]

\* No row comes back once it is gone, and none loses its verification.
RowsAge == \A r \in 1..made :
             row'[r].present => row[r].present /\ (row[r].verifiedAt => row'[r].verifiedAt)

LEMMA OthersKeep ==
  ASSUME ResetInv, made' \in Nat, made' >= made, RowsAge, NEW h \in Handlers,
         HandlerMoves(h), HandlerInv(h)'
  PROVE  HandlersInv'
<1> SUFFICES ASSUME NEW g \in Handlers, g # h
             PROVE  /\ pc'[g] \in Working => ctx'[g].request \in 1..made'
                    /\ pc'[g] = "consume" => \/ ~row'[ctx'[g].request].present
                                             \/ row'[ctx'[g].request].verifiedAt
  BY DEF HandlersInv, HandlerInv
<1>1. pc'[g] = pc[g] /\ ctx'[g] = ctx[g]
  BY DEF HandlerMoves, ResetInv, TypeOK
<1>2. HandlerInv(g) /\ made \in Nat
  BY DEF ResetInv, HandlersInv, TypeOK
<1>3. pc'[g] \in Working => ctx'[g].request \in 1..made /\ 1..made \subseteq 1..made'
  BY <1>1, <1>2 DEF HandlerInv
<1>4. pc'[g] = "consume" => ~row'[ctx'[g].request].present \/ row'[ctx'[g].request].verifiedAt
  BY <1>1, <1>2, <1>3 DEF HandlerInv, RowsAge, Working
<1> QED
  BY <1>3, <1>4

LEMMA FinishMoves ==
  ASSUME TypeOK, NEW h \in Handlers, Finish(h)
  PROVE  HandlerMoves(h) /\ HandlerInv(h)' /\ pc' \in [Handlers -> Labels]
         /\ ctx' \in [Handlers -> Context]
<1>1. "idle" \in Labels /\ Idle \in Context
  BY NoRowType DEF Labels
<1>2. pc'[h] = "idle"
  BY DEF Finish, TypeOK
<1> QED
  BY <1>1, <1>2 DEF Finish, HandlerMoves, HandlerInv, Working, TypeOK

\* A handler that looks and moves on.
LEMMA LookKeeps ==
  ASSUME ResetInv, NEW h \in Handlers, HandlerMoves(h), HandlerInv(h)',
         UNCHANGED <<now, made, row, password>>
  PROVE  ResetInv'
<1>1. HandlersInv'
  BY OthersKeep DEF RowsAge, ResetInv, TypeOK
<1>2. TypeOK'
  BY DEF ResetInv, TypeOK, HandlerMoves
<1>3. RowsInv' /\ AttemptsCapped'
  BY DEF ResetInv, RowsInv, AttemptsCapped, Open
<1> QED
  BY <1>1, <1>2, <1>3 DEF ResetInv

LEMMA GotoMoves ==
  ASSUME TypeOK, NEW h \in Handlers, NEW label \in Labels, Goto(h, label)
  PROVE  HandlerMoves(h) /\ pc'[h] = label /\ ctx'[h] = ctx[h]
         /\ pc' \in [Handlers -> Labels]
         /\ ctx' \in [Handlers -> Context]
BY DEF Goto, HandlerMoves, TypeOK

\* A handler that writes one row, which was there before it or is not there at all.
LEMMA WriteKeeps ==
  ASSUME ResetInv, NEW h \in Handlers, HandlerMoves(h), HandlerInv(h)',
         UNCHANGED <<now, made, password>>,
         NEW r \in 1..made, NEW new \in Row, row' = [row EXCEPT ![r] = new],
         new.present = row[r].present, row[r].invalidatedAt => new.invalidatedAt,
         row[r].verifiedAt => new.verifiedAt, new.attempts <= MaxCodeAttempts
  PROVE  ResetInv'
<1> USE DEF ResetInv
<1>1. r \in Requests /\ row'[r] = new /\ \A q \in Requests : q # r => row'[q] = row[q]
  BY DEF TypeOK
<1>2. HandlersInv'
  <2>1. RowsAge
    BY <1>1 DEF RowsAge, TypeOK
  <2> QED
    BY <2>1, OthersKeep DEF TypeOK
<1>3. TypeOK'
  BY DEF TypeOK, HandlerMoves
<1>4. AttemptsCapped'
  BY <1>1 DEF AttemptsCapped
<1>5. RowsInv'
  <2>1. \A q \in Requests : Open(q)' => Open(q)
    BY <1>1 DEF Open, TypeOK, Row
  <2>2. \A q \in Requests : q > made' => row'[q] = NoRow
    BY <1>1 DEF RowsInv, TypeOK
  <2> QED
    BY <2>1, <2>2 DEF RowsInv
<1> QED
  BY <1>2, <1>3, <1>4, <1>5

-----------------------------------------------------------------------------
(* Each action keeps the invariant *)

LEMMA IssueKeeps ==
  ASSUME ResetInv, NEW h \in Handlers, IssueRead(h) \/ IssueCommit(h)
  PROVE  ResetInv'
<1> USE DEF ResetInv
<1>1. CASE IssueRead(h)
  <2>1. [ctx[h] EXCEPT !.seen = row] \in Context
    BY DEF TypeOK, Context
  <2>2. ctx' = [ctx EXCEPT ![h] = [ctx[h] EXCEPT !.seen = row]]
    BY <1>1 DEF IssueRead, TypeOK
  <2>3. HandlerMoves(h) /\ pc'[h] = "issue"
    BY <1>1, <2>1, <2>2 DEF IssueRead, HandlerMoves, Labels, TypeOK
  <2> QED
    BY <1>1, <2>3, LookKeeps DEF IssueRead, HandlerInv, Working
<1>2. CASE IssueCommit(h) /\ UNCHANGED <<made, row>>
  BY <1>2, FinishMoves, LookKeeps DEF IssueCommit
<1>3. CASE IssueCommit(h) /\ made < MaxRequests /\ made' = made + 1
           /\ row' = [Closed(row) EXCEPT ![made + 1] =
                        [NoRow EXCEPT !.present = TRUE, !.createdAt = now]]
  <2> DEFINE n == made + 1
             new == [NoRow EXCEPT !.present = TRUE, !.createdAt = now]
  <2>1. new \in Row /\ new.attempts = 0
    BY DEF NoRow, Row, TypeOK
  <2>2. n \in Requests /\ row[n] = NoRow /\ made \in Nat
    BY <1>3, SMTT(20) DEF TypeOK, RowsInv
  <2>3. row'[n] = new /\ \A r \in Requests : r # n => row'[r] = Closed(row)[r]
    BY <1>3, <2>2, ClosedType DEF TypeOK
  <2>4. Finish(h) /\ UNCHANGED <<now, password>>
    BY <1>3 DEF IssueCommit
  <2>5. row' \in [Requests -> Row]
    BY <1>3, <2>1, ClosedType DEF TypeOK
  <2> HIDE DEF new
  <2>6. \A q \in Requests : q # n =>
          /\ row'[q].attempts = row[q].attempts /\ row'[q].present = row[q].present
          /\ row'[q].verifiedAt = row[q].verifiedAt
          /\ row[q].present => row'[q].invalidatedAt
          /\ ~row[q].present => row'[q] = row[q]
    BY <2>3, ClosedType
  <2>7. HandlersInv'
    <3>1. RowsAge
      BY <2>2, <2>6 DEF RowsAge, TypeOK
    <3> QED
      BY <1>3, <2>2, <2>4, <3>1, FinishMoves, OthersKeep
  <2>8. TypeOK'
    BY <1>3, <2>2, <2>4, <2>5, FinishMoves DEF TypeOK
  <2>9. AttemptsCapped'
    BY <2>1, <2>3, <2>6 DEF AttemptsCapped
  <2>10. RowsInv'
    <3>1. \A r \in Requests : r # n => ~Open(r)'
      BY <2>6 DEF Open
    <3>2. \A r \in Requests : r > n => row'[r] = NoRow
      <4>1. \A r \in Requests : r > n => r # n /\ row[r] = NoRow
        BY <2>2 DEF RowsInv
      <4> QED
        BY <2>6, <4>1 DEF NoRow
    <3> QED
      BY <1>3, <3>1, <3>2 DEF RowsInv
  <2> QED
    BY <2>7, <2>8, <2>9, <2>10
<1> QED
  BY <1>1, <1>2, <1>3 DEF IssueCommit

LEMMA VerifyKeeps ==
  ASSUME ResetInv, NEW h \in Handlers, Verification(h)
  PROVE  ResetInv'
<1> DEFINE r == ctx[h].request
<1> USE DEF ResetInv
<1>1. pc[h] \in Working /\ r \in 1..made /\ r \in Requests /\ row[r] \in Row
  <2>1. pc[h] \in Working
    BY DEF Verification, VerifyClaim, VerifyCount, VerifyLock, VerifySet, Working
  <2> QED
    BY <2>1 DEF HandlersInv, HandlerInv, TypeOK
<1>2. CASE VerifyClaim(h) /\ ~MayTry(r)
  BY <1>2, FinishMoves, LookKeeps DEF VerifyClaim
<1>3. CASE VerifyClaim(h) /\ MayTry(r)
  <2> DEFINE new == [row[r] EXCEPT !.attempts = @ + 1]
             next == IF ctx[h].guess = r THEN "verify" ELSE "count"
  <2>1. new \in Row /\ new.present = row[r].present /\ new.invalidatedAt = row[r].invalidatedAt
        /\ new.verifiedAt = row[r].verifiedAt /\ new.attempts <= MaxCodeAttempts
    BY <1>1, <1>3 DEF Row, MayTry
  <2>2. row' = [row EXCEPT ![r] = new]
    BY <1>3 DEF VerifyClaim
  <2>3. next \in Labels /\ next # "consume"
    BY DEF Labels
  <2>4. Goto(h, next) /\ UNCHANGED <<now, made, password>>
    BY <1>3 DEF VerifyClaim
  <2>5. HandlerMoves(h) /\ HandlerInv(h)'
    BY <1>1, <2>3, <2>4, GotoMoves DEF HandlerInv
  <2> QED
    BY <1>1, <2>1, <2>2, <2>4, <2>5, WriteKeeps
<1>4. CASE VerifyCount(h)
  <2>1. CASE Goto(h, "lock")
    <3>1. HandlerMoves(h) /\ HandlerInv(h)'
      BY <1>1, <1>4, <2>1, GotoMoves DEF HandlerInv, Labels, VerifyCount
    <3> QED
      BY <1>4, <3>1, LookKeeps DEF VerifyCount
  <2>2. CASE Finish(h)
    BY <1>4, <2>2, FinishMoves, LookKeeps DEF VerifyCount
  <2> QED
    BY <1>4, <2>1, <2>2 DEF VerifyCount
<1>5. CASE VerifyLock(h)
  <2> DEFINE new == [row[r] EXCEPT !.invalidatedAt = @ \/ row[r].present]
  <2>1. new \in Row /\ new.present = row[r].present /\ (row[r].invalidatedAt => new.invalidatedAt)
        /\ new.verifiedAt = row[r].verifiedAt /\ new.attempts = row[r].attempts
    BY <1>1 DEF Row
  <2>2. row' = [row EXCEPT ![r] = new]
    BY <1>5 DEF VerifyLock
  <2>3. Finish(h) /\ UNCHANGED <<now, made, password>>
    BY <1>5 DEF VerifyLock
  <2> QED
    BY <1>1, <2>1, <2>2, <2>3, FinishMoves, WriteKeeps DEF AttemptsCapped
<1>6. CASE VerifySet(h) /\ ~MayVerify(r)
  BY <1>6, FinishMoves, LookKeeps DEF VerifySet
<1>7. CASE VerifySet(h) /\ MayVerify(r)
  <2> DEFINE new == [row[r] EXCEPT !.verifiedAt = TRUE, !.resetTokenExpiresAt = TokenExpiry]
  <2>1. TokenExpiry \in Nat
    BY DEF TokenExpiry, TypeOK
  <2>2. new \in Row /\ new.present = row[r].present /\ new.invalidatedAt = row[r].invalidatedAt
        /\ new.verifiedAt /\ new.attempts = row[r].attempts
    BY <1>1, <2>1 DEF Row
  <2>3. row' = [row EXCEPT ![r] = new]
    BY <1>7 DEF VerifySet
  <2>4. Finish(h) /\ UNCHANGED <<now, made, password>>
    BY <1>7 DEF VerifySet
  <2> QED
    BY <1>1, <2>2, <2>3, <2>4, FinishMoves, WriteKeeps DEF AttemptsCapped
<1> QED
  BY <1>2, <1>3, <1>4, <1>5, <1>6, <1>7 DEF Verification

LEMMA FindKeeps ==
  ASSUME ResetInv, NEW h \in Handlers,
         \/ \E g \in Requests \union {0} : VerifyFind(h, g)
         \/ \E r \in Requests : ResetRead(h, r)
  PROVE  ResetInv'
<1> USE DEF ResetInv
<1>1. \A r \in Requests : row[r].present => r \in 1..made
  BY DEF RowsInv, NoRow, TypeOK
<1>2. ASSUME NEW g \in Requests \union {0}, VerifyFind(h, g) PROVE ResetInv'
  <2>1. PICK r \in Active : /\ pc' = [pc EXCEPT ![h] = "claim"]
                            /\ ctx' = [ctx EXCEPT ![h].request = r, ![h].guess = g]
    BY <1>2 DEF VerifyFind
  <2>2. r \in Requests /\ r \in 1..made
    BY <1>1 DEF Active, Open
  <2> DEFINE c == [ctx[h] EXCEPT !.request = r, !.guess = g]
  <2>3. c \in Context /\ c.request = r
    BY <1>2, <2>2 DEF Context, TypeOK
  <2>4. ctx' = [ctx EXCEPT ![h] = c]
    BY <2>1 DEF TypeOK
  <2>5. HandlerMoves(h) /\ pc'[h] = "claim" /\ ctx'[h].request = r
    BY <2>1, <2>3, <2>4 DEF HandlerMoves, Labels, TypeOK
  <2>6. UNCHANGED <<now, made, row, password>>
    BY <1>2 DEF VerifyFind
  <2> QED
    BY <2>2, <2>5, <2>6, LookKeeps DEF HandlerInv
<1>3. ASSUME NEW r \in Requests, ResetRead(h, r) PROVE ResetInv'
  <2> DEFINE c == [ctx[h] EXCEPT !.request = r]
  <2>1. c \in Context /\ c.request = r
    BY DEF Context, TypeOK
  <2>2. ctx' = [ctx EXCEPT ![h] = c] /\ pc' = [pc EXCEPT ![h] = "consume"]
    BY <1>3 DEF ResetRead, TypeOK
  <2>3. HandlerMoves(h) /\ ctx'[h].request = r
    BY <2>1, <2>2 DEF HandlerMoves, Labels, TypeOK
  <2>4. r \in 1..made /\ row[r].verifiedAt
    BY <1>1, <1>3 DEF ResetRead, MayReset, Open
  <2>5. UNCHANGED <<now, made, row, password>>
    BY <1>3 DEF ResetRead
  <2> QED
    BY <2>3, <2>4, <2>5, LookKeeps DEF HandlerInv
<1> QED
  BY <1>2, <1>3

LEMMA ConsumeKeeps ==
  ASSUME ResetInv, NEW h \in Handlers, ResetConsume(h)
  PROVE  ResetInv'
<1> DEFINE r == ctx[h].request
           new == [Closed(row)[r] EXCEPT !.consumedAt = TRUE]
<1> USE DEF ResetInv
<1>1. Finish(h) /\ UNCHANGED <<now, made>>
  BY DEF ResetConsume
<1>2. CASE UNCHANGED <<row, password>>
  BY <1>1, <1>2, FinishMoves, LookKeeps
<1>3. CASE MayConsume(r) /\ row' = [Closed(row) EXCEPT ![r].consumedAt = TRUE]
           /\ password' = password + 1
  <2>1. r \in 1..made /\ r \in Requests
    BY DEF ResetConsume, HandlersInv, HandlerInv, Working, TypeOK
  <2>2. Closed(row)[r] \in Row
    BY <2>1, ClosedType
  <2>3. new \in Row /\ row' = [Closed(row) EXCEPT ![r] = new]
    BY <1>3, <2>2 DEF Row
  <2>4. row' \in [Requests -> Row] /\ row'[r] = new
        /\ \A q \in Requests : q # r => row'[q] = Closed(row)[q]
    BY <2>1, <2>3, ClosedType
  <2>5. new.present = Closed(row)[r].present /\ new.verifiedAt = Closed(row)[r].verifiedAt
         /\ new.attempts = Closed(row)[r].attempts
         /\ new.invalidatedAt = Closed(row)[r].invalidatedAt
    BY <2>2 DEF Row
  <2>6. new.present = row[r].present /\ new.verifiedAt = row[r].verifiedAt
        /\ new.attempts = row[r].attempts /\ (row[r].present => new.invalidatedAt)
    BY <2>1, <2>5, ClosedType
  <2> HIDE DEF new
  <2>7. \A q \in Requests : q # r =>
          /\ row'[q].attempts = row[q].attempts /\ row'[q].present = row[q].present
          /\ row'[q].verifiedAt = row[q].verifiedAt
          /\ row[q].present => row'[q].invalidatedAt
          /\ ~row[q].present => row'[q] = row[q]
    BY <2>4, ClosedType
  <2>8. HandlersInv'
    <3>1. RowsAge
      BY <2>1, <2>4, <2>6, <2>7 DEF RowsAge, TypeOK
    <3> QED
      BY <1>1, <3>1, FinishMoves, OthersKeep DEF TypeOK
  <2>9. TypeOK'
    BY SMTT(30), <1>1, <1>3, <2>4, FinishMoves DEF TypeOK
  <2>10. AttemptsCapped'
    BY <2>1, <2>4, <2>6, <2>7 DEF AttemptsCapped
  <2>11. RowsInv'
    <3>1. \A q \in Requests : ~Open(q)'
      BY <2>4, <2>6, <2>7 DEF Open
    <3>2. \A q \in Requests : q > made => row'[q] = NoRow
      <4>1. \A q \in Requests : q > made => q # r /\ row[q] = NoRow
        BY <2>1 DEF RowsInv, TypeOK
      <4> QED
        BY <2>7, <4>1 DEF NoRow
    <3> QED
      BY <1>1, <3>1, <3>2 DEF RowsInv
  <2> QED
    BY <2>8, <2>9, <2>10, <2>11
<1> QED
  BY <1>2, <1>3 DEF ResetConsume

LEMMA AroundKeeps ==
  ASSUME ResetInv, Purge \/ Tick \/ UNCHANGED vars
  PROVE  ResetInv'
<1> USE DEF ResetInv
<1>1. CASE Tick \/ UNCHANGED vars
  BY <1>1 DEF Tick, vars, TypeOK, HandlersInv, HandlerInv, RowsInv, AttemptsCapped, Open
<1>2. CASE Purge
  <2>1. \A r \in Requests : row'[r] = row[r] \/ row'[r] = NoRow
    BY <1>2 DEF Purge
  <2>2. row' \in [Requests -> Row]
    BY <1>2, NoRowType DEF Purge, TypeOK
  <2>3. NoRow.attempts = 0 /\ ~NoRow.present
    BY DEF NoRow
  <2>4. TypeOK'
    BY <1>2, <2>2 DEF Purge, TypeOK
  <2>5. AttemptsCapped'
    BY <2>1, <2>3 DEF AttemptsCapped
  <2>6. RowsInv'
    BY <1>2, <2>1, <2>3 DEF RowsInv, Open, Purge
  <2>7. HandlersInv'
    BY <1>2, <2>1, <2>3 DEF HandlersInv, HandlerInv, Purge, Working, TypeOK
  <2> QED
    BY <2>4, <2>5, <2>6, <2>7
<1> QED
  BY <1>1, <1>2

-----------------------------------------------------------------------------
\* The strengthening of TypeOK and AttemptsCapped is inductive.
THEOREM ResetInductive == Spec => []ResetInv
<1>1. ResetInv /\ [Next]_vars => ResetInv'
  BY IssueKeeps, VerifyKeeps, FindKeeps, ConsumeKeeps, AroundKeeps DEF Next
<1> QED
  BY <1>1, InitResetInv, PTL DEF Spec

\* Every variable keeps its type.
THEOREM ResetTyped == Spec => []TypeOK
BY ResetInductive, PTL DEF ResetInv

\* However many guesses race, a code takes at most MAX_CODE_ATTEMPTS of them.
THEOREM AttemptsNeverPass == Spec => []AttemptsCapped
BY ResetInductive, PTL DEF ResetInv

-----------------------------------------------------------------------------
(* The refinement *)

\* Which code counts.
LiveFact ==
  RowsInv => /\ \A r \in Requests : Open(r) => Live = r
             /\ (\A r \in Requests : ~Open(r)) => Live = 0

LEMMA LiveIs == LiveFact
<1> SUFFICES ASSUME RowsInv PROVE LiveFact
  BY DEF LiveFact
<1>1. ASSUME NEW r \in Requests, Open(r) PROVE Live = r
  <2>1. \A q \in Requests : Open(q) => q = r
    BY <1>1 DEF RowsInv
  <2> QED
    BY <1>1, <2>1 DEF Live
<1>2. ASSUME \A r \in Requests : ~Open(r) PROVE Live = 0
  BY <1>2 DEF Live
<1> QED
  BY <1>1, <1>2 DEF LiveFact

LEMMA LiveIsNext == LiveFact'
BY LiveIs, PTL

LEMMA Stands ==
  ASSUME ResetInv, ResetInv', UNCHANGED <<made, password>>,
         \A r \in Requests : Open(r)' <=> Open(r),
         \A r \in Requests : Open(r) => row'[r].verifiedAt = row[r].verifiedAt
  PROVE  UNCHANGED Promise!promiseVars
<1>1. CASE \A r \in Requests : ~Open(r)
  <2>1. Live = 0 /\ Live' = 0
    BY <1>1, LiveIs, LiveIsNext DEF LiveFact, ResetInv
  <2> QED
    BY <2>1 DEF Promise!promiseVars
<1>2. ASSUME NEW r \in Requests, Open(r) PROVE UNCHANGED Promise!promiseVars
  <2>1. Live = r /\ Live' = r
    BY <1>2, LiveIs, LiveIsNext DEF LiveFact, ResetInv
  <2> QED
    BY <1>2, <2>1 DEF Promise!promiseVars
<1> QED
  BY <1>1, <1>2

LEMMA Withdraws ==
  ASSUME ResetInv, ResetInv', UNCHANGED <<made, password>>, NEW r \in Requests, Open(r), ~Open(r)',
         \A q \in Requests : Open(q)' => Open(q)
  PROVE  Promise!Withdraw
<1>1. \A q \in Requests : ~Open(q)'
  BY DEF ResetInv, RowsInv
<1>2. Live = r /\ Live' = 0
  BY <1>1, LiveIs, LiveIsNext DEF LiveFact, ResetInv
<1> QED
  BY <1>2 DEF Promise!Withdraw

LEMMA PromiseInit == Init => Promise!Init
<1> SUFFICES ASSUME Init PROVE Promise!Init
  OBVIOUS
<1>1. \A r \in Requests : ~Open(r)
  BY DEF Init, Open, NoRow
<1>2. Live = 0
  BY <1>1, LiveIs, InitResetInv DEF LiveFact, ResetInv
<1> QED
  BY <1>2 DEF Init, Promise!Init

LEMMA PromiseStep ==
  ASSUME ResetInv, ResetInv', [Next]_vars
  PROVE  [Promise!Next]_(Promise!promiseVars)
<1>1. CASE UNCHANGED <<made, row, password>>
  BY <1>1, Stands DEF Open
<1>2. ASSUME NEW h \in Handlers, IssueCommit(h), made' # made
      PROVE  Promise!Issue
  <2>1. PICK n \in Requests : n = made + 1 /\ made' = n /\ password' = password
    BY <1>2 DEF IssueCommit, ResetInv, TypeOK
  <2>2. row'[n] = [NoRow EXCEPT !.present = TRUE, !.createdAt = now]
    BY <1>2, <2>1, ClosedType DEF IssueCommit, ResetInv
  <2>3. Open(n)' /\ ~row'[n].verifiedAt
    BY <2>1, <2>2 DEF Open, NoRow
  <2>4. Live' = n
    BY <2>1, <2>3, LiveIsNext DEF LiveFact, ResetInv
  <2> QED
    BY <2>1, <2>3, <2>4 DEF Promise!Issue
<1>3. ASSUME NEW h \in Handlers, VerifyClaim(h), row' # row
      PROVE  UNCHANGED Promise!promiseVars
  <2>1. PICK r \in Requests : r = ctx[h].request /\ row[r] \in Row
    BY <1>3 DEF VerifyClaim, ResetInv, HandlersInv, HandlerInv, Working, TypeOK
  <2>2. row' = [row EXCEPT ![r] = [row[r] EXCEPT !.attempts = @ + 1]]
    BY <1>3, <2>1 DEF VerifyClaim
  <2>3. \A q \in Requests : /\ row'[q].present = row[q].present
                            /\ row'[q].invalidatedAt = row[q].invalidatedAt
                            /\ row'[q].verifiedAt = row[q].verifiedAt
    BY <2>1, <2>2 DEF ResetInv, TypeOK, Row
  <2> QED
    BY <1>3, <2>3, Stands DEF Open, VerifyClaim
<1>4. ASSUME NEW h \in Handlers, VerifyLock(h), row' # row
      PROVE  [Promise!Next]_(Promise!promiseVars)
  <2>1. PICK r \in Requests : r = ctx[h].request /\ row[r] \in Row /\ UNCHANGED <<made, password>>
    BY <1>4 DEF VerifyLock, ResetInv, HandlersInv, HandlerInv, Working, TypeOK
  <2>2. row' = [row EXCEPT ![r] = [row[r] EXCEPT !.invalidatedAt = @ \/ row[r].present]]
    BY <1>4, <2>1 DEF VerifyLock
  <2>3. \A q \in Requests : /\ row'[q].present = row[q].present
                            /\ row'[q].verifiedAt = row[q].verifiedAt
                            /\ q # r => row'[q].invalidatedAt = row[q].invalidatedAt
    BY <2>1, <2>2 DEF ResetInv, TypeOK, Row
  <2>4. ~Open(r)'
    BY <2>1, <2>2 DEF Open, ResetInv, TypeOK, Row
  <2>5. CASE Open(r)
    BY <2>1, <2>3, <2>4, <2>5, Withdraws DEF Open, Promise!Next
  <2>6. CASE ~Open(r)
    BY <2>1, <2>3, <2>4, <2>6, Stands DEF Open
  <2> QED
    BY <2>5, <2>6
<1>5. ASSUME NEW h \in Handlers, VerifySet(h), row' # row
      PROVE  Promise!Authorise
  <2>1. PICK r \in Requests : /\ r = ctx[h].request /\ row[r] \in Row /\ MayVerify(r)
                              /\ UNCHANGED <<made, password>>
    BY <1>5 DEF VerifySet, ResetInv, HandlersInv, HandlerInv, Working, TypeOK
  <2>2. row' = [row EXCEPT ![r] = [row[r] EXCEPT !.verifiedAt = TRUE,
                                                 !.resetTokenExpiresAt = TokenExpiry]]
    BY <1>5, <2>1 DEF VerifySet
  <2>3. Open(r)' /\ row'[r].verifiedAt = TRUE
    BY <2>1, <2>2 DEF Open, MayVerify, ResetInv, TypeOK, Row
  <2>4. Live = r /\ Live' = r /\ r # 0
    BY <2>1, <2>3, LiveIs, LiveIsNext DEF LiveFact, ResetInv, MayVerify
  <2> QED
    BY <2>1, <2>3, <2>4, SMTT(30) DEF Promise!Authorise, MayVerify
<1>6. ASSUME NEW h \in Handlers, ResetConsume(h), row' # row
      PROVE  Promise!Change
  <2>1. ctx[h].request \in Requests
    BY <1>6, SMTT(20) DEF ResetConsume, ResetInv, HandlersInv, HandlerInv, Working, TypeOK
  <2>2. /\ MayConsume(ctx[h].request) /\ made' = made /\ password' = password + 1
        /\ row' = [Closed(row) EXCEPT ![ctx[h].request].consumedAt = TRUE]
    BY <1>6 DEF ResetConsume
  <2>3. PICK r \in Requests : /\ r = ctx[h].request /\ MayConsume(r)
                              /\ made' = made /\ password' = password + 1
                              /\ row' = [Closed(row) EXCEPT ![r].consumedAt = TRUE]
    BY <2>1, <2>2
  <2>4. Open(r) /\ row[r].verifiedAt
    BY <1>6, <2>3 DEF ResetConsume, MayConsume, Open, ResetInv, HandlersInv, HandlerInv
  <2>5. row' = [Closed(row) EXCEPT ![r] = [Closed(row)[r] EXCEPT !.consumedAt = TRUE]]
    BY <2>3
  <2>6. \A q \in Requests : /\ row'[q].present = row[q].present
                            /\ row'[q].invalidatedAt = Closed(row)[q].invalidatedAt
    BY SMTT(30), <2>3, <2>5, ClosedType DEF ResetInv, Row
  <2>7. \A q \in Requests : ~Open(q)'
    BY <2>6, ClosedType DEF Open, ResetInv
  <2>8. Live = r /\ Live' = 0 /\ r # 0
    BY <2>3, <2>4, <2>7, LiveIs, LiveIsNext DEF LiveFact, ResetInv
  <2> QED
    BY <2>3, <2>4, <2>8 DEF Promise!Change
<1>7. CASE Purge
  <2>1. UNCHANGED <<made, password>>
    BY <1>7 DEF Purge
  <2>2. \A r \in Requests : row'[r] = row[r] \/ row'[r] = NoRow
    BY <1>7 DEF Purge
  <2>3. ~NoRow.present
    BY DEF NoRow
  <2>4. CASE \E r \in Requests : Open(r) /\ ~Open(r)'
    BY <2>1, <2>2, <2>3, <2>4, Withdraws DEF Open, Promise!Next
  <2>5. CASE \A r \in Requests : Open(r) => Open(r)'
    BY <2>1, <2>2, <2>3, <2>5, Stands DEF Open
  <2> QED
    BY <2>4, <2>5
<1>8. \/ UNCHANGED <<made, row, password>>
      \/ \E h \in Handlers :
           \/ IssueCommit(h) /\ made' # made
           \/ (VerifyClaim(h) \/ VerifyLock(h) \/ VerifySet(h) \/ ResetConsume(h)) /\ row' # row
      \/ Purge
  <2>1. ASSUME NEW h \in Handlers, Next, ~Purge,
               IssueRead(h) \/ VerifyCount(h) \/ (\E g \in Requests \union {0} : VerifyFind(h, g))
               \/ (\E r \in Requests : ResetRead(h, r))
        PROVE  UNCHANGED <<made, row, password>>
    BY <2>1 DEF IssueRead, VerifyCount, VerifyFind, ResetRead
  <2>2. ASSUME NEW h \in Handlers, IssueCommit(h)
         PROVE made' # made \/ UNCHANGED <<made, row, password>>
    BY <2>2 DEF IssueCommit, ResetInv, TypeOK
  <2>3. ASSUME NEW h \in Handlers,
               VerifyClaim(h) \/ VerifyLock(h) \/ VerifySet(h) \/ ResetConsume(h)
        PROVE  row' # row \/ UNCHANGED <<made, row, password>>
    <3>1. CASE VerifyClaim(h) \/ VerifyLock(h) \/ VerifySet(h)
      BY <3>1 DEF VerifyClaim, VerifyLock, VerifySet
    <3>2. CASE ResetConsume(h) /\ UNCHANGED <<row, password>>
      BY <3>2 DEF ResetConsume
    <3>3. CASE ResetConsume(h) /\ MayConsume(ctx[h].request)
               /\ row' = [Closed(row) EXCEPT ![ctx[h].request].consumedAt = TRUE]
      <4> DEFINE r == ctx[h].request
      <4>1. r \in Requests /\ Closed(row)[r] \in Row /\ ~row[r].consumedAt
        BY SMTT(30), <3>3, ClosedType DEF ResetConsume, MayConsume, ResetInv, HandlersInv,
                                         HandlerInv, Working, TypeOK
      <4>2. row'[r].consumedAt
        BY <3>3, <4>1, ClosedType DEF ResetInv, Row
      <4> QED
        BY <4>1, <4>2
    <3> QED
      BY <2>3, <3>1, <3>2, <3>3 DEF ResetConsume
  <2>4. Tick \/ UNCHANGED vars => UNCHANGED <<made, row, password>>
    BY DEF Tick, vars
  <2> QED
    BY <2>1, <2>2, <2>3, <2>4 DEF Next, Verification
<1> QED
  BY <1>1, <1>2, <1>3, <1>4, <1>5, <1>6, <1>7, <1>8 DEF Promise!Next

\* The flow implements ResetPromise: however requests interleave, one code counts, and one
\* verified code is good for one change of the password.
THEOREM ResetKeepsPromise == Spec => ImplementsResetPromise
<1>1. ResetInv /\ ResetInv' /\ [Next]_vars => [Promise!Next]_(Promise!promiseVars)
  BY PromiseStep
<1> QED
  BY <1>1, PromiseInit, ResetInductive, PTL DEF Spec, ImplementsResetPromise, Promise!Spec

-----------------------------------------------------------------------------
(* The codes of an hour.  A transaction that may still issue one has read fewer than the *)
(* limit, as of now: the hour only moves on, and it commits on the rows it read.         *)

RecentAmong(codes) == {r \in Requests : codes[r].present /\ codes[r].createdAt >= now - Hour}

RateInv ==
  /\ CodesPerHour
  /\ \A h \in Handlers :
       pc[h] = "issue" => Cardinality(RecentAmong(ctx[h].seen)) < MaxCodesPerHour

LEMMA FewerRequests ==
  ASSUME NEW S, NEW T, S \subseteq Requests, T \subseteq S
  PROVE  Cardinality(T) <= Cardinality(S) /\ Cardinality(T) \in Nat /\ Cardinality(S) \in Nat
         /\ IsFiniteSet(S)
<1>1. IsFiniteSet(Requests)
  BY FS_Interval
<1>2. IsFiniteSet(S)
  BY <1>1, FS_Subset
<1> QED
  BY <1>2, FS_Subset, FS_CardinalityType

\* Rows that are purged or keep their time: no more of them are recent than were.
LEMMA RateKeep ==
  ASSUME RateInv, ResetInv, ResetInv', now' >= now,
         \A r \in Requests : row'[r].present => row[r].present /\ row'[r].createdAt = row[r].createdAt,
         \A h \in Handlers : pc'[h] = "issue" => pc[h] = "issue" /\ ctx'[h].seen = ctx[h].seen
  PROVE  RateInv'
<1>1. now \in Int /\ now' \in Int /\ Hour \in Int
  BY DEF ResetInv, TypeOK
<1>2. \A r \in Requests : row[r].createdAt \in Int
  BY DEF ResetInv, TypeOK, Row
<1>3. Recent' \subseteq Recent
  BY <1>1, <1>2 DEF Recent
<1>4. CodesPerHour'
  <2>1. Cardinality(Recent') <= Cardinality(Recent)
        /\ Cardinality(Recent') \in Int /\ Cardinality(Recent) \in Int
    BY <1>3, FewerRequests DEF Recent
  <2> QED
    BY <2>1 DEF RateInv, CodesPerHour
<1>5. ASSUME NEW h \in Handlers, pc'[h] = "issue"
      PROVE  Cardinality(RecentAmong(ctx[h].seen)') < MaxCodesPerHour /\ ctx'[h].seen = ctx[h].seen
  <2>1. pc[h] = "issue" /\ ctx'[h].seen = ctx[h].seen /\ ctx[h] \in Context
    BY <1>5 DEF ResetInv, TypeOK
  <2>2. \A r \in Requests : ctx[h].seen[r].createdAt \in Int
    BY <2>1, SMTT(20) DEF Context, Row
  <2> DEFINE S == RecentAmong(ctx[h].seen)
             T == {r \in Requests : ctx[h].seen[r].present /\ ctx[h].seen[r].createdAt >= now' - Hour}
  <2>3. T \subseteq S
    BY <1>1, <2>2 DEF RecentAmong
  <2>4. RecentAmong(ctx[h].seen)' = T
    BY <2>1 DEF RecentAmong
  <2>5. Cardinality(T) <= Cardinality(S) /\ Cardinality(T) \in Int /\ Cardinality(S) \in Int
    BY <2>3, FewerRequests DEF RecentAmong
  <2>6. Cardinality(S) < MaxCodesPerHour
    BY <2>1 DEF RateInv
  <2> QED
    BY <2>1, <2>4, <2>5, <2>6
<1> QED
  BY <1>4, <1>5 DEF RateInv

\* A code is issued: the transaction's reading of the rows still stands.
LEMMA RateIssued ==
  ASSUME RateInv, ResetInv, ResetInv', NEW h \in Handlers, IssueCommit(h), row' # row
  PROVE  RateInv'
<1> DEFINE n == made + 1
           new == [NoRow EXCEPT !.present = TRUE, !.createdAt = now]
<1>1. /\ pc[h] = "issue" /\ ctx[h].seen = row /\ made < MaxRequests /\ now' = now
      /\ pc' = [pc EXCEPT ![h] = "idle"] /\ ctx' = [ctx EXCEPT ![h] = Idle]
      /\ row' = [Closed(row) EXCEPT ![n] = new]
  BY DEF IssueCommit, Finish
<1>2. /\ n \in Requests /\ pc \in [Handlers -> Labels] /\ ctx \in [Handlers -> Context]
      /\ row \in [Requests -> Row] /\ TypeOK
  BY <1>1, SMTT(20) DEF ResetInv, TypeOK
<1>3. \A r \in Requests : /\ Closed(row)[r].present = row[r].present
                          /\ Closed(row)[r].createdAt = row[r].createdAt
  BY <1>2 DEF Closed, Row
<1> HIDE DEF new
<1>4. \A r \in Requests \ {n} : row'[r].present = row[r].present
                                /\ row'[r].createdAt = row[r].createdAt
  BY <1>1, <1>2, <1>3, ClosedType
<1>5. Recent' \subseteq Recent \union {n}
  BY <1>1, <1>4 DEF Recent
<1>6. RecentAmong(row) = Recent
  BY DEF RecentAmong, Recent
<1>7. Cardinality(Recent) < MaxCodesPerHour
  BY <1>1, <1>6 DEF RateInv
<1>8. /\ Cardinality(Recent') <= Cardinality(Recent \union {n})
      /\ Cardinality(Recent') \in Nat /\ Cardinality(Recent) \in Nat
      /\ IsFiniteSet(Recent)
  BY <1>2, <1>5, FewerRequests DEF Recent
<1>9. Cardinality(Recent \union {n}) <= Cardinality(Recent) + 1
  <2>1. CASE n \in Recent
    <3>1. Recent \union {n} = Recent
      BY <2>1
    <3> QED
      BY <1>8, <3>1
  <2>2. CASE n \notin Recent
    <3>1. Cardinality(Recent \union {n}) = Cardinality(Recent) + 1
      BY <1>8, <2>2, FS_AddElement
    <3> QED
      BY <1>8, <3>1
  <2> QED
    BY <2>1, <2>2
<1>10. CodesPerHour'
  <2>1. Cardinality(Recent \union {n}) \in Nat
    BY <1>2, <1>8, FewerRequests DEF Recent
  <2> QED
    BY <1>7, <1>8, <1>9, <2>1 DEF CodesPerHour
<1>11. \A g \in Handlers : pc'[g] = "issue" => pc[g] = "issue" /\ ctx'[g] = ctx[g]
  BY <1>1, <1>2
<1>12. ASSUME NEW g \in Handlers, pc'[g] = "issue"
       PROVE  Cardinality(RecentAmong(ctx[g].seen)') < MaxCodesPerHour
  <2>1. RecentAmong(ctx[g].seen)' = RecentAmong(ctx[g].seen)
    BY <1>1, <1>11, <1>12 DEF RecentAmong
  <2> QED
    BY <1>11, <1>12, <2>1 DEF RateInv
<1> QED
  BY <1>10, <1>12 DEF RateInv

\* A transaction begins only while the hour has room.
LEMMA RateRead ==
  ASSUME RateInv, ResetInv, ResetInv', NEW h \in Handlers, IssueRead(h)
  PROVE  RateInv'
<1>1. /\ CodesAllowed /\ pc' = [pc EXCEPT ![h] = "issue"]
      /\ ctx' = [ctx EXCEPT ![h].seen = row] /\ UNCHANGED <<now, row>>
  BY DEF IssueRead
<1>2. pc \in [Handlers -> Labels] /\ ctx \in [Handlers -> Context]
  BY DEF ResetInv, TypeOK
<1>3. ctx'[h].seen = row /\ \A g \in Handlers \ {h} : ctx'[g] = ctx[g] /\ pc'[g] = pc[g]
  BY <1>1, <1>2 DEF Context
<1>4. ASSUME NEW g \in Handlers, pc'[g] = "issue"
      PROVE  Cardinality(RecentAmong(ctx[g].seen)') < MaxCodesPerHour
  <2>1. CASE g = h
    <3>1. RecentAmong(ctx[g].seen)' = Recent
      BY <1>1, <1>3, <2>1 DEF RecentAmong, Recent
    <3> QED
      BY <1>1, <3>1 DEF CodesAllowed
  <2>2. CASE g # h
    <3>1. RecentAmong(ctx[g].seen)' = RecentAmong(ctx[g].seen) /\ pc[g] = "issue"
      BY <1>1, <1>3, <1>4, <2>2 DEF RecentAmong
    <3> QED
      BY <3>1 DEF RateInv
  <2> QED
    BY <2>1, <2>2
<1>5. CodesPerHour'
  BY <1>1 DEF RateInv, CodesPerHour, Recent
<1> QED
  BY <1>4, <1>5 DEF RateInv

LEMMA StepRate == RateInv /\ ResetInv /\ ResetInv' /\ [Next]_vars => RateInv'
<1> SUFFICES ASSUME RateInv, ResetInv, ResetInv', [Next]_vars PROVE RateInv'
  OBVIOUS
<1>1. /\ now \in Nat /\ row \in [Requests -> Row] /\ pc \in [Handlers -> Labels]
      /\ ctx \in [Handlers -> Context]
  BY DEF ResetInv, TypeOK
<1>2. /\ \A r \in Requests : /\ Closed(row)[r].present = row[r].present
                             /\ Closed(row)[r].createdAt = row[r].createdAt
      /\ Closed(row) \in [Requests -> Row]
  <2>1. TypeOK
    BY DEF ResetInv
  <2> QED
    BY <1>1, <2>1, ClosedType DEF Closed, Row
\* Whoever stops or works on something else is not about to issue a code.
<1>3. ASSUME NEW h \in Handlers, NEW label \in Labels \ {"issue"}, NEW c,
             pc' = [pc EXCEPT ![h] = label], ctx' = [ctx EXCEPT ![h] = c]
      PROVE  \A g \in Handlers : pc'[g] = "issue" => pc[g] = "issue" /\ ctx'[g].seen = ctx[g].seen
  BY <1>1, <1>3
<1>4. CASE UNCHANGED <<row, pc, ctx>> /\ now' >= now
  BY <1>4, RateKeep
<1>5. CASE Tick \/ UNCHANGED vars
  BY <1>1, <1>4, <1>5 DEF Tick, vars
<1>6. CASE Purge
  <2>1. \A r \in Requests : row'[r].present => row[r].present /\ row'[r].createdAt = row[r].createdAt
    BY <1>6 DEF Purge, NoRow
  <2> QED
    BY <1>1, <1>6, <2>1, RateKeep DEF Purge
<1>7. ASSUME NEW h \in Handlers, IssueRead(h) \/ IssueCommit(h) PROVE RateInv'
  <2>1. CASE row' # row \/ IssueRead(h)
    BY <1>7, <2>1, RateIssued, RateRead DEF IssueRead
  <2>2. CASE row' = row /\ IssueCommit(h)
    <3>1. UNCHANGED <<row, now>> /\ Finish(h)
      BY <2>2 DEF IssueCommit
    <3>2. \A g \in Handlers : pc'[g] = "issue" => pc[g] = "issue" /\ ctx'[g].seen = ctx[g].seen
      BY <1>3, <3>1 DEF Finish, Labels
    <3> QED
      BY <1>1, <3>1, <3>2, RateKeep
  <2> QED
    BY <1>7, <2>1, <2>2
<1>8. ASSUME NEW h \in Handlers, Verification(h) PROVE RateInv'
  <2>1. \A r \in Requests : row'[r].present => row[r].present /\ row'[r].createdAt = row[r].createdAt
    <3>1. PICK q : q = ctx[h].request
      OBVIOUS
    <3>2. \/ row' = row \/ row' = [row EXCEPT ![q].attempts = @ + 1]
          \/ row' = [row EXCEPT ![q].invalidatedAt = @ \/ row[q].present]
          \/ row' = [row EXCEPT ![q].verifiedAt = TRUE, ![q].resetTokenExpiresAt = TokenExpiry]
      BY <1>8, <3>1 DEF Verification, VerifyClaim, VerifyCount, VerifyLock, VerifySet
    <3>3. CASE row' = row
      BY <3>3
    <3>6. CASE row' = [row EXCEPT ![q].attempts = @ + 1]
      <4> DEFINE new == [row[q] EXCEPT !.attempts = @ + 1]
      <4>1. q \in Requests => new.present = row[q].present /\ new.createdAt = row[q].createdAt
        BY <1>1 DEF Row
      <4>2. row' = [row EXCEPT ![q] = new]
        BY <3>6
      <4> HIDE DEF new
      <4> QED
        BY <1>1, <4>1, <4>2
    <3>4. CASE row' = [row EXCEPT ![q].invalidatedAt = @ \/ row[q].present]
      <4> DEFINE new == [row[q] EXCEPT !.invalidatedAt = @ \/ row[q].present]
      <4>1. q \in Requests => new.present = row[q].present /\ new.createdAt = row[q].createdAt
        BY <1>1 DEF Row
      <4>2. row' = [row EXCEPT ![q] = new]
        BY <3>4
      <4> HIDE DEF new
      <4> QED
        BY <1>1, <4>1, <4>2
    <3>5. CASE row' = [row EXCEPT ![q].verifiedAt = TRUE, ![q].resetTokenExpiresAt = TokenExpiry]
      <4> DEFINE new == [row[q] EXCEPT !.verifiedAt = TRUE, !.resetTokenExpiresAt = TokenExpiry]
      <4>1. q \in Requests => new.present = row[q].present /\ new.createdAt = row[q].createdAt
        BY <1>1 DEF Row
      <4>2. row' = [row EXCEPT ![q] = new]
        BY <1>1, <3>5
      <4> HIDE DEF new
      <4> QED
        BY <1>1, <4>1, <4>2
    <3> QED
      BY <3>2, <3>3, <3>4, <3>5, <3>6
  <2>2. now' = now /\ (Finish(h) \/ \E label \in {"verify", "count", "lock"} : Goto(h, label))
    BY <1>8 DEF Verification, VerifyClaim, VerifyCount, VerifyLock, VerifySet
  <2>3. \A g \in Handlers : pc'[g] = "issue" => pc[g] = "issue" /\ ctx'[g].seen = ctx[g].seen
    BY <1>1, <2>2 DEF Finish, Goto
  <2> QED
    BY <1>1, <2>1, <2>2, <2>3, RateKeep
<1>9. ASSUME NEW h \in Handlers, ResetConsume(h) PROVE RateInv'
  <2>1. \A r \in Requests : row'[r].present => row[r].present /\ row'[r].createdAt = row[r].createdAt
    <3>1. CASE row' = row
      BY <3>1
    <3>2. CASE row' = [Closed(row) EXCEPT ![ctx[h].request].consumedAt = TRUE]
      <4>1. PICK q : q = ctx[h].request
        OBVIOUS
      <4>2. \A r \in Requests : /\ row'[r].present = Closed(row)[r].present
                                /\ row'[r].createdAt = Closed(row)[r].createdAt
        BY <1>2, <3>2, <4>1 DEF Row
      <4> QED
        BY <1>2, <4>2
    <3> QED
      BY <1>9, <3>1, <3>2 DEF ResetConsume
  <2>2. now' = now /\ Finish(h)
    BY <1>9 DEF ResetConsume
  <2>3. \A g \in Handlers : pc'[g] = "issue" => pc[g] = "issue" /\ ctx'[g].seen = ctx[g].seen
    BY <1>1, <2>2 DEF Finish
  <2> QED
    BY <1>1, <2>1, <2>2, <2>3, RateKeep
<1>10. ASSUME NEW h \in Handlers,
              \/ \E g \in Requests \union {0} : VerifyFind(h, g)
              \/ \E r \in Requests : ResetRead(h, r)
       PROVE  RateInv'
  <2>1. UNCHANGED <<now, row>> /\ (pc' = [pc EXCEPT ![h] = "claim"] \/ pc' = [pc EXCEPT ![h] = "consume"])
    BY <1>10 DEF VerifyFind, ResetRead
  <2>2. \A g \in Handlers \ {h} : ctx'[g] = ctx[g]
    BY <1>1, <1>10 DEF VerifyFind, ResetRead
  <2>3. \A g \in Handlers : pc'[g] = "issue" => pc[g] = "issue" /\ ctx'[g].seen = ctx[g].seen
    BY <1>1, <2>1, <2>2
  <2> QED
    BY <1>1, <2>1, <2>3, RateKeep
<1> QED
  BY <1>5, <1>6, <1>7, <1>8, <1>9, <1>10 DEF Next

\* Purging takes no row that still counts, so the limit cannot be got round by it: rows are
\* kept longer than an hour.
LEMMA PurgeSparesTheHour == ResetInv /\ Purge => Recent' = Recent
<1> SUFFICES ASSUME ResetInv, Purge PROVE Recent' = Recent
  OBVIOUS
<1>1. \A r \in Requests : row[r].createdAt \in Nat
  BY DEF ResetInv, TypeOK, Row
<1>2. now \in Nat /\ now' = now /\ Hour <= Retention /\ Hour \in Nat /\ Retention \in Nat
  BY DEF ResetInv, TypeOK, Purge
<1>3. \A r \in Recent : row'[r] = row[r]
  BY <1>1, <1>2 DEF Recent, Purge
<1>4. \A r \in Requests : row'[r] = row[r] \/ ~row'[r].present
  BY DEF Purge, NoRow
<1> QED
  BY <1>2, <1>3, <1>4 DEF Recent

\* However many requests race, an account never has more than MAX_CODES_PER_HOUR codes of
\* the last hour; purging takes none of those away (PurgeSparesTheHour).
THEOREM RateNeverPassed == Spec => []CodesPerHour
<1>1. Init => RateInv
  <2> SUFFICES ASSUME Init PROVE RateInv
    OBVIOUS
  <2>1. Recent = {} /\ \A h \in Handlers : pc[h] # "issue"
    BY DEF Init, Recent, NoRow
  <2>2. Cardinality(Recent) = 0
    BY <2>1, FS_EmptySet
  <2> QED
    BY <2>1, <2>2 DEF RateInv, CodesPerHour
<1>2. RateInv => CodesPerHour
  BY DEF RateInv
<1> QED
  BY <1>1, <1>2, ResetInductive, StepRate, PTL DEF Spec

-----------------------------------------------------------------------------
(* The desks side by side, as they are explored: what one of them does      *)
(* leaves the others alone, so each behaves as it does by itself.           *)

LEMMA DeskSteps ==
  ASSUME [DesksNext]_desksvars
  PROVE /\ [Next]_vars /\ [GateNext]_gatevars /\ [AlertsNext]_alertvars
        /\ [SupportNext]_supportvars /\ [GatewayNext]_gatewayvars
        /\ [AssistantNext \/ MarketingNext \/ ExplainNext]_studiovars
        /\ [PageNext(hosted)]_pagevars /\ hosted' = hosted /\ part' = part
<1>1. CASE UNCHANGED desksvars
  BY <1>1 DEF desksvars
<1>2. CASE DesksNext
  <2>1. CASE part = "reset" /\ Next /\ Others({part})
    BY <2>1 DEF Others, Studio
  <2>2. CASE \/ part = "gates" /\ GateNext /\ Others({"gate"})
             \/ part = "gate" /\ GateNext /\ Others({part})
    BY <2>2 DEF Others, Studio
  <2>3. CASE part = "alerts" /\ AlertsNext /\ Others({part})
    BY <2>3 DEF Others, Studio
  <2>4. CASE \/ part = "chat" /\ SupportNext /\ Others({"support"})
             \/ part = "support" /\ SupportNext /\ Others({part})
    BY <2>4 DEF Others, Studio
  <2>5. CASE part = "gateway" /\ GatewayNext /\ Others({part})
    BY <2>5 DEF Others, Studio
  <2>6. CASE \/ part = "assistant" /\ AssistantNext /\ Others({part})
             \/ part = "marketing" /\ MarketingNext /\ Others({part})
             \/ part = "explain" /\ ExplainNext /\ Others({part})
    BY <2>6 DEF Others, Studio
  <2>7. CASE part = "evidence" /\ PageNext(hosted) /\ Others({part})
    BY <2>7 DEF Others, Studio
  <2> QED
    BY <1>2, <2>1, <2>2, <2>3, <2>4, <2>5, <2>6, <2>7 DEF DesksNext
<1> QED
  BY <1>1, <1>2

\* A behaviour of the desks together is one of each desk by itself, so whatever is proved
\* of a desk holds of all of them side by side.
THEOREM DesksStandApart ==
  DesksSpec => /\ Spec /\ GateSpec /\ AlertsSpec /\ SupportSpec /\ GatewaySpec /\ StudioSpec
               /\ PageSpec(TRUE) \/ PageSpec(FALSE)
<1>1. DesksInit => /\ Init /\ GateInit /\ AlertsInit /\ SupportInit /\ GatewayInit
                   /\ StudioInit /\ PageInit /\ (hosted = TRUE \/ hosted = FALSE)
  BY DEF DesksInit
<1>2. [DesksNext]_desksvars =>
        /\ [Next]_vars /\ [GateNext]_gatevars /\ [AlertsNext]_alertvars
        /\ [SupportNext]_supportvars /\ [GatewayNext]_gatewayvars
        /\ [AssistantNext \/ MarketingNext \/ ExplainNext]_studiovars
  BY DeskSteps
<1>3. hosted = TRUE /\ [DesksNext]_desksvars => [PageNext(TRUE)]_pagevars /\ (hosted = TRUE)'
  BY DeskSteps
<1>4. hosted = FALSE /\ [DesksNext]_desksvars => [PageNext(FALSE)]_pagevars /\ (hosted = FALSE)'
  BY DeskSteps
<1> QED
  BY <1>1, <1>2, <1>3, <1>4, PTL
  DEF DesksSpec, Spec, GateSpec, AlertsSpec, SupportSpec, GatewaySpec, StudioSpec, PageSpec

\* Every desk keeps its variables within their types, side by side (DesksTypeOK).
THEOREM DesksTyped == DesksSpec => []DesksTypeOK
<1>1. /\ PageSpec(TRUE) => []PageTypeOK
      /\ PageSpec(FALSE) => []PageTypeOK
  BY PageTyped
<1>2. DesksInit => part \in Parts
  BY DEF DesksInit
<1>3. part \in Parts /\ [DesksNext]_desksvars => (part \in Parts)'
  BY DeskSteps
<1>4. /\ part \in Parts /\ TypeOK /\ GateTypeOK /\ AlertsTypeOK /\ SupportTypeOK
      /\ GatewayTypeOK /\ StudioTypeOK /\ PageTypeOK
      => DesksTypeOK
  BY DEF DesksTypeOK, Parts, Studio
<1> QED
  BY <1>1, <1>2, <1>3, <1>4, DesksStandApart, ResetTyped, GatesTyped, AlertsTyped, SupportTyped,
     GatewayTyped, StudioTyped, PTL
  DEF DesksSpec
=============================================================================
