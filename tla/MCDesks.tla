------------------------------- MODULE MCDesks -------------------------------
(* Seven desks at which people and requests meet, on small instances: the   *)
(* password reset, the gate, the alerts, support, the AI gateway, the       *)
(* pages that write with it, and the representative's identity check.  They *)
(* share no state, so a behaviour of all of them is their behaviours        *)
(* interleaved and satisfies the properties of each when they do: one run   *)
(* explores them side by side, and "part" says which one moves.  The gate   *)
(* has two parts, two scanners at one ticket and one scanner at two, and so *)
(* has support: two people who chat, and one who opens a ticket as well;    *)
(* the pages that write have one each.                                      *)
EXTENDS PasswordReset, Admission, Alerts, SupportDesk, AiGateway, AiStudio, RepresentativePage, TLC

CONSTANTS h1, h2, t1, t2, e1, e2, g1, g2, k1, k2, u1, u2

VARIABLES
    part,
    hosted   \* Persona is configured, which decides the page of the evidence

desksvars == <<vars, gatevars, alertvars, supportvars, gatewayvars, studiovars, pagevars, part, hosted>>

MCEventOf == t1 :> e1 @@ t2 :> e2
Interchangeable == Permutations(Handlers) \cup Permutations(Callers)

Parts == {"reset", "gates", "gate", "alerts", "chat", "support",
          "gateway", "assistant", "marketing", "explain", "evidence"}
Studio == {"assistant", "marketing", "explain"}

(* Of the gateway's initial choices one is kept when it does not move. *)
DesksInit ==
    /\ Init /\ GateInit /\ AlertsInit /\ SupportInit /\ GatewayInit /\ StudioInit /\ PageInit
    /\ part \in Parts /\ hosted \in BOOLEAN
    /\ part # "gateway" => provider = "OFF" /\ setting = CHOOSE s \in SettingRows : TRUE
    /\ part # "evidence" => ~hosted

Others(moving) ==
    /\ IF "reset" \in moving THEN TRUE ELSE UNCHANGED vars
    /\ IF "gate" \in moving THEN TRUE ELSE UNCHANGED gatevars
    /\ IF "alerts" \in moving THEN TRUE ELSE UNCHANGED alertvars
    /\ IF "support" \in moving THEN TRUE ELSE UNCHANGED supportvars
    /\ IF "gateway" \in moving THEN TRUE ELSE UNCHANGED gatewayvars
    /\ IF Studio \cap moving # {} THEN TRUE ELSE UNCHANGED studiovars
    /\ IF "evidence" \in moving THEN TRUE ELSE UNCHANGED pagevars
    /\ UNCHANGED <<part, hosted>>

(* Two scanners, one ticket, no typing: what they do at the same instant.   *)
OneTicket ==
    \A g \in Gates : page'[g].event # e2 /\ page'[g].typed = Nobody
                     /\ (page'[g].qr # Nobody => page'[g].qr = Genuine(t1))
OneGate == page'[g2] = page[g2]

(* Nobody opens a ticket; or one person does, who never pays. *)
OnlyChat == desk' = <<>>
OnePerson == payers' = {} /\ {reader', bearer'} \subseteq {u1, Anon}

(* One draft at the studio, two at the assistant. *)
OneDraft == draft'[CHOOSE d \in AiDrafts : TRUE].status = "NONE"

DesksNext ==
    \/ part = "reset" /\ Next /\ Others({part})
    \/ part = "gates" /\ GateNext /\ OneTicket /\ Others({"gate"})
    \/ part = "gate" /\ GateNext /\ OneGate /\ Others({part})
    \/ part = "alerts" /\ AlertsNext /\ Others({part})
    \/ part = "chat" /\ SupportNext /\ OnlyChat /\ Others({"support"})
    \/ part = "support" /\ SupportNext /\ OnePerson /\ Others({part})
    \/ part = "gateway" /\ GatewayNext /\ Others({part})
    \/ part = "assistant" /\ AssistantNext /\ Others({part})
    \/ part = "marketing" /\ MarketingNext /\ OneDraft /\ Others({part})
    \/ part = "explain" /\ ExplainNext /\ Others({part})
    \/ part = "evidence" /\ PageNext(hosted) /\ Others({part})

DesksSpec == DesksInit /\ [][DesksNext]_desksvars

(* Each desk keeps its variables within their types. *)
DesksTypeOK ==
    CASE part = "reset" -> TypeOK
      [] part \in {"gates", "gate"} -> GateTypeOK
      [] part = "alerts" -> AlertsTypeOK
      [] part \in {"chat", "support"} -> SupportTypeOK
      [] part = "gateway" -> GatewayTypeOK
      [] part \in Studio -> StudioTypeOK
      [] part = "evidence" -> PageTypeOK
=============================================================================
