------------------------------ MODULE AiGateway ------------------------------
(***************************************************************************)
(* The one door to the language model (ai.service.ts), for one feature on  *)
(* one day.  Requests of several readers are under way at once; each reads *)
(* the settings, then the usage logged so far, then calls the provider,    *)
(* and only then logs its own use.  Admins change the settings meanwhile.  *)
(***************************************************************************)
EXTENDS Naturals, FiniteSets, FiniteSetsExt

CONSTANTS
    Callers,        \* requests that can be under way at once
    Askers,         \* signed-in users
    Visitor,        \* a caller that is not signed in: userId is null
    DailyLimits, UserLimits, Budgets,   \* the values admins set
    MaxLost         \* bound: calls the usage log never hears of

ASSUME AiGatewayAssumption ==
    /\ Visitor \notin Askers
    /\ IsFiniteSet(Callers) /\ Callers # {} /\ IsFiniteSet(Askers)
    /\ DailyLimits \subseteq Nat /\ UserLimits \subseteq Nat /\ Budgets \subseteq Nat
    /\ MaxLost \in Nat

VARIABLES
    provider,       \* ON, OFF (AI_ENABLED) or NOT_CONFIGURED (no key)
    setting,        \* the AiFeatureSetting row
    call,           \* the requests
    logged,         \* counted rows of AiUsageLog, per user
    spend,          \* costUsd of those rows
    called,           \* calls the provider has got, per user
    lost,           \* calls with no row: logUsage failed, or the process stopped
    granted         \* the highest limits in force so far

gatewayvars == <<provider, setting, call, logged, spend, called, lost, granted>>

Anyone == Askers \union {Visitor}
SettingRows == [enabled : BOOLEAN, daily : DailyLimits, each : UserLimits, budget : Budgets]
Outcomes == {"DATA", "DISABLED", "NOT_CONFIGURED", "LIMIT", "BUDGET", "PROVIDER", "INVALID_OUTPUT", "REFUSED"}

(* What the provider's answer costs: only a thrown error costs nothing.    *)
Cost(status) == IF status = "PROVIDER_ERROR" THEN 0 ELSE 1

(* Mutant: a call the provider failed does not count against the limits.   *)
CountedSuccess == {"SUCCESS", "INVALID_OUTPUT", "REFUSED"}

CountedStatuses == {"SUCCESS", "PROVIDER_ERROR", "INVALID_OUTPUT", "REFUSED"}

AllOf(f) == MapThenSumSet(LAMBDA u : f[u], Anyone)
NoCall == [pc |-> "idle", user |-> Visitor, row |-> {}]
Goes(c, pc) == call' = [call EXCEPT ![c].pc = pc]
Ends(c) == call' = [call EXCEPT ![c] = NoCall]

-----------------------------------------------------------------------------
(* generate: refused at once where there is no provider ...                *)
Generate(c, u) ==
    /\ call[c].pc = "idle"
    /\ call' = [call EXCEPT ![c].user = u,
                    ![c].pc = CASE provider = "OFF" -> "DISABLED"
                                [] provider = "NOT_CONFIGURED" -> "NOT_CONFIGURED"
                                [] provider = "ON" -> "settings"]
    /\ UNCHANGED <<provider, setting, logged, spend, called, lost, granted>>

(* ... or where the feature is off ...                                     *)
GetSettings(c) ==
    /\ call[c].pc = "settings"
    /\ call' = [call EXCEPT ![c].row = {setting},
                    ![c].pc = IF setting.enabled THEN "limits" ELSE "DISABLED"]
    /\ UNCHANGED <<provider, setting, logged, spend, called, lost, granted>>

(* ... or its use has come up to a limit of the settings that were read.   *)
Exceeded(c, row) ==
    CASE AllOf(logged) >= row.daily -> "LIMIT"
      [] call[c].user # Visitor /\ logged[call[c].user] >= row.each -> "LIMIT"
      [] spend >= row.budget -> "BUDGET"
      [] OTHER -> "calling"

EnforceLimits(c) ==
    /\ call[c].pc = "limits"
    /\ \E row \in call[c].row :
         LET next == Exceeded(c, row)
         IN /\ call' = [call EXCEPT ![c].pc = next, ![c].row = {}]
            /\ called' = [called EXCEPT ![call[c].user] = @ + (IF next = "calling" THEN 1 ELSE 0)]
    /\ UNCHANGED <<provider, setting, logged, spend, lost, granted>>

(* logUsage: a row that cannot be written is only mentioned in the log.    *)
LogUsage(u, status) ==
    \/ /\ logged' = [logged EXCEPT ![u] = @ + (IF status \in CountedStatuses THEN 1 ELSE 0)]
       /\ spend' = spend + Cost(status)
       /\ UNCHANGED lost
    \/ /\ lost < MaxLost
       /\ lost' = lost + 1
       /\ UNCHANGED <<logged, spend>>

(* The provider's answer: logged, and handed on only if it fits the schema.*)
Answered(c, status) ==
    /\ call[c].pc = "calling"
    /\ LogUsage(call[c].user, status)
    /\ Goes(c, CASE status = "SUCCESS" -> "DATA"
                 [] status = "PROVIDER_ERROR" -> "PROVIDER"
                 [] OTHER -> status)
    /\ UNCHANGED <<provider, setting, called, granted>>

(* The caller gets the outcome: an error's reason, or the data.            *)
Heard(c) ==
    /\ call[c].pc \in Outcomes
    /\ Ends(c)
    /\ UNCHANGED <<provider, setting, logged, spend, called, lost, granted>>

(* The process stops while the provider is writing.                        *)
Killed(c) ==
    /\ call[c].pc = "calling"
    /\ lost < MaxLost
    /\ lost' = lost + 1
    /\ Ends(c)
    /\ UNCHANGED <<provider, setting, logged, spend, called, granted>>

-----------------------------------------------------------------------------
(* The AI Settings page shows the rows it loaded, each in a form of its    *)
(* own, and saves every field of it, changed or not: what a save writes    *)
(* over the row of the moment may be any row.                              *)
FeatureRow(row) == row \in SettingRows

UpdateSettings(row) ==
    /\ FeatureRow(row) /\ row # setting
    /\ setting' = row
    /\ granted' = [daily |-> Max({granted.daily, row.daily}), each |-> Max({granted.each, row.each}),
                   budget |-> Max({granted.budget, row.budget})]
    /\ UNCHANGED <<provider, call, logged, spend, called, lost>>

-----------------------------------------------------------------------------
GatewayInit ==
    /\ provider \in {"ON", "OFF", "NOT_CONFIGURED"}
    /\ setting \in SettingRows
    /\ call = [c \in Callers |-> NoCall]
    /\ logged = [u \in Anyone |-> 0] /\ called = [u \in Anyone |-> 0]
    /\ spend = 0 /\ lost = 0
    /\ granted = [daily |-> setting.daily, each |-> setting.each, budget |-> setting.budget]

GatewayNext ==
    \/ \E c \in Callers :
         \/ \E u \in Anyone : Generate(c, u)
         \/ GetSettings(c)
         \/ EnforceLimits(c)
         \/ \E status \in {"SUCCESS", "PROVIDER_ERROR", "INVALID_OUTPUT", "REFUSED"} : Answered(c, status)
         \/ Heard(c)
         \/ Killed(c)
    \/ \E row \in SettingRows : UpdateSettings(row)

GatewaySpec == GatewayInit /\ [][GatewayNext]_gatewayvars

-----------------------------------------------------------------------------
(* Properties. *)

(* Every variable keeps its type. *)
GatewayTypeOK ==
    /\ provider \in {"ON", "OFF", "NOT_CONFIGURED"}
    /\ setting \in SettingRows
    /\ call \in [Callers -> [pc : {"idle", "settings", "limits", "calling"} \union Outcomes,
                             user : Anyone, row : SUBSET SettingRows]]
    /\ logged \in [Anyone -> Nat] /\ called \in [Anyone -> Nat]
    /\ spend \in Nat /\ lost \in 0..MaxLost
    /\ granted \in [daily : Nat, each : Nat, budget : Nat]

(* ai.service.ts:61: "per-feature, per-user and monthly-budget limits are  *)
(* enforced".  Each limit is compared with what has been logged, before a  *)
(* call that is logged after it, so it can be passed, but by no more than  *)
(* the other requests that were under way and the calls nothing logged:    *)
(* failed calls and settings changed under a request cannot add to that.   *)
LimitsHold ==
    LET slack == Cardinality(Callers) + lost
    IN /\ AllOf(called) < granted.daily + slack
       /\ \A u \in Askers : called[u] < granted.each + slack
       /\ spend < granted.budget + Cardinality(Callers)
=============================================================================
