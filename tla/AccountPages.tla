---------------------------- MODULE AccountPages ----------------------------
(***************************************************************************)
(* Signing up, signing in and resetting a password in the browser: the     *)
(* pages register, login, forgot-password, verify-reset-code and           *)
(* reset-password, the session of hooks/useAuth.tsx, the state of          *)
(* lib/password-reset.ts, and the account they change, seen from outside   *)
(* (PasswordReset has the requests of the server step by step).            *)
(*                                                                         *)
(* A tab moves between the pages while its requests are under way.  An     *)
(* answer that comes when the page that asked has been left still writes   *)
(* storage and still navigates; only the state of the page is gone.  A     *)
(* reload forgets the answer, not the request.                             *)
(***************************************************************************)
EXTENDS Naturals, FiniteSets

CONSTANTS
    Browsers,   \* the tabs, one in each browser considered
    Resend,     \* bound: codes issued for the account
    Handoff,    \* LOGIN_HANDOFF_MS, in re-renders of the countdown
    MaxUnder    \* bound: calls of a tab under way at a time

ASSUME AccountAssumption == Resend \in Nat /\ Handoff \in Nat /\ MaxUnder \in Nat

VARIABLES
    account,  \* the account of the e-mail address at hand
    codes,    \* its reset codes: issued, the live one, the authorisation it became
    jwt,      \* localStorage tfk_token: the password it was issued under, 0 for none
    signed,   \* per tab: useAuth has a user
    stash,    \* per tab: sessionStorage, the request and the authorisation
    place,    \* per tab: the page
    view,     \* per tab: the state of that page
    wait      \* per tab: the calls under way, one of a kind

accountvars == <<account, codes, jwt, signed, stash, place, view, wait>>
server == <<account, codes>>
tab == <<signed, stash, place, view>>

Codes == 1..Resend
Roles == {"none", "CUSTOMER", "ORGANIZER"}
Places == {"login", "register", "forgot", "verify", "reset", "home"}
Ages == {"none", "cooling", "open", "expired"}   \* of a request: resend closed, open, code over
Auth == [grant : {0} \cup Codes, expired : BOOLEAN]
NoAuth == [grant |-> 0, expired |-> FALSE]
Blank == [request |-> "none", auth |-> NoAuth, typed |-> "empty", done |-> FALSE, left |-> 0]

Kinds == {"register", "sign", "request", "resend", "verify", "reset"}
Call(stage, here, arg, reply) == [stage |-> stage, here |-> here, arg |-> arg, reply |-> reply]
NoCall == Call("none", FALSE, 0, "none")
Under(t, k) == wait[t][k].stage # "none"
Mine(t, k) == Under(t, k) /\ wait[t][k].here

Send(t, k, arg) ==
    /\ ~Under(t, k) /\ Cardinality({j \in Kinds : Under(t, j)}) < MaxUnder
    /\ wait' = [wait EXCEPT ![t][k] = Call("sent", TRUE, arg, "none")]

(* Leaving a page for page p: what was asked from it is asked by nobody.   *)
Away(t, calls) == [calls EXCEPT ![t] = [k \in Kinds |-> [@[k] EXCEPT !.here = FALSE]]]
Land(t, p, calls) ==
    /\ place' = [place EXCEPT ![t] = p]
    /\ view' = [view EXCEPT ![t] = Blank]
    /\ wait' = Away(t, calls)

-----------------------------------------------------------------------------
(* The server.  A call is served once, whether or not anybody waits.       *)

Serving(t, k) == wait[t][k].stage \in {"sent", "adrift"}
Reply(t, k, arg, reply) ==
    wait' = [wait EXCEPT ![t][k] = IF @.stage = "adrift" THEN NoCall
                                   ELSE Call("answered", @.here, arg, reply)]

(* The account and an organiser's profile are two inserts, not one         *)
(* transaction: "profile" is the moment between them.                      *)
ServeRegister(t, role) ==
    /\ Serving(t, "register")
    /\ \/ /\ account.made # "none"
          /\ Reply(t, "register", 0, "refused")
          /\ UNCHANGED account
       \/ /\ account.made = "none"
          /\ account' = [account EXCEPT !.made = role]
          /\ IF role = "ORGANIZER"
             THEN wait' = [wait EXCEPT ![t]["register"].stage = "profile"]
             ELSE Reply(t, "register", account.word, "ok")
    /\ UNCHANGED <<codes, jwt, tab>>

CreateProfile(t) ==
    /\ wait[t]["register"].stage = "profile"
    /\ account' = [account EXCEPT !.profile = TRUE]
    /\ Reply(t, "register", account.word, "ok")
    /\ UNCHANGED <<codes, jwt, tab>>

(* The right password, or not. *)
ServeLogin(t) ==
    /\ Serving(t, "sign")
    /\ \/ account.made # "none" /\ Reply(t, "sign", account.word, "ok")
       \/ Reply(t, "sign", 0, "refused")
    /\ UNCHANGED <<server, jwt, tab>>

(* The answer is the same whether a code was issued or not: none is for an *)
(* unknown address, within the cooldown, or over the hourly allowance.     *)
ServeRequest(t, k) ==
    /\ Serving(t, k)
    /\ \/ /\ account.made # "none" /\ codes.issued < Resend
          /\ codes' = [issued |-> codes.issued + 1, live |-> codes.issued + 1, grant |-> 0]
       \/ UNCHANGED codes
    /\ Reply(t, k, 0, "ok")
    /\ UNCHANGED <<account, jwt, tab>>

(* A wrong code may be one too many and lock the live one. *)
ServeVerify(t) ==
    /\ Serving(t, "verify")
    /\ \/ /\ codes.live # 0 /\ wait[t]["verify"].arg = codes.live
          /\ codes' = [codes EXCEPT !.live = 0, !.grant = codes.live]
          /\ Reply(t, "verify", codes.live, "ok")
       \/ /\ codes.live = 0 \/ wait[t]["verify"].arg # codes.live
          /\ codes' \in {codes, [codes EXCEPT !.live = 0]}
          /\ Reply(t, "verify", 0, "refused")
    /\ UNCHANGED <<account, jwt, tab>>

ServeReset(t) ==
    LET g == wait[t]["reset"].arg IN
    /\ Serving(t, "reset")
    /\ \/ /\ g = codes.grant
          /\ account' = [account EXCEPT !.word = @ + 1, !.by = @ \cup {g}]
          /\ codes' = [codes EXCEPT !.live = 0, !.grant = 0]
          /\ Reply(t, "reset", g, "ok")
       \/ g # codes.grant /\ Reply(t, "reset", g, "dead") /\ UNCHANGED server
    /\ UNCHANGED <<jwt, tab>>

(* Codes and authorisations run out. *)
Expires ==
    /\ codes' \in {[codes EXCEPT !.live = 0], [codes EXCEPT !.grant = 0]} \ {codes}
    /\ UNCHANGED <<account, jwt, tab, wait>>

(* The connection breaks, before the server is reached or after, or the    *)
(* server refuses or stops half-way: the page hears an error.              *)
Breaks(t, k) ==
    /\ wait[t][k].stage \in {"sent", "profile", "answered"}
    /\ wait' = [wait EXCEPT ![t][k] = Call("answered", @.here, @.arg, "error")]
    /\ UNCHANGED <<server, jwt, tab>>

(* The server asks whose token this is: one of an older password is        *)
(* refused, and the interceptor of lib/api.ts drops it.  The user of       *)
(* useAuth stays.                                                          *)
TokenValid == jwt = account.word
RefreshUser(t) ==
    /\ place[t] = "home" /\ signed[t]
    /\ jwt # 0 /\ ~TokenValid
    /\ jwt' = 0
    /\ UNCHANGED <<server, tab, wait>>

-----------------------------------------------------------------------------
(* What a page shows. *)

RegisterForm(t) == place[t] = "register" /\ ~Mine(t, "register")
SignInForm(t) == place[t] = "login" /\ ~Mine(t, "sign")
ForgotForm(t) == place[t] = "forgot" /\ ~Mine(t, "request")

(* The six boxes, open until the countdown ends. *)
CodeBoxes(t) == view[t].request \notin {"none", "expired"} /\ ~Mine(t, "verify")
VerifyView(t) == place[t] = "verify" /\ view[t].request # "none"
OffersResend(t) ==
    /\ VerifyView(t) /\ view[t].request \in {"open", "expired"}
    /\ ~Mine(t, "resend") /\ ~Mine(t, "verify")

DoneView(t) == place[t] = "reset" /\ view[t].done
ResetForm(t) == place[t] = "reset" /\ ~view[t].done /\ view[t].auth.grant # 0
(* Two fields: whoever types can meet the policy, and type the same twice. *)
ResetFields(t) == ResetForm(t) /\ ~Mine(t, "reset")
MayReset(t) == ResetFields(t) /\ ~view[t].auth.expired

(* The links of the page; the menu of a signed-in user has the account.    *)
PageLinks(t) ==
    CASE place[t] = "login" -> {"register", "forgot"}
      [] place[t] \in {"register", "forgot"} -> {"login"}
      [] VerifyView(t) -> {"login", "forgot"}
      [] DoneView(t) -> {"login"}
      [] ResetForm(t) -> {"login", "forgot"}
      [] OTHER -> {}
Links(t) == PageLinks(t) \cup IF signed[t] /\ place[t] # "home" THEN {"home"} ELSE {}

Follow(t) ==
    /\ \E p \in Links(t) : Land(t, p, wait)
    /\ UNCHANGED <<server, jwt, signed, stash>>

-----------------------------------------------------------------------------
(* useAuth: the session of the tab, and localStorage. *)

Persist(t, word) == jwt' = word /\ signed' = [signed EXCEPT ![t] = TRUE]
Forget(t) == jwt' = 0 /\ signed' = [signed EXCEPT ![t] = FALSE]

SignOut(t) ==
    /\ place[t] = "home" /\ signed[t]
    /\ Forget(t)
    /\ Land(t, "login", wait)
    /\ UNCHANGED <<server, stash>>

(* RequireRole, on every page of an account. *)
RequireRole(t) ==
    /\ place[t] = "home" /\ ~signed[t]
    /\ Land(t, "login", wait)
    /\ UNCHANGED <<server, jwt, signed, stash>>

(* The provider reads localStorage once.  Nobody hears what is answered.   *)
ReloadPage(t) ==
    /\ signed' = [signed EXCEPT ![t] = jwt # 0]
    /\ view' = [view EXCEPT ![t] = Blank]
    /\ wait' = [wait EXCEPT ![t] = [k \in Kinds |->
                    IF @[k].stage \in {"sent", "profile"} THEN Call("adrift", FALSE, @[k].arg, "none")
                    ELSE NoCall]]
    /\ UNCHANGED <<server, jwt, stash, place>>

(* Somebody signs in or out in another tab. *)
OtherTab ==
    /\ jwt' \in {0, account.word} \ {jwt}
    /\ account.made # "none"
    /\ UNCHANGED <<server, tab, wait>>

-----------------------------------------------------------------------------
(* The pages. *)

SubmitRegister(t) ==
    /\ RegisterForm(t)
    /\ Send(t, "register", 0)
    /\ UNCHANGED <<server, jwt, tab>>

SubmitLogin(t) ==
    /\ SignInForm(t)
    /\ Send(t, "sign", 0)
    /\ UNCHANGED <<server, jwt, tab>>

Told(t, k, reply) == wait[t][k].stage = "answered" /\ wait[t][k].reply \in reply
Without(t, k) == [wait EXCEPT ![t][k] = NoCall]

(* register and login: the answer is the new session, wherever the tab is. *)
Entered(t, k) ==
    /\ Told(t, k, {"ok"})
    /\ Persist(t, wait[t][k].arg)
    /\ Land(t, "home", Without(t, k))
    /\ UNCHANGED <<server, stash>>

(* Any other failure is a message on the page. *)
Failed(t, k) ==
    /\ Told(t, k, {"refused", "error"})
    /\ k # "verify" \/ ~Mine(t, k)
    /\ wait' = Without(t, k)
    /\ UNCHANGED <<server, jwt, tab>>

(* forgot-password. *)
SubmitForgot(t) ==
    /\ ForgotForm(t)
    /\ Send(t, "request", 0)
    /\ UNCHANGED <<server, jwt, tab>>

SavedRequest == [request |-> "cooling", auth |-> NoAuth]

CodeRequested(t) ==
    /\ Told(t, "request", {"ok"})
    /\ stash' = [stash EXCEPT ![t] = SavedRequest]
    /\ Land(t, "verify", Without(t, "request"))
    /\ UNCHANGED <<server, jwt, signed>>

(* verify-reset-code. *)
LoadRequest(t) ==
    /\ place[t] = "verify" /\ view[t].request = "none"
    /\ IF stash[t].request = "none"
       THEN Land(t, "forgot", wait)
       ELSE /\ view' = [view EXCEPT ![t].request = stash[t].request]
            /\ UNCHANGED <<place, wait>>
    /\ UNCHANGED <<server, jwt, signed, stash>>

(* The digits typed or pasted; Backspace. *)
Type(t) ==
    /\ VerifyView(t) /\ CodeBoxes(t)
    /\ view' = [view EXCEPT ![t].typed = CASE @ = "empty" -> "partial" [] @ = "partial" -> "empty"
                                           [] OTHER -> "partial"]
    /\ UNCHANGED <<server, jwt, signed, stash, place, wait>>

(* The sixth digit sends the code by itself; so does the button.  Whoever  *)
(* types has one of the codes mailed, or guesses.                          *)
Verify(t) ==
    /\ VerifyView(t) /\ CodeBoxes(t)
    /\ \E c \in 0..codes.issued : Send(t, "verify", c)
    /\ view' = [view EXCEPT ![t].typed = "full"]
    /\ UNCHANGED <<server, jwt, signed, stash, place>>

SaveResetAuth(t, g) == stash' = [stash EXCEPT ![t] = [request |-> "none", auth |-> [NoAuth EXCEPT !.grant = g]]]

Verified(t) ==
    /\ Told(t, "verify", {"ok"})
    /\ SaveResetAuth(t, wait[t]["verify"].arg)
    /\ Land(t, "reset", Without(t, "verify"))
    /\ UNCHANGED <<server, jwt, signed>>

NotVerified(t) ==
    /\ Told(t, "verify", {"refused", "error"}) /\ Mine(t, "verify")
    /\ wait' = Without(t, "verify")
    /\ view' = [view EXCEPT ![t].typed = "empty"]
    /\ UNCHANGED <<server, jwt, signed, stash, place>>

ResendCode(t) ==
    /\ OffersResend(t)
    /\ Send(t, "resend", 0)
    /\ UNCHANGED <<server, jwt, tab>>

(* It is written beside an authorisation that a verified code may have     *)
(* left meanwhile.                                                         *)
Resent(t) ==
    /\ Told(t, "resend", {"ok"})
    /\ stash' = [stash EXCEPT ![t].request = "cooling"]
    /\ view' = IF Mine(t, "resend")
               THEN [view EXCEPT ![t].request = "cooling", ![t].typed = "empty"] ELSE view
    /\ wait' = Without(t, "resend")
    /\ UNCHANGED <<server, jwt, signed, place>>

Older(age) == CASE age = "cooling" -> "open" [] age = "open" -> "expired" [] OTHER -> age

RequestAges(t) ==
    /\ view' = [view EXCEPT ![t].request = Older(@)]
    /\ stash' = [stash EXCEPT ![t].request = Older(@)]
    /\ UNCHANGED <<server, jwt, signed, place, wait>>

(* reset-password. *)
Usable(auth) == auth.grant # 0 /\ ~auth.expired

LoadAuth(t) ==
    /\ place[t] = "reset" /\ ~view[t].done /\ view[t].auth = NoAuth
    /\ IF Usable(stash[t].auth)
       THEN /\ view' = [view EXCEPT ![t].auth = stash[t].auth]
            /\ UNCHANGED <<place, wait, stash>>
       ELSE /\ stash' = [stash EXCEPT ![t].auth = NoAuth]
            /\ Land(t, "forgot", wait)
    /\ UNCHANGED <<server, jwt, signed>>

AuthRunsOut(t) ==
    /\ stash' = [stash EXCEPT ![t].auth.expired = @ \/ stash[t].auth.grant # 0]
    /\ view' = [view EXCEPT ![t].auth.expired = @ \/ view[t].auth.grant # 0]
    /\ UNCHANGED <<server, jwt, signed, place, wait>>

SubmitReset(t) ==
    /\ MayReset(t)
    /\ Send(t, "reset", view[t].auth.grant)
    /\ UNCHANGED <<server, jwt, tab>>

Cleared == [request |-> "none", auth |-> NoAuth]

(* Done, or told that the authorisation is none: either way it is dropped. *)
ResetDone(t) ==
    /\ Told(t, "reset", {"ok"})
    /\ stash' = [stash EXCEPT ![t] = Cleared]
    /\ view' = IF Mine(t, "reset") THEN [view EXCEPT ![t].done = TRUE, ![t].left = Handoff] ELSE view
    /\ wait' = Without(t, "reset")
    /\ UNCHANGED <<server, jwt, signed, place>>

ResetDead(t) ==
    /\ Told(t, "reset", {"dead"})
    /\ stash' = [stash EXCEPT ![t] = Cleared]
    /\ wait' = Without(t, "reset")
    /\ UNCHANGED <<server, jwt, signed, view, place>>

(* Mutant: sign-out in the dependencies of the timer, new on every render. *)
RerenderRestarts(t) ==
    /\ DoneView(t) /\ view[t].left > 0
    /\ view' = [view EXCEPT ![t].left = Handoff]
    /\ UNCHANGED <<server, jwt, signed, stash, place, wait>>

(* The countdown renders the page again every second, under the timer that *)
(* will leave it.                                                          *)
Rerender(t) ==
    /\ DoneView(t) /\ view[t].left > 0
    /\ view' = [view EXCEPT ![t].left = @ - 1]
    /\ UNCHANGED <<server, jwt, signed, stash, place, wait>>

(* Whoever this browser has signed in is signed out. *)
HandOff(t) ==
    /\ DoneView(t) /\ view[t].left = 0
    /\ IF signed[t] THEN Forget(t) ELSE UNCHANGED <<jwt, signed>>
    /\ Land(t, "login", wait)
    /\ UNCHANGED <<server, stash>>

-----------------------------------------------------------------------------
AccountInit ==
    /\ account \in {[made |-> m, profile |-> FALSE, word |-> 1, by |-> {}] : m \in {"none", "CUSTOMER"}}
    /\ codes = [issued |-> 0, live |-> 0, grant |-> 0]
    /\ jwt \in IF account.made = "none" THEN {0} ELSE {0, 1}
    /\ signed = [t \in Browsers |-> jwt # 0]
    /\ stash = [t \in Browsers |-> Cleared]
    /\ place \in [Browsers -> {"login", "home"}]
    /\ view = [t \in Browsers |-> Blank]
    /\ wait = [t \in Browsers |-> [k \in Kinds |-> NoCall]]

ServerActs(t) ==
    \/ \E role \in Roles \ {"none"} : ServeRegister(t, role)
    \/ CreateProfile(t) \/ ServeLogin(t) \/ ServeVerify(t) \/ ServeReset(t)
    \/ \E k \in {"request", "resend"} : ServeRequest(t, k)
    \/ \E k \in Kinds : Breaks(t, k)

TabActs(t) ==
    \/ Follow(t) \/ SignOut(t) \/ RequireRole(t) \/ ReloadPage(t) \/ RefreshUser(t)
    \/ SubmitRegister(t) \/ SubmitLogin(t) \/ SubmitForgot(t) \/ SubmitReset(t)
    \/ \E k \in {"register", "sign"} : Entered(t, k)
    \/ \E k \in Kinds : Failed(t, k)
    \/ LoadRequest(t) \/ Type(t) \/ Verify(t) \/ ResendCode(t) \/ RequestAges(t)
    \/ CodeRequested(t) \/ Verified(t) \/ NotVerified(t) \/ Resent(t)
    \/ LoadAuth(t) \/ AuthRunsOut(t) \/ ResetDone(t) \/ ResetDead(t)
    \/ Rerender(t) \/ HandOff(t)

AccountNext == Expires \/ OtherTab \/ \E t \in Browsers : ServerActs(t) \/ TabActs(t)

(* Timers of a page that stays open fire. *)
AccountFairness == \A t \in Browsers : WF_accountvars(Rerender(t)) /\ WF_accountvars(HandOff(t))

AccountSpec == AccountInit /\ [][AccountNext]_accountvars /\ AccountFairness

-----------------------------------------------------------------------------
(* Properties. *)

(* Every variable keeps its type. *)
AccountTypeOK ==
    /\ account \in [made : Roles, profile : BOOLEAN, word : 1..Resend + 1, by : SUBSET Codes]
    /\ codes \in [issued : 0..Resend, live : 0..Resend, grant : 0..Resend]
    /\ jwt \in 0..Resend + 1
    /\ signed \in [Browsers -> BOOLEAN]
    /\ stash \in [Browsers -> [request : Ages, auth : Auth]]
    /\ place \in [Browsers -> Places]
    /\ view \in [Browsers -> [request : Ages, auth : Auth, typed : {"empty", "partial", "full"},
                              done : BOOLEAN, left : 0..Handoff]]
    /\ wait \in [Browsers -> [Kinds -> [stage : {"none", "sent", "adrift", "profile", "answered"},
                              here : BOOLEAN, arg : 0..Resend + 1,
                              reply : {"none", "ok", "refused", "dead", "error"}]]]

(* "Password reset successful" is only ever shown for an authorisation that *)
(* changed the password, however late its answer came, and the page that    *)
(* shows it does not stay: it hands over to log in although it is rendered  *)
(* again every second (reset-password, the hand-off timer).                 *)
HandsOver ==
    \A t \in Browsers :
        /\ [](view[t].done => view[t].auth.grant \in account.by)
        /\ view[t].done ~> ~view[t].done
=============================================================================
